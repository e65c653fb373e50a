------------------------- MODULE HandleSys_proofs ---------------------------
(***************************************************************************)
(* Proofs about the handle system: the handle table keeps its shape, its   *)
(* clients see objects that die once, and type indices are handed out      *)
(* rightly, for any number of slots, serials, types, identities and        *)
(* handles made.                                                           *)
(*                                                                         *)
(* First the table (HandleTable) by itself.                                *)
(* The parts of the invariant lean on each other.  The free stack stays    *)
(* right only if every slot that is released is in use, which for a child  *)
(* of an identity depends on the owner chains, for a master on the         *)
(* reference counts, and for a destructor that returns on the stack of     *)
(* unfinished frees.  Hence one inductive invariant, IInv.                 *)
(***************************************************************************)
EXTENDS HandleTypes, Lists_proofs, FiniteSetTheorems, SequenceTheorems

IInv ==
  /\ TypeOK /\ FreeListOK /\ RefCountOK /\ CloneTargetOK /\ StackOK
  /\ IdentitiesOK /\ OwnersAlive /\ OwnerChainOK /\ IssuedOK

Tables == [Index -> QHandle]

-----------------------------------------------------------------------------
(* Assigning one member of one slot.                                       *)

\* The members no operation assigns after the slot is filled.
SameBody(p, q) ==
  /\ p.type = q.type /\ p.serial = q.serial /\ p.clone = q.clone
  /\ p.sec = q.sec /\ p.object = q.object

PutPrev(H, i, v) == [H EXCEPT ![i].ch_prev = v]
OnlyPrev(G, H, i, v) ==
  /\ G \in Tables
  /\ \A j \in Index :
       /\ SameBody(G[j], H[j])
       /\ G[j].set = H[j].set /\ G[j].is_destroying = H[j].is_destroying
       /\ G[j].owner = H[j].owner /\ G[j].refcount = H[j].refcount
       /\ G[j].ch_next = H[j].ch_next
       /\ G[j].ch_prev = IF j = i THEN v ELSE H[j].ch_prev

\* Assigning ch_prev of one slot changes nothing else.
LEMMA PutPrevFields ==
  ASSUME NEW H, H \in Tables, NEW i \in Index, NEW v \in Index
  PROVE  OnlyPrev(PutPrev(H, i, v), H, i, v)
<1> DEFINE r == [H[i] EXCEPT !.ch_prev = v]
<1>1. H[i] \in QHandle
  BY DEF Tables
<1>2. /\ r \in QHandle /\ SameBody(r, H[i]) /\ r.ch_prev = v
      /\ r.set = H[i].set /\ r.is_destroying = H[i].is_destroying
      /\ r.owner = H[i].owner /\ r.refcount = H[i].refcount
      /\ r.ch_next = H[i].ch_next
  BY <1>1 DEF QHandle, SameBody
<1>3. PutPrev(H, i, v) = [H EXCEPT ![i] = r]
  BY DEF PutPrev
<1> HIDE DEF r
<1> QED
  BY <1>2, <1>3 DEF Tables, SameBody, OnlyPrev

PutNext(H, i, v) == [H EXCEPT ![i].ch_next = v]
OnlyNext(G, H, i, v) ==
  /\ G \in Tables
  /\ \A j \in Index :
       /\ SameBody(G[j], H[j])
       /\ G[j].set = H[j].set /\ G[j].is_destroying = H[j].is_destroying
       /\ G[j].owner = H[j].owner /\ G[j].refcount = H[j].refcount
       /\ G[j].ch_prev = H[j].ch_prev
       /\ G[j].ch_next = IF j = i THEN v ELSE H[j].ch_next

\* Assigning ch_next of one slot changes nothing else.
LEMMA PutNextFields ==
  ASSUME NEW H, H \in Tables, NEW i \in Index, NEW v \in Index
  PROVE  OnlyNext(PutNext(H, i, v), H, i, v)
<1> DEFINE r == [H[i] EXCEPT !.ch_next = v]
<1>1. H[i] \in QHandle
  BY DEF Tables
<1>2. /\ r \in QHandle /\ SameBody(r, H[i]) /\ r.ch_next = v
      /\ r.set = H[i].set /\ r.is_destroying = H[i].is_destroying
      /\ r.owner = H[i].owner /\ r.refcount = H[i].refcount
      /\ r.ch_prev = H[i].ch_prev
  BY <1>1 DEF QHandle, SameBody
<1>3. PutNext(H, i, v) = [H EXCEPT ![i] = r]
  BY DEF PutNext
<1> HIDE DEF r
<1> QED
  BY <1>2, <1>3 DEF Tables, SameBody, OnlyNext

PutOwner(H, i, v) == [H EXCEPT ![i].owner = v]
OnlyOwner(G, H, i, v) ==
  /\ G \in Tables
  /\ \A j \in Index :
       /\ SameBody(G[j], H[j])
       /\ G[j].set = H[j].set /\ G[j].is_destroying = H[j].is_destroying
       /\ G[j].refcount = H[j].refcount /\ G[j].ch_prev = H[j].ch_prev
       /\ G[j].ch_next = H[j].ch_next
       /\ G[j].owner = IF j = i THEN v ELSE H[j].owner

\* Assigning owner of one slot changes nothing else.
LEMMA PutOwnerFields ==
  ASSUME NEW H, H \in Tables, NEW i \in Index, NEW v \in Tokens \cup {NULL}
  PROVE  OnlyOwner(PutOwner(H, i, v), H, i, v)
<1> DEFINE r == [H[i] EXCEPT !.owner = v]
<1>1. H[i] \in QHandle
  BY DEF Tables
<1>2. /\ r \in QHandle /\ SameBody(r, H[i]) /\ r.owner = v
      /\ r.set = H[i].set /\ r.is_destroying = H[i].is_destroying
      /\ r.refcount = H[i].refcount /\ r.ch_prev = H[i].ch_prev
      /\ r.ch_next = H[i].ch_next
  BY <1>1 DEF QHandle, SameBody
<1>3. PutOwner(H, i, v) = [H EXCEPT ![i] = r]
  BY DEF PutOwner
<1> HIDE DEF r
<1> QED
  BY <1>2, <1>3 DEF Tables, SameBody, OnlyOwner

PutRef(H, i, v) == [H EXCEPT ![i].refcount = v]
OnlyRef(G, H, i, v) ==
  /\ G \in Tables
  /\ \A j \in Index :
       /\ SameBody(G[j], H[j])
       /\ G[j].set = H[j].set /\ G[j].is_destroying = H[j].is_destroying
       /\ G[j].owner = H[j].owner /\ G[j].ch_prev = H[j].ch_prev
       /\ G[j].ch_next = H[j].ch_next
       /\ G[j].refcount = IF j = i THEN v ELSE H[j].refcount

\* Assigning refcount of one slot changes nothing else.
LEMMA PutRefFields ==
  ASSUME NEW H, H \in Tables, NEW i \in Index, NEW v \in Int
  PROVE  OnlyRef(PutRef(H, i, v), H, i, v)
<1> DEFINE r == [H[i] EXCEPT !.refcount = v]
<1>1. H[i] \in QHandle
  BY DEF Tables
<1>2. /\ r \in QHandle /\ SameBody(r, H[i]) /\ r.refcount = v
      /\ r.set = H[i].set /\ r.is_destroying = H[i].is_destroying
      /\ r.owner = H[i].owner /\ r.ch_prev = H[i].ch_prev
      /\ r.ch_next = H[i].ch_next
  BY <1>1 DEF QHandle, SameBody
<1>3. PutRef(H, i, v) = [H EXCEPT ![i] = r]
  BY DEF PutRef
<1> HIDE DEF r
<1> QED
  BY <1>2, <1>3 DEF Tables, SameBody, OnlyRef

PutSet(H, i, v) == [H EXCEPT ![i].set = v]
OnlySet(G, H, i, v) ==
  /\ G \in Tables
  /\ \A j \in Index :
       /\ SameBody(G[j], H[j])
       /\ G[j].is_destroying = H[j].is_destroying /\ G[j].owner = H[j].owner
       /\ G[j].refcount = H[j].refcount /\ G[j].ch_prev = H[j].ch_prev
       /\ G[j].ch_next = H[j].ch_next
       /\ G[j].set = IF j = i THEN v ELSE H[j].set

\* Assigning set of one slot changes nothing else.
LEMMA PutSetFields ==
  ASSUME NEW H, H \in Tables, NEW i \in Index, NEW v \in HandleSet
  PROVE  OnlySet(PutSet(H, i, v), H, i, v)
<1> DEFINE r == [H[i] EXCEPT !.set = v]
<1>1. H[i] \in QHandle
  BY DEF Tables
<1>2. /\ r \in QHandle /\ SameBody(r, H[i]) /\ r.set = v
      /\ r.is_destroying = H[i].is_destroying /\ r.owner = H[i].owner
      /\ r.refcount = H[i].refcount /\ r.ch_prev = H[i].ch_prev
      /\ r.ch_next = H[i].ch_next
  BY <1>1 DEF QHandle, SameBody
<1>3. PutSet(H, i, v) = [H EXCEPT ![i] = r]
  BY DEF PutSet
<1> HIDE DEF r
<1> QED
  BY <1>2, <1>3 DEF Tables, SameBody, OnlySet

PutDying(H, i, v) == [H EXCEPT ![i].is_destroying = v]
OnlyDying(G, H, i, v) ==
  /\ G \in Tables
  /\ \A j \in Index :
       /\ SameBody(G[j], H[j])
       /\ G[j].set = H[j].set /\ G[j].owner = H[j].owner
       /\ G[j].refcount = H[j].refcount /\ G[j].ch_prev = H[j].ch_prev
       /\ G[j].ch_next = H[j].ch_next
       /\ G[j].is_destroying = IF j = i THEN v ELSE H[j].is_destroying

\* Assigning is_destroying of one slot changes nothing else.
LEMMA PutDyingFields ==
  ASSUME NEW H, H \in Tables, NEW i \in Index, NEW v \in BOOLEAN
  PROVE  OnlyDying(PutDying(H, i, v), H, i, v)
<1> DEFINE r == [H[i] EXCEPT !.is_destroying = v]
<1>1. H[i] \in QHandle
  BY DEF Tables
<1>2. /\ r \in QHandle /\ SameBody(r, H[i]) /\ r.is_destroying = v
      /\ r.set = H[i].set /\ r.owner = H[i].owner
      /\ r.refcount = H[i].refcount /\ r.ch_prev = H[i].ch_prev
      /\ r.ch_next = H[i].ch_next
  BY <1>1 DEF QHandle, SameBody
<1>3. PutDying(H, i, v) = [H EXCEPT ![i] = r]
  BY DEF PutDying
<1> HIDE DEF r
<1> QED
  BY <1>2, <1>3 DEF Tables, SameBody, OnlyDying

-----------------------------------------------------------------------------
\* Slots are the indexes other than 0.
LEMMA IndexFacts ==
  /\ Slots \subseteq Index /\ 0 \in Index /\ 0 \notin Slots
  /\ \A i \in Index : i # 0 => i \in Slots
  BY TableAssumption DEF Slots, Index

\* The types of a slot's members.
LEMMA TableFacts ==
  ASSUME NEW H, H \in Tables, NEW i \in Index
  PROVE  /\ H[i].set \in HandleSet /\ H[i].type \in AllTypes
         /\ H[i].owner \in Tokens \cup {NULL} /\ H[i].refcount \in Int
         /\ H[i].serial \in 0..(MaxSerials - 1) /\ H[i].clone \in Index
         /\ H[i].sec \in Access \cup {NULL} /\ H[i].is_destroying \in BOOLEAN
         /\ H[i].object \in 0..MaxMade
         /\ H[i].ch_prev \in Index /\ H[i].ch_next \in Index
  BY DEF Tables, QHandle

-----------------------------------------------------------------------------
(* Linking and unlinking.                                                  *)

\* What UnlinkHandleFromOwner does to every slot: i leaves the chain of
\* sentinel d and its neighbours are joined.
LEMMA UnlinkFields ==
  ASSUME NEW H \in Tables, NEW i \in Slots, NEW d \in Slots,
         H[i].owner # NULL, d = IdentityHandle(H, m_HandleTail, H[i].owner),
         d # i, H[i].ch_prev \notin {i, d}, H[i].ch_next \notin {i, d},
         H[i].ch_prev = 0 <=> i = H[d].ch_prev,
         H[i].ch_next = 0 <=> i = H[d].ch_next
  PROVE  LET G == UnlinkHandleFromOwner(H, i) IN
         /\ G \in Tables
         /\ \A j \in Slots :
              /\ SameBody(G[j], H[j])
              /\ G[j].set = H[j].set /\ G[j].is_destroying = H[j].is_destroying
              /\ G[j].owner = IF j = i THEN NULL ELSE H[j].owner
              /\ G[j].refcount = IF j = d THEN H[d].refcount - 1 ELSE H[j].refcount
              /\ G[j].ch_next =
                   IF j = d THEN IF H[i].ch_next = 0 THEN H[i].ch_prev ELSE H[d].ch_next
                   ELSE IF j = H[i].ch_prev THEN H[i].ch_next ELSE H[j].ch_next
              /\ G[j].ch_prev =
                   IF j = d THEN IF H[i].ch_prev = 0 THEN H[i].ch_next ELSE H[d].ch_prev
                   ELSE IF j = H[i].ch_next THEN H[i].ch_prev ELSE H[j].ch_prev
<1> DEFINE prev == H[i].ch_prev
           next == H[i].ch_next
           F == PutOwner(H, i, NULL)
           G == PutRef(F, d, H[d].refcount - 1)
           K == UnlinkHandleFromOwner(H, i)
<1>0. /\ Slots \subseteq Index /\ 0 \in Index \ Slots /\ prev \in Index /\ next \in Index
      /\ d # 0 /\ i # 0 /\ d \in Index /\ i \in Index /\ H[d].refcount - 1 \in Int
      /\ NULL \in Tokens \cup {NULL}
  BY IndexFacts, TableFacts
<1>1. OnlyOwner(F, H, i, NULL)
  BY <1>0, PutOwnerFields
<1>2. F \in Tables
  BY <1>1 DEF OnlyOwner
<1>3. OnlyRef(G, F, d, H[d].refcount - 1)
  BY <1>0, <1>2, PutRefFields
<1>4. [H EXCEPT ![i].owner = NULL, ![d].refcount = @ - 1] = G
  BY <1>0 DEF Tables, PutOwner, PutRef
<1> HIDE DEF F, G
<1>9. G \in Tables
  BY <1>3 DEF OnlyRef
<1> DEFINE Unlinked(M) ==
      /\ M \in Tables
      /\ \A j \in Slots :
           /\ SameBody(M[j], H[j])
           /\ M[j].set = H[j].set /\ M[j].is_destroying = H[j].is_destroying
           /\ M[j].owner = IF j = i THEN NULL ELSE H[j].owner
           /\ M[j].refcount = IF j = d THEN H[d].refcount - 1 ELSE H[j].refcount
           /\ M[j].ch_next =
                IF j = d THEN IF next = 0 THEN prev ELSE H[d].ch_next
                ELSE IF j = prev THEN next ELSE H[j].ch_next
           /\ M[j].ch_prev =
                IF j = d THEN IF prev = 0 THEN next ELSE H[d].ch_prev
                ELSE IF j = next THEN prev ELSE H[j].ch_prev
<1>5. ASSUME prev = 0 /\ next = 0 PROVE Unlinked(K)
  <2> DEFINE J == PutPrev(G, d, 0)
  <2>1. K = PutNext(J, d, 0)
    BY <1>0, <1>9, <1>4, <1>5 DEF UnlinkHandleFromOwner, PutPrev, PutNext, Tables
  <2>2. OnlyPrev(J, G, d, 0)
    BY <1>0, <1>9, PutPrevFields
  <2> HIDE DEF J
  <2>3. J \in Tables
    BY <2>2 DEF OnlyPrev
  <2>4. OnlyNext(K, J, d, 0)
    BY <2>1, <2>3, <1>0, PutNextFields
  <2> HIDE DEF K
  <2>5. \A j \in Slots :
          /\ SameBody(K[j], H[j])
          /\ K[j].set = H[j].set /\ K[j].is_destroying = H[j].is_destroying
          /\ K[j].owner = IF j = i THEN NULL ELSE H[j].owner
          /\ K[j].refcount = IF j = d THEN H[d].refcount - 1 ELSE H[j].refcount
    BY <2>2, <2>4, <1>0, <1>1, <1>3
    DEF SameBody, OnlyOwner, OnlyRef, OnlyPrev, OnlyNext
  <2>6. \A j \in Slots :
          /\ K[j].ch_next =
               IF j = d THEN IF next = 0 THEN prev ELSE H[d].ch_next
               ELSE IF j = prev THEN next ELSE H[j].ch_next
          /\ K[j].ch_prev =
               IF j = d THEN IF prev = 0 THEN next ELSE H[d].ch_prev
               ELSE IF j = next THEN prev ELSE H[j].ch_prev
    BY <2>2, <2>4, <1>0, <1>1, <1>3, <1>5 DEF OnlyOwner, OnlyRef, OnlyPrev, OnlyNext
  <2> QED
    BY <2>4, <2>5, <2>6 DEF OnlyNext
<1>6. ASSUME prev = 0 /\ next # 0 PROVE Unlinked(K)
  <2> DEFINE J == PutPrev(G, d, next)
  <2>1. K = PutPrev(J, next, 0)
    BY <1>0, <1>9, <1>4, <1>6 DEF UnlinkHandleFromOwner, PutPrev, Tables
  <2>2. OnlyPrev(J, G, d, next)
    BY <1>0, <1>9, PutPrevFields
  <2> HIDE DEF J
  <2>3. J \in Tables
    BY <2>2 DEF OnlyPrev
  <2>4. OnlyPrev(K, J, next, 0)
    BY <2>1, <2>3, <1>0, PutPrevFields
  <2> HIDE DEF K
  <2>5. \A j \in Slots :
          /\ SameBody(K[j], H[j])
          /\ K[j].set = H[j].set /\ K[j].is_destroying = H[j].is_destroying
          /\ K[j].owner = IF j = i THEN NULL ELSE H[j].owner
          /\ K[j].refcount = IF j = d THEN H[d].refcount - 1 ELSE H[j].refcount
    BY <2>2, <2>4, <1>0, <1>1, <1>3
    DEF SameBody, OnlyOwner, OnlyRef, OnlyPrev
  <2>6. \A j \in Slots :
          /\ K[j].ch_next =
               IF j = d THEN IF next = 0 THEN prev ELSE H[d].ch_next
               ELSE IF j = prev THEN next ELSE H[j].ch_next
          /\ K[j].ch_prev =
               IF j = d THEN IF prev = 0 THEN next ELSE H[d].ch_prev
               ELSE IF j = next THEN prev ELSE H[j].ch_prev
    BY <2>2, <2>4, <1>0, <1>1, <1>3, <1>6 DEF OnlyOwner, OnlyRef, OnlyPrev
  <2> QED
    BY <2>4, <2>5, <2>6 DEF OnlyPrev
<1>7. ASSUME prev # 0 /\ next = 0 PROVE Unlinked(K)
  <2> DEFINE J == PutNext(G, d, prev)
  <2>1. K = PutNext(J, prev, 0)
    BY <1>0, <1>9, <1>4, <1>7 DEF UnlinkHandleFromOwner, PutNext, Tables
  <2>2. OnlyNext(J, G, d, prev)
    BY <1>0, <1>9, PutNextFields
  <2> HIDE DEF J
  <2>3. J \in Tables
    BY <2>2 DEF OnlyNext
  <2>4. OnlyNext(K, J, prev, 0)
    BY <2>1, <2>3, <1>0, PutNextFields
  <2> HIDE DEF K
  <2>5. \A j \in Slots :
          /\ SameBody(K[j], H[j])
          /\ K[j].set = H[j].set /\ K[j].is_destroying = H[j].is_destroying
          /\ K[j].owner = IF j = i THEN NULL ELSE H[j].owner
          /\ K[j].refcount = IF j = d THEN H[d].refcount - 1 ELSE H[j].refcount
    BY <2>2, <2>4, <1>0, <1>1, <1>3
    DEF SameBody, OnlyOwner, OnlyRef, OnlyNext
  <2>6. \A j \in Slots :
          /\ K[j].ch_next =
               IF j = d THEN IF next = 0 THEN prev ELSE H[d].ch_next
               ELSE IF j = prev THEN next ELSE H[j].ch_next
          /\ K[j].ch_prev =
               IF j = d THEN IF prev = 0 THEN next ELSE H[d].ch_prev
               ELSE IF j = next THEN prev ELSE H[j].ch_prev
    BY <2>2, <2>4, <1>0, <1>1, <1>3, <1>7 DEF OnlyOwner, OnlyRef, OnlyNext
  <2> QED
    BY <2>4, <2>5, <2>6 DEF OnlyNext
<1>8. ASSUME prev # 0 /\ next # 0 PROVE Unlinked(K)
  <2> DEFINE J == PutPrev(G, next, prev)
  <2>1. K = PutNext(J, prev, next)
    BY <1>0, <1>9, <1>4, <1>8 DEF UnlinkHandleFromOwner, PutPrev, PutNext, Tables
  <2>2. OnlyPrev(J, G, next, prev)
    BY <1>0, <1>9, PutPrevFields
  <2> HIDE DEF J
  <2>3. J \in Tables
    BY <2>2 DEF OnlyPrev
  <2>4. OnlyNext(K, J, prev, next)
    BY <2>1, <2>3, <1>0, PutNextFields
  <2> HIDE DEF K
  <2>5. \A j \in Slots :
          /\ SameBody(K[j], H[j])
          /\ K[j].set = H[j].set /\ K[j].is_destroying = H[j].is_destroying
          /\ K[j].owner = IF j = i THEN NULL ELSE H[j].owner
          /\ K[j].refcount = IF j = d THEN H[d].refcount - 1 ELSE H[j].refcount
    BY <2>2, <2>4, <1>0, <1>1, <1>3
    DEF SameBody, OnlyOwner, OnlyRef, OnlyPrev, OnlyNext
  <2>6. \A j \in Slots :
          /\ K[j].ch_next =
               IF j = d THEN IF next = 0 THEN prev ELSE H[d].ch_next
               ELSE IF j = prev THEN next ELSE H[j].ch_next
          /\ K[j].ch_prev =
               IF j = d THEN IF prev = 0 THEN next ELSE H[d].ch_prev
               ELSE IF j = next THEN prev ELSE H[j].ch_prev
    BY <2>2, <2>4, <1>0, <1>1, <1>3, <1>8 DEF OnlyOwner, OnlyRef, OnlyPrev, OnlyNext
  <2> QED
    BY <2>4, <2>5, <2>6 DEF OnlyNext
<1> QED
  BY <1>5, <1>6, <1>7, <1>8

\* What LinkHandleToOwner does to every slot: i becomes the tail of the chain
\* of sentinel d.
LEMMA LinkFields ==
  ASSUME NEW H, H \in Tables, NEW i \in Slots, NEW d \in Slots, d # i,
         H[i].ch_prev = 0, H[i].ch_next = 0,
         H[d].ch_prev = 0 <=> H[d].ch_next = 0, H[d].ch_next \notin {i, d}
  PROVE  LET G == LinkHandleToOwner(H, i, d) IN
         /\ G \in Tables
         /\ \A j \in Slots :
              /\ SameBody(G[j], H[j])
              /\ G[j].set = H[j].set /\ G[j].is_destroying = H[j].is_destroying
              /\ G[j].owner = H[j].owner
              /\ G[j].refcount = IF j = d THEN H[d].refcount + 1 ELSE H[j].refcount
              /\ G[j].ch_next = IF j \in {d, H[d].ch_next} THEN i ELSE H[j].ch_next
              /\ G[j].ch_prev = IF j = d /\ H[d].ch_prev = 0 THEN i
                                ELSE IF j = i THEN H[d].ch_next ELSE H[j].ch_prev
<1> DEFINE tail == H[d].ch_next
           K == LinkHandleToOwner(H, i, d)
           Linked(M) ==
             /\ M \in Tables
             /\ \A j \in Slots :
                  /\ SameBody(M[j], H[j])
                  /\ M[j].set = H[j].set /\ M[j].is_destroying = H[j].is_destroying
                  /\ M[j].owner = H[j].owner
                  /\ M[j].refcount = IF j = d THEN H[d].refcount + 1 ELSE H[j].refcount
                  /\ M[j].ch_next = IF j \in {d, tail} THEN i ELSE H[j].ch_next
                  /\ M[j].ch_prev = IF j = d /\ H[d].ch_prev = 0 THEN i
                                    ELSE IF j = i THEN tail ELSE H[j].ch_prev
<1>0. /\ Slots \subseteq Index /\ 0 \in Index \ Slots /\ tail \in Index
      /\ d \in Index /\ i \in Index /\ H[d].refcount + 1 \in Int
  BY IndexFacts, TableFacts
<1>1. ASSUME H[d].ch_prev = 0 PROVE Linked(K)
  <2> DEFINE J1 == PutPrev(H, d, i)
             J2 == PutNext(J1, d, i)
             J3 == PutRef(J2, d, H[d].refcount + 1)
  <2>1. K = PutPrev(J3, i, 0)
    BY <1>0, <1>1 DEF LinkHandleToOwner, PutPrev, PutNext, PutRef, Tables
  <2>2. OnlyPrev(J1, H, d, i)
    BY <1>0, PutPrevFields
  <2> HIDE DEF J1
  <2>3. OnlyNext(J2, J1, d, i)
    <3>1. J1 \in Tables
      BY <2>2 DEF OnlyPrev
    <3> QED BY <3>1, <1>0, PutNextFields
  <2> HIDE DEF J2
  <2>4. OnlyRef(J3, J2, d, H[d].refcount + 1)
    <3>1. J2 \in Tables
      BY <2>3 DEF OnlyNext
    <3> QED BY <3>1, <1>0, PutRefFields
  <2> HIDE DEF J3
  <2>5. OnlyPrev(K, J3, i, 0)
    <3>1. J3 \in Tables
      BY <2>4 DEF OnlyRef
    <3> QED BY <3>1, <2>1, <1>0, PutPrevFields
  <2> HIDE DEF K
  <2> QED
    BY <2>2, <2>3, <2>4, <2>5, <1>0, <1>1 DEF OnlyPrev, OnlyNext, OnlyRef, SameBody
<1>2. ASSUME H[d].ch_prev # 0 PROVE Linked(K)
  <2> DEFINE J1 == PutNext(H, tail, i)
             J2 == PutPrev(J1, i, tail)
             J3 == PutNext(J2, d, i)
  <2>1. K = PutRef(J3, d, H[d].refcount + 1)
    BY <1>0, <1>2 DEF LinkHandleToOwner, PutPrev, PutNext, PutRef, Tables
  <2>2. OnlyNext(J1, H, tail, i)
    BY <1>0, PutNextFields
  <2> HIDE DEF J1
  <2>3. OnlyPrev(J2, J1, i, tail)
    <3>1. J1 \in Tables
      BY <2>2 DEF OnlyNext
    <3> QED BY <3>1, <1>0, PutPrevFields
  <2> HIDE DEF J2
  <2>4. OnlyNext(J3, J2, d, i)
    <3>1. J2 \in Tables
      BY <2>3 DEF OnlyPrev
    <3> QED BY <3>1, <1>0, PutNextFields
  <2> HIDE DEF J3
  <2>5. OnlyRef(K, J3, d, H[d].refcount + 1)
    <3>1. J3 \in Tables
      BY <2>4 DEF OnlyNext
    <3> QED BY <3>1, <2>1, <1>0, PutRefFields
  <2> HIDE DEF K
  <2> QED
    BY <2>2, <2>3, <2>4, <2>5, <1>0, <1>2 DEF OnlyPrev, OnlyNext, OnlyRef, SameBody
<1> QED
  BY <1>1, <1>2

-----------------------------------------------------------------------------
(* The owner chains.                                                       *)

\* The links of G are those of the table after slot i left its owner's chain.
Detached(G, i) ==
  LET q == m_Handles[i]
      d == ident[q.owner].index
  IN  \A j \in Slots :
        /\ G[j].owner = IF j = i THEN NULL ELSE m_Handles[j].owner
        /\ G[j].ch_next =
             IF q.owner # NULL /\ j = d
             THEN IF q.ch_next = 0 THEN q.ch_prev ELSE m_Handles[d].ch_next
             ELSE IF q.owner # NULL /\ j = q.ch_prev THEN q.ch_next ELSE m_Handles[j].ch_next
        /\ G[j].ch_prev =
             IF q.owner # NULL /\ j = d
             THEN IF q.ch_prev = 0 THEN q.ch_next ELSE m_Handles[d].ch_prev
             ELSE IF q.owner # NULL /\ j = q.ch_next THEN q.ch_prev ELSE m_Handles[j].ch_prev

\* Where an owned handle sits in its owner's chain.
LEMMA ChainFacts ==
  ASSUME IInv, NEW i \in Slots, Live(i), m_Handles[i].owner # NULL
  PROVE  LET o == m_Handles[i].owner
             d == ident[o].index
         IN  /\ o \in Tokens \ {Root} /\ HasIdentity(o) /\ d \in Slots /\ d # i
             /\ d <= m_HandleTail /\ m_Handles[d].serial = ident[o].serial
             /\ m_Handles[d].set = "Identity"
             /\ m_Handles[i].ch_prev \notin {i, d} /\ m_Handles[i].ch_next \notin {i, d}
             /\ m_Handles[i].ch_prev = 0 <=> i = m_Handles[d].ch_prev
             /\ m_Handles[i].ch_next = 0 <=> i = m_Handles[d].ch_next
<1> DEFINE o == m_Handles[i].owner
           d == ident[o].index
           prev == m_Handles[i].ch_prev
           next == m_Handles[i].ch_next
<1>1. m_Handles \in Tables /\ birth \in [Index -> 0..MaxMade] /\ m_HandleTail \in Index
  BY DEF IInv, TypeOK, Tables
<1>2. o \in Tokens /\ prev \in Index /\ next \in Index
  BY <1>1, IndexFacts, TableFacts
<1>3. HasIdentity(o) /\ o # Root
  BY DEF IInv, OwnersAlive, Live, InUse
<1>4. /\ d \in 1..m_HandleTail /\ m_Handles[d].serial = ident[o].serial
      /\ m_Handles[d].set = "Identity"
  BY <1>2, <1>3 DEF IInv, IdentitiesOK
<1>5. d \in Slots /\ d <= m_HandleTail /\ d # i
  <2>1. d # i
    BY <1>4 DEF Live
  <2> HIDE DEF d
  <2>2. d \in Slots /\ d <= m_HandleTail
    BY <1>1, <1>4, TableAssumption DEF Slots, Index
  <2> QED BY <2>1, <2>2
<1>6. Owns(m_Handles, o, i)
  BY IndexFacts DEF Owns, Live
<1>7. /\ m_Handles[d].ch_prev # 0 => m_Handles[m_Handles[d].ch_prev].ch_prev = 0
      /\ m_Handles[d].ch_next # 0 => m_Handles[m_Handles[d].ch_next].ch_next = 0
      /\ next = 0 => i = m_Handles[d].ch_next
      /\ next # 0 => Owns(m_Handles, o, next) /\ m_Handles[next].ch_prev = i /\ birth[i] < birth[next]
      /\ prev = 0 => i = m_Handles[d].ch_prev
      /\ prev # 0 => Owns(m_Handles, o, prev) /\ m_Handles[prev].ch_next = i
  BY <1>2, <1>3, <1>6 DEF IInv, OwnerChainOK, ChainOK
<1>8. prev # 0 => birth[prev] < birth[i]
  <2> SUFFICES ASSUME prev # 0 PROVE birth[prev] < birth[i]
    OBVIOUS
  <2>1. prev \in Slots /\ Owns(m_Handles, o, prev) /\ m_Handles[prev].ch_next = i /\ i # 0
    BY <1>2, <1>7, IndexFacts
  <2> QED BY <2>1, <1>2, <1>3 DEF IInv, OwnerChainOK, ChainOK
<1>9. \A j \in Index : birth[j] \in Int
  BY <1>1, TableAssumption
<1>10. prev \notin {i, d} /\ next \notin {i, d}
  <2>1. prev # i /\ next # i
    BY <1>2, <1>7, <1>8, <1>9, IndexFacts
  <2>2. prev # d /\ next # d
    BY <1>2, <1>4, <1>5, <1>7, IndexFacts DEF Owns, Live
  <2> QED BY <2>1, <2>2
<1> QED
  BY <1>2, <1>3, <1>4, <1>5, <1>7, <1>10, IndexFacts

\* Unlinking slot i, whatever else has been assigned to it meanwhile.
LEMMA UnownedFields ==
  ASSUME IInv, NEW i \in Slots, Live(i), NEW H, H \in Tables,
         \A j \in Index : j # i => H[j] = m_Handles[j],
         H[i].owner = m_Handles[i].owner,
         H[i].ch_prev = m_Handles[i].ch_prev, H[i].ch_next = m_Handles[i].ch_next
  PROVE  LET G == Unowned(H, i) IN
         /\ G \in Tables
         /\ \A j \in Slots :
              /\ SameBody(G[j], H[j])
              /\ G[j].set = H[j].set /\ G[j].is_destroying = H[j].is_destroying
              /\ m_Handles[j].set # "Identity" => G[j].refcount = H[j].refcount
         /\ Detached(G, i)
<1>1. CASE H[i].owner = NULL
  BY <1>1, IndexFacts DEF Unowned, Detached, SameBody
<1>2. CASE H[i].owner # NULL
  <2> DEFINE o == m_Handles[i].owner
             d == ident[o].index
             G == UnlinkHandleFromOwner(H, i)
  <2>1. /\ o \in Tokens \ {Root} /\ HasIdentity(o) /\ d \in Slots /\ d # i
        /\ d <= m_HandleTail /\ m_Handles[d].serial = ident[o].serial
        /\ m_Handles[d].set = "Identity"
        /\ m_Handles[i].ch_prev \notin {i, d} /\ m_Handles[i].ch_next \notin {i, d}
        /\ m_Handles[i].ch_prev = 0 <=> i = m_Handles[d].ch_prev
        /\ m_Handles[i].ch_next = 0 <=> i = m_Handles[d].ch_next
    BY <1>2, ChainFacts
  <2>2. H[d] = m_Handles[d] /\ d # 0 /\ m_HandleTail \in Int /\ d \in Int
    <3>1. m_HandleTail \in Index
      BY DEF IInv, TypeOK
    <3> HIDE DEF d
    <3>2. d # 0 /\ m_HandleTail \in Int /\ d \in Int
      BY <3>1, <2>1, TableAssumption DEF Index, Slots
    <3> QED BY <3>2, <2>1, IndexFacts
  <2>3. d = IdentityHandle(H, m_HandleTail, H[i].owner)
    BY <2>1, <2>2 DEF IdentityHandle, GetHandle
  <2>4. /\ G \in Tables
        /\ \A j \in Slots :
              /\ SameBody(G[j], H[j])
              /\ G[j].set = H[j].set /\ G[j].is_destroying = H[j].is_destroying
              /\ G[j].owner = IF j = i THEN NULL ELSE H[j].owner
              /\ G[j].refcount = IF j = d THEN H[d].refcount - 1 ELSE H[j].refcount
              /\ G[j].ch_next =
                   IF j = d THEN IF H[i].ch_next = 0 THEN H[i].ch_prev ELSE H[d].ch_next
                   ELSE IF j = H[i].ch_prev THEN H[i].ch_next ELSE H[j].ch_next
              /\ G[j].ch_prev =
                   IF j = d THEN IF H[i].ch_prev = 0 THEN H[i].ch_next ELSE H[d].ch_prev
                   ELSE IF j = H[i].ch_next THEN H[i].ch_prev ELSE H[j].ch_prev
    <3> HIDE DEF d
    <3>1. /\ H[i].ch_prev \notin {i, d} /\ H[i].ch_next \notin {i, d}
          /\ H[i].ch_prev = 0 <=> i = H[d].ch_prev
          /\ H[i].ch_next = 0 <=> i = H[d].ch_next
      BY <2>1, <2>2
    <3> QED BY <3>1, <2>1, <2>3, <1>2, UnlinkFields
  <2>5. Unowned(H, i) = G
    BY <1>2 DEF Unowned
  <2> HIDE DEF G
  <2>6. Detached(G, i)
    <3> SUFFICES ASSUME NEW j \in Slots
                 PROVE /\ G[j].owner = IF j = i THEN NULL ELSE m_Handles[j].owner
                       /\ G[j].ch_next =
                            IF j = d THEN IF m_Handles[i].ch_next = 0 THEN m_Handles[i].ch_prev
                                          ELSE m_Handles[d].ch_next
                            ELSE IF j = m_Handles[i].ch_prev THEN m_Handles[i].ch_next
                                 ELSE m_Handles[j].ch_next
                       /\ G[j].ch_prev =
                            IF j = d THEN IF m_Handles[i].ch_prev = 0 THEN m_Handles[i].ch_next
                                          ELSE m_Handles[d].ch_prev
                            ELSE IF j = m_Handles[i].ch_next THEN m_Handles[i].ch_prev
                                 ELSE m_Handles[j].ch_prev
      BY <1>2 DEF Detached
    <3>1. H[j] = m_Handles[j] \/ j = i
      BY IndexFacts
    <3> QED BY SMTT(30), <3>1, <2>2, <2>4
  <2> QED BY <2>1, <2>4, <2>5, <2>6
<1> QED
  BY <1>1, <1>2

\* Taking slot i out leaves every chain in order.
LEMMA ChainDetached ==
  ASSUME IInv, NEW i \in Slots, Live(i), NEW G, G \in Tables, Detached(G, i),
         \A j \in Slots : j # i => G[j].set = m_Handles[j].set,
         NEW t \in Tokens \ {Root}, HasIdentity(t)
  PROVE  ChainOK(G, birth, t, ident[t].index)
<1> DEFINE H == m_Handles
           o == H[i].owner
           d == ident[t].index
           prev == H[i].ch_prev
           next == H[i].ch_next
<1>0. t # NULL /\ H \in Tables
  BY TableAssumption DEF IInv, TypeOK, Tables
<1>1. ChainOK(H, birth, t, d)
  BY DEF IInv, OwnerChainOK
<1>2. d \in Slots /\ H[d].set = "Identity" /\ d # i
  <2>1. d \in 1..m_HandleTail /\ H[d].set = "Identity" /\ m_HandleTail \in Index
    BY DEF IInv, IdentitiesOK, TypeOK
  <2>2. d # i
    BY <2>1 DEF Live
  <2> HIDE DEF d
  <2> QED BY <2>1, <2>2, TableAssumption DEF Slots, Index
<1>3. \A j \in Slots : Owns(G, t, j) <=> Owns(H, t, j) /\ j # i
  BY <1>0 DEF Detached, Owns
<1>4. \A j \in Slots : H[j].ch_next \in Index /\ H[j].ch_prev \in Index /\ j # 0
  BY <1>0, IndexFacts, TableFacts
<1>5. CASE o # t
  <2>1. ASSUME NEW j \in Slots, j = d \/ Owns(H, t, j)
        PROVE  G[j].ch_next = H[j].ch_next /\ G[j].ch_prev = H[j].ch_prev
    <3>1. CASE o = NULL
      BY <3>1 DEF Detached
    <3>2. CASE o # NULL
      <4>1. /\ o \in Tokens \ {Root} /\ HasIdentity(o)
            /\ m_Handles[ident[o].index].set = "Identity"
        BY <3>2, ChainFacts
      <4>2. j # ident[o].index
        BY <4>1, <2>1, <1>5 DEF IInv, IdentitiesOK, Owns
      <4>3. prev = 0 \/ Owns(H, o, prev)
        <5>1. ChainOK(H, birth, o, ident[o].index) /\ Owns(H, o, i)
          BY <4>1, <1>4 DEF IInv, OwnerChainOK, Owns, Live
        <5> QED BY <5>1 DEF ChainOK
      <4>4. next = 0 \/ Owns(H, o, next)
        <5>1. ChainOK(H, birth, o, ident[o].index) /\ Owns(H, o, i)
          BY <4>1, <1>4 DEF IInv, OwnerChainOK, Owns, Live
        <5> QED BY <5>1 DEF ChainOK
      <4>5. j # prev /\ j # next
        BY <4>3, <4>4, <2>1, <1>2, <1>4, <1>5 DEF Owns
      <4> QED BY <4>2, <4>5 DEF Detached
    <3> QED BY <3>1, <3>2
  <2>2. \A j \in Index : Owns(G, t, j) <=> Owns(H, t, j)
    BY <1>3, <1>5, IndexFacts DEF Owns
  <2>3. G[d].ch_next = H[d].ch_next /\ G[d].ch_prev = H[d].ch_prev
    BY <2>1, <1>2
  <2>4. /\ H[d].ch_next \in Index /\ H[d].ch_prev \in Index
        /\ \A j \in Index : Owns(H, t, j) => j \in Slots
    BY <1>2, <1>4, IndexFacts DEF Owns
  <2> HIDE DEF d, o, prev, next
  <2>5. ChainOK(G, birth, t, d)
    <3>1. ASSUME NEW j \in Slots, Owns(G, t, j)
          PROVE  /\ G[j].ch_next = H[j].ch_next /\ G[j].ch_prev = H[j].ch_prev
                 /\ Owns(H, t, j) /\ j \in Index /\ j # 0
                 /\ H[j].ch_next \in Index /\ H[j].ch_prev \in Index
      BY <3>1, <1>4, <2>1, <2>2, IndexFacts
    <3>2. ASSUME NEW j \in Index, Owns(H, t, j)
          PROVE  G[j].ch_next = H[j].ch_next /\ G[j].ch_prev = H[j].ch_prev /\ Owns(G, t, j)
      BY <3>2, <2>1, <2>2, <2>4
    <3> QED BY <1>1, <2>3, <2>4, <3>1, <3>2 DEF ChainOK
  <2> QED BY <2>5 DEF d
<1>6. CASE o = t
  <2>0. Owns(H, t, i)
    BY <1>4, <1>6 DEF Owns, Live
  <2>1. /\ next = 0 => i = H[d].ch_next
        /\ next # 0 => Owns(H, t, next) /\ H[next].ch_prev = i /\ birth[i] < birth[next]
        /\ prev = 0 => i = H[d].ch_prev
        /\ prev # 0 => Owns(H, t, prev) /\ H[prev].ch_next = i
    BY <1>1, <2>0 DEF ChainOK
  <2>2. prev \in Index /\ next \in Index
    BY <1>4
  <2>3. prev # 0 => birth[prev] < birth[i]
    BY <1>1, <1>4, <2>1, <2>2, IndexFacts DEF ChainOK
  <2>4. \A j \in Index : birth[j] \in Int
    <3>1. birth \in [Index -> 0..MaxMade]
      BY DEF IInv, TypeOK
    <3> QED BY <3>1
  <2>5. prev # i /\ next # i /\ prev # d /\ next # d
    BY <2>1, <2>2, <2>3, <2>4, <1>2, <1>4, IndexFacts DEF Owns
  <2>6. /\ G[d].ch_next = IF next = 0 THEN prev ELSE H[d].ch_next
        /\ G[d].ch_prev = IF prev = 0 THEN next ELSE H[d].ch_prev
    BY <1>0, <1>2, <1>6 DEF Detached
  <2>7. \A j \in Slots : j # d =>
          /\ G[j].ch_next = IF j = prev THEN next ELSE H[j].ch_next
          /\ G[j].ch_prev = IF j = next THEN prev ELSE H[j].ch_prev
    BY <1>0, <1>6 DEF Detached
  <2>8. \A j \in Index : Owns(G, t, j) <=> Owns(H, t, j) /\ j # i
    BY <1>3, IndexFacts DEF Owns
  <2>9. \A j \in Index : Owns(H, t, j) => j \in Slots /\ j # d
    BY <1>2, IndexFacts DEF Owns
  <2>10. H[d].ch_prev \in Index /\ H[d].ch_next \in Index /\ i # 0 /\ i \in Index
    BY <1>2, <1>4, IndexFacts
  <2> DEFINE head == H[d].ch_prev
             tail == H[d].ch_next
  <2> HIDE DEF d, o, prev, next
  <2>11. /\ head = 0 <=> tail = 0
         /\ head # 0 => Owns(H, t, head) /\ H[head].ch_prev = 0
         /\ tail # 0 => Owns(H, t, tail) /\ H[tail].ch_next = 0
    BY <1>1 DEF ChainOK
  <2>12. \A j \in Slots : Owns(H, t, j) =>
           /\ H[j].ch_next = 0 => j = tail
           /\ H[j].ch_next # 0 => /\ Owns(H, t, H[j].ch_next) /\ H[H[j].ch_next].ch_prev = j
                                  /\ birth[j] < birth[H[j].ch_next]
           /\ H[j].ch_prev = 0 => j = head
           /\ H[j].ch_prev # 0 => Owns(H, t, H[j].ch_prev) /\ H[H[j].ch_prev].ch_next = j
    BY <1>1 DEF ChainOK
  <2>13. /\ H[i].ch_prev = prev /\ H[i].ch_next = next
    BY DEF prev, next
  <2> HIDE DEF head, tail
  <2>14. /\ head = H[d].ch_prev /\ tail = H[d].ch_next
    BY DEF head, tail
  <2>15. G[d].ch_prev = 0 <=> G[d].ch_next = 0
    BY <2>1, <2>6, <2>10, <2>11, <2>14
  <2>16. G[d].ch_prev # 0 => Owns(G, t, G[d].ch_prev) /\ G[G[d].ch_prev].ch_prev = 0
    BY <2>1, <2>2, <2>5, <2>6, <2>7, <2>8, <2>9, <2>10, <2>11, <2>13, <2>14
  <2>17. G[d].ch_next # 0 => Owns(G, t, G[d].ch_next) /\ G[G[d].ch_next].ch_next = 0
    BY <2>1, <2>2, <2>5, <2>6, <2>7, <2>8, <2>9, <2>10, <2>11, <2>13, <2>14
  <2>18. ASSUME NEW j \in Slots, Owns(G, t, j)
         PROVE  /\ G[j].ch_next = 0 => j = G[d].ch_next
                /\ G[j].ch_next # 0 => /\ Owns(G, t, G[j].ch_next)
                                       /\ G[G[j].ch_next].ch_prev = j
                                       /\ birth[j] < birth[G[j].ch_next]
    <3>1. Owns(H, t, j) /\ j # i /\ j # d /\ j \in Index /\ H[j].ch_next \in Index
      BY <2>18, <2>8, <2>9, <1>4, IndexFacts
    <3>2. CASE j = prev
      <4>1. next # 0 => birth[prev] < birth[next]
        <5>1. prev # 0 /\ birth[prev] \in Int /\ birth[i] \in Int /\ birth[next] \in Int
          BY <3>2, <1>4, <2>2, <2>4, <2>10
        <5> QED BY <5>1, <2>1, <2>3
      <4>2. G[j].ch_next = next /\ prev # 0
        BY <3>1, <3>2, <2>7, <1>4
      <4>3. next = 0 => j = G[d].ch_next
        BY <3>2, <2>6
      <4>4. next # 0 => Owns(G, t, next) /\ G[next].ch_prev = prev
        BY <2>1, <2>2, <2>5, <2>7, <2>8, <2>9
      <4> QED BY <3>2, <4>1, <4>2, <4>3, <4>4
    <3>3. CASE j # prev
      <4>1. G[j].ch_next = H[j].ch_next
        BY <3>1, <3>3, <2>7
      <4>2. H[j].ch_next # i
        BY <3>1, <3>3, <2>10, <2>12, <2>13
      <4> QED
        BY <3>1, <3>3, <4>1, <4>2, <2>1, <2>2, <2>6, <2>7, <2>8, <2>9, <2>12, <2>14
    <3> QED BY <3>2, <3>3
  <2>19. ASSUME NEW j \in Slots, Owns(G, t, j)
         PROVE  /\ G[j].ch_prev = 0 => j = G[d].ch_prev
                /\ G[j].ch_prev # 0 => /\ Owns(G, t, G[j].ch_prev)
                                       /\ G[G[j].ch_prev].ch_next = j
    <3>1. Owns(H, t, j) /\ j # i /\ j # d /\ j \in Index /\ H[j].ch_prev \in Index
      BY <2>19, <2>8, <2>9, <1>4, IndexFacts
    <3>2. CASE j = next
      BY <3>1, <3>2, <2>1, <2>2, <2>5, <2>6, <2>7, <2>8, <2>9, <2>10
    <3>3. CASE j # next
      <4>1. G[j].ch_prev = H[j].ch_prev
        BY <3>1, <3>3, <2>7
      <4>2. H[j].ch_prev # i
        BY <3>1, <3>3, <2>10, <2>12, <2>13
      <4> QED
        BY <3>1, <3>3, <4>1, <4>2, <2>1, <2>2, <2>6, <2>7, <2>8, <2>9, <2>12, <2>14
    <3> QED BY <3>2, <3>3
  <2> QED
    BY <2>15, <2>16, <2>17, <2>18, <2>19 DEF ChainOK, d
<1> QED
  BY <1>5, <1>6

-----------------------------------------------------------------------------
(* What each operation does to the table.                                  *)

\* Slot i is released and taken out of its owner's chain.
LEMMA ReleasedFields ==
  ASSUME IInv, NEW i \in Slots, Live(i), NEW H, H \in Tables,
         \A j \in Index : j # i => H[j] = m_Handles[j],
         SameBody(H[i], m_Handles[i]),
         H[i].owner = m_Handles[i].owner, H[i].refcount = m_Handles[i].refcount,
         H[i].ch_prev = m_Handles[i].ch_prev, H[i].ch_next = m_Handles[i].ch_next
  PROVE  LET G == Released(H, i) IN
         /\ G \in Tables
         /\ \A j \in Slots :
              /\ SameBody(G[j], m_Handles[j])
              /\ G[j].set = IF j = i THEN "None" ELSE m_Handles[j].set
              /\ j # i => G[j].is_destroying = m_Handles[j].is_destroying
              /\ m_Handles[j].set # "Identity" => G[j].refcount = m_Handles[j].refcount
         /\ Detached(G, i)
<1> DEFINE U == Unowned(H, i)
           G == PutSet(U, i, "None")
<1>1. /\ U \in Tables
      /\ \A j \in Slots :
           /\ SameBody(U[j], H[j])
           /\ U[j].set = H[j].set /\ U[j].is_destroying = H[j].is_destroying
           /\ m_Handles[j].set # "Identity" => U[j].refcount = H[j].refcount
      /\ Detached(U, i)
  BY UnownedFields
<1>2. Released(H, i) = G
  BY DEF Released, PutSet
<1> HIDE DEF U
<1>3. OnlySet(G, U, i, "None")
  BY <1>1, PutSetFields, IndexFacts DEF HandleSet
<1> HIDE DEF G
<1>4. \A j \in Slots :
        /\ j \in Index
        /\ G[j].owner = U[j].owner /\ G[j].ch_prev = U[j].ch_prev
        /\ G[j].ch_next = U[j].ch_next
  BY <1>3, IndexFacts DEF OnlySet
<1>5. Detached(G, i)
  BY <1>1, <1>4 DEF Detached
<1>6. \A j \in Slots :
        /\ G[j].set = IF j = i THEN "None" ELSE m_Handles[j].set
        /\ j # i => G[j].is_destroying = m_Handles[j].is_destroying
        /\ m_Handles[j].set # "Identity" => G[j].refcount = m_Handles[j].refcount
  BY <1>1, <1>3, <1>4 DEF OnlySet
<1>7. \A j \in Slots : SameBody(G[j], m_Handles[j])
  BY <1>1, <1>3, <1>4 DEF OnlySet, SameBody
<1>8. G \in Tables
  BY <1>3 DEF OnlySet
<1> QED
  BY <1>2, <1>5, <1>6, <1>7, <1>8

\* The table after a clone i of m was freed.
FreedClone(G, i, m) ==
  /\ G \in Tables
  /\ \A j \in Slots :
       /\ SameBody(G[j], m_Handles[j])
       /\ G[j].set = IF j = i THEN "None" ELSE m_Handles[j].set
       /\ j \notin {i, m} => G[j].is_destroying = m_Handles[j].is_destroying
       /\ m_Handles[j].set # "Identity" =>
            G[j].refcount = IF j = m THEN m_Handles[m].refcount - 1
                            ELSE m_Handles[j].refcount
  /\ G[m].is_destroying = (m_Handles[m].refcount = 1)
  /\ Detached(G, i)

\* FreeHandle on a clone i: its slot goes, its master loses a reference and
\* starts its destructor when that was the last.
LEMMA FreeCloneFields ==
  ASSUME IInv, NEW i \in Slots, Live(i), FreeClone(i)
  PROVE  /\ m_Handles[i].clone \in Slots /\ m_Handles[i].clone # i
         /\ FreedClone(m_Handles', i, m_Handles[i].clone)
         /\ IF m_Handles[m_Handles[i].clone].refcount = 1
            THEN Destroy(m_Handles[i].clone) ELSE UNCHANGED <<stack, life>>
<1> DEFINE m == m_Handles[i].clone
           H == PutDying(m_Handles, i, TRUE)
           G == Released(H, i)
           r == m_Handles[m].refcount
<1>0. m_Handles \in Tables
  BY DEF IInv, TypeOK, Tables
<1>1. m \in Index /\ m # 0 /\ i \in Index
  BY <1>0, TableFacts, IndexFacts DEF FreeClone
<1>2. m \in Slots /\ m \in Index
  BY <1>1, IndexFacts
<1>3. /\ Live(m) /\ ~m_Handles[m].is_destroying /\ m_Handles[m].clone = 0
  BY <1>1 DEF IInv, CloneTargetOK, Live, InUse
<1>4. m # i
  BY <1>1, <1>3
<1>5. m_Handles[m].set # "Identity" /\ r \in Int
  BY <1>0, <1>2, <1>3, TableFacts DEF Live
<1>6. OnlyDying(H, m_Handles, i, TRUE)
  BY <1>0, <1>1, PutDyingFields
<1>7. \A j \in Index : j # i => H[j] = m_Handles[j]
  BY <1>0 DEF PutDying, Tables
<1>8. /\ H \in Tables /\ SameBody(H[i], m_Handles[i])
      /\ H[i].owner = m_Handles[i].owner /\ H[i].refcount = m_Handles[i].refcount
      /\ H[i].ch_prev = m_Handles[i].ch_prev /\ H[i].ch_next = m_Handles[i].ch_next
  BY <1>1, <1>6 DEF OnlyDying
<1>9. G = Released([m_Handles EXCEPT ![i].is_destroying = TRUE], i)
  BY DEF PutDying
<1> HIDE DEF H
<1>10. /\ G \in Tables
       /\ \A j \in Slots :
            /\ SameBody(G[j], m_Handles[j])
            /\ G[j].set = IF j = i THEN "None" ELSE m_Handles[j].set
            /\ j # i => G[j].is_destroying = m_Handles[j].is_destroying
            /\ m_Handles[j].set # "Identity" => G[j].refcount = m_Handles[j].refcount
       /\ Detached(G, i)
  BY <1>7, <1>8, ReleasedFields
<1>11. G[m].refcount = r
  BY <1>2, <1>5, <1>10
<1>12. IF r = 1 THEN m_Handles' = [G EXCEPT ![m].refcount = 0, ![m].is_destroying = TRUE]
                ELSE m_Handles' = [G EXCEPT ![m].refcount = @ - 1]
  BY <1>9, <1>11 DEF FreeClone
<1>23. IF r = 1 THEN Destroy(m) ELSE UNCHANGED <<stack, life>>
  BY <1>9, <1>11 DEF FreeClone
<1> HIDE DEF G, m, r
<1> DEFINE K == PutRef(G, m, r - 1)
<1>13. OnlyRef(K, G, m, r - 1)
  BY <1>2, <1>5, <1>10, PutRefFields
<1>14. r # 1 => m_Handles' = K
  BY <1>10, <1>11, <1>12, <1>2 DEF PutRef, Tables
<1>15. r = 1 => m_Handles' = PutDying(K, m, TRUE)
  BY <1>10, <1>11, <1>12, <1>2 DEF PutRef, PutDying, Tables
<1> HIDE DEF K
<1>16. K \in Tables
  BY <1>13 DEF OnlyRef
<1>17. OnlyDying(m_Handles', K, m, r = 1)
  <2>1. K[m].is_destroying = FALSE
    BY <1>2, <1>3, <1>4, <1>10, <1>13, <1>0, TableFacts DEF OnlyRef, m
  <2>2. CASE r = 1
    BY <2>2, <1>15, <1>16, <1>2, PutDyingFields
  <2>3. CASE r # 1
    <3>1. \A j \in Index : K[j].is_destroying = IF j = m THEN r = 1 ELSE K[j].is_destroying
      BY <2>1, <2>3
    <3> QED BY <3>1, <2>3, <1>14, <1>16 DEF OnlyDying, SameBody
  <2> QED BY <2>2, <2>3
<1> DEFINE M == m_Handles'
<1>18. /\ M \in Tables
       /\ \A j \in Slots :
            /\ j \in Index
            /\ M[j].owner = G[j].owner /\ M[j].ch_prev = G[j].ch_prev
            /\ M[j].ch_next = G[j].ch_next
  BY <1>13, <1>17, IndexFacts DEF OnlyRef, OnlyDying
<1>19. Detached(M, i)
  BY <1>10, <1>18 DEF Detached
<1>20. \A j \in Slots :
         /\ M[j].set = IF j = i THEN "None" ELSE m_Handles[j].set
         /\ j \notin {i, m} => M[j].is_destroying = m_Handles[j].is_destroying
         /\ m_Handles[j].set # "Identity" =>
              M[j].refcount = IF j = m THEN r - 1 ELSE m_Handles[j].refcount
  BY <1>10, <1>13, <1>17, <1>18 DEF OnlyRef, OnlyDying
<1>21. \A j \in Slots : SameBody(M[j], m_Handles[j])
  BY <1>10, <1>13, <1>17, <1>18 DEF OnlyRef, OnlyDying, SameBody
<1>22. M[m].is_destroying = (r = 1)
  BY <1>2, <1>17 DEF OnlyDying
<1> QED
  BY <1>2, <1>4, <1>18, <1>19, <1>20, <1>21, <1>22, <1>23 DEF FreedClone, m, r

\* SameBody is transitive.
LEMMA SameBodyTrans ==
  ASSUME NEW p, NEW q, NEW r, SameBody(p, q), SameBody(q, r)
  PROVE  SameBody(p, r)
  BY DEF SameBody

\* The table after the last reference to the object of slot i was dropped.
Dying(G, i) ==
  /\ G \in Tables
  /\ \A j \in Slots :
       /\ SameBody(G[j], m_Handles[j])
       /\ G[j].set = m_Handles[j].set /\ G[j].owner = m_Handles[j].owner
       /\ G[j].ch_prev = m_Handles[j].ch_prev /\ G[j].ch_next = m_Handles[j].ch_next
       /\ G[j].is_destroying = IF j = i THEN TRUE ELSE m_Handles[j].is_destroying
       /\ G[j].refcount = IF j = i THEN 0 ELSE m_Handles[j].refcount

\* The table after a master i was closed that still has clones.
Closed(G, i) ==
  /\ G \in Tables
  /\ \A j \in Slots :
       /\ SameBody(G[j], m_Handles[j])
       /\ G[j].set = IF j = i THEN "Freed" ELSE m_Handles[j].set
       /\ G[j].is_destroying = m_Handles[j].is_destroying
       /\ m_Handles[j].set # "Identity" =>
            G[j].refcount = IF j = i THEN m_Handles[i].refcount - 1
                            ELSE m_Handles[j].refcount
  /\ Detached(G, i)

\* The two ends of FreeHandle on a master.
LEMMA FreeMasterFields ==
  ASSUME IInv, NEW i \in Slots, Live(i), FreeMaster(i)
  PROVE  IF m_Handles[i].refcount = 1 THEN Dying(m_Handles', i)
                                      ELSE Closed(m_Handles', i)
<1> DEFINE H == m_Handles
           r == H[i].refcount
<1>0. H \in Tables /\ i \in Index /\ i # 0 /\ H[i].is_destroying \in BOOLEAN /\ r \in Int
  <2>1. H \in Tables /\ i \in Index /\ i # 0
    BY IndexFacts DEF IInv, TypeOK, Tables
  <2> QED BY <2>1, TableFacts
<1>1. CASE r = 1
  <2> DEFINE F == PutRef(H, i, 0)
  <2>1. m_Handles' = PutDying(F, i, TRUE)
    BY <1>0, <1>1 DEF FreeMaster, PutRef, PutDying, Tables
  <2>2. OnlyRef(F, H, i, 0)
    BY <1>0, PutRefFields
  <2> HIDE DEF F
  <2>3. OnlyDying(m_Handles', F, i, TRUE)
    <3>1. F \in Tables
      BY <2>2 DEF OnlyRef
    <3> QED BY <2>1, <3>1, <1>0, PutDyingFields
  <2>4. \A j \in Slots : j \in Index
    BY IndexFacts
  <2> DEFINE G == m_Handles'
  <2>6. \A j \in Slots : SameBody(G[j], H[j])
    <3> TAKE j \in Slots
    <3>1. SameBody(F[j], H[j]) /\ SameBody(G[j], F[j])
      BY <2>2, <2>3, <2>4 DEF OnlyRef, OnlyDying
    <3> QED BY <3>1, SameBodyTrans
  <2>7. \A j \in Slots :
          /\ G[j].set = H[j].set /\ G[j].owner = H[j].owner
          /\ G[j].ch_prev = H[j].ch_prev /\ G[j].ch_next = H[j].ch_next
          /\ G[j].is_destroying = IF j = i THEN TRUE ELSE H[j].is_destroying
          /\ G[j].refcount = IF j = i THEN 0 ELSE H[j].refcount
    BY ZenonT(60), <2>2, <2>3, <2>4 DEF OnlyRef, OnlyDying
  <2>8. G \in Tables
    BY <2>3 DEF OnlyDying
  <2>5. Dying(G, i)
    BY <2>6, <2>7, <2>8 DEF Dying
  <2> QED BY <1>1, <2>5
<1>2. CASE r # 1
  <2> DEFINE F == PutRef(H, i, r - 1)
             E == PutSet(F, i, "Freed")
             G == m_Handles'
  <2>1. m_Handles' = Unowned(E, i)
    <3>1. E = [m_Handles EXCEPT ![i].refcount = @ - 1, ![i].set = "Freed"]
      BY <1>0 DEF PutRef, PutSet, Tables
    <3> QED BY <3>1, <1>2 DEF FreeMaster
  <2>2. OnlyRef(F, H, i, r - 1) /\ \A j \in Index : j # i => F[j] = H[j]
    <3>1. OnlyRef(F, H, i, r - 1)
      BY <1>0, PutRefFields
    <3>2. \A j \in Index : j # i => F[j] = H[j]
      BY <1>0 DEF PutRef, Tables
    <3> QED BY <3>1, <3>2
  <2> HIDE DEF F
  <2>3. OnlySet(E, F, i, "Freed") /\ \A j \in Index : j # i => E[j] = F[j]
    <3>1. F \in Tables
      BY <2>2 DEF OnlyRef
    <3>2. OnlySet(E, F, i, "Freed")
      BY <3>1, <1>0, PutSetFields DEF HandleSet
    <3>3. \A j \in Index : j # i => E[j] = F[j]
      BY <3>1, <1>0 DEF PutSet, Tables
    <3> QED BY <3>2, <3>3
  <2> HIDE DEF E
  <2>4. /\ E \in Tables /\ \A j \in Index : j # i => E[j] = H[j]
        /\ E[i].owner = H[i].owner /\ E[i].ch_prev = H[i].ch_prev
        /\ E[i].ch_next = H[i].ch_next /\ E[i].set = "Freed"
        /\ E[i].refcount = r - 1 /\ E[i].is_destroying = H[i].is_destroying
    BY <2>2, <2>3, <1>0 DEF OnlyRef, OnlySet
  <2>5. \A j \in Index : SameBody(E[j], H[j])
    BY <2>2, <2>3, <1>0 DEF OnlyRef, OnlySet, SameBody
  <2>6. /\ G \in Tables
        /\ \A j \in Slots :
             /\ SameBody(G[j], E[j])
             /\ G[j].set = E[j].set /\ G[j].is_destroying = E[j].is_destroying
             /\ m_Handles[j].set # "Identity" => G[j].refcount = E[j].refcount
        /\ Detached(G, i)
    BY <2>1, <2>4, UnownedFields
  <2>7. \A j \in Slots : j \in Index
    BY IndexFacts
  <2>8. \A j \in Slots : SameBody(G[j], H[j])
    BY <2>5, <2>6, <2>7 DEF SameBody
  <2>9. \A j \in Slots :
          /\ G[j].set = IF j = i THEN "Freed" ELSE m_Handles[j].set
          /\ G[j].is_destroying = m_Handles[j].is_destroying
          /\ m_Handles[j].set # "Identity" =>
               G[j].refcount = IF j = i THEN r - 1 ELSE m_Handles[j].refcount
    BY <2>4, <2>6, <2>7
  <2> QED BY <1>2, <2>6, <2>8, <2>9 DEF Closed
<1> QED
  BY <1>1, <1>2

\* The links of G are those of the table after slot i, when `link' holds, was
\* appended to the chain of o.
Attached(G, i, o, link) ==
  LET d == ident[o].index IN
  \A j \in Slots :
    /\ G[j].ch_next = IF link /\ j \in {d, m_Handles[d].ch_next} THEN i
                      ELSE IF j = i THEN 0 ELSE m_Handles[j].ch_next
    /\ G[j].ch_prev = IF link /\ j = d /\ m_Handles[d].ch_prev = 0 THEN i
                      ELSE IF j = i THEN IF link THEN m_Handles[d].ch_next ELSE 0
                      ELSE m_Handles[j].ch_prev

\* The table after a handle was made in slot i, a clone of m unless m is 0, and
\* the reference count of slot r was raised.
Made(G, i, type, o, set, m, sec, r) ==
  /\ G \in Tables
  /\ G[i].set = set /\ G[i].type = type /\ G[i].owner = o /\ G[i].clone = m
  /\ G[i].sec = sec /\ ~G[i].is_destroying /\ G[i].serial = NextSerial
  /\ G[i].refcount = 1
  /\ \A j \in Slots : j # i =>
       /\ SameBody(G[j], m_Handles[j])
       /\ G[j].set = m_Handles[j].set /\ G[j].owner = m_Handles[j].owner
       /\ G[j].is_destroying = m_Handles[j].is_destroying
       /\ m_Handles[j].set # "Identity" =>
            G[j].refcount = m_Handles[j].refcount + IF j = r THEN 1 ELSE 0
  /\ Attached(G, i, o, o # NULL /\ set # "Identity")

\* The slot TryAllocHandle hands out is free and within the table.
LEMMA AllocFacts ==
  ASSUME IInv, ~AtLimit
  PROVE  /\ TryAllocHandle \in Slots /\ m_Handles[TryAllocHandle].set = "None"
         /\ TryAllocHandle <= IF m_FreeHandles = 0 THEN m_HandleTail + 1 ELSE m_HandleTail
<1>0. m_FreeHandles \in Nat /\ m_HandleTail \in 0..MaxHandles
  <2>1. m_FreeHandles \in Index /\ m_HandleTail \in Index
    BY DEF IInv, TypeOK
  <2> QED BY <2>1, TableAssumption DEF Index
<1>1. CASE m_FreeHandles = 0
  <2>1. m_HandleTail + 1 \in Slots /\ m_HandleTail + 1 > m_HandleTail
    BY <1>0, <1>1, TableAssumption DEF AtLimit, Slots
  <2>2. m_Handles[m_HandleTail + 1].set = "None"
    BY <2>1 DEF IInv, FreeListOK
  <2> QED BY <1>0, <1>1, <2>1, <2>2 DEF TryAllocHandle
<1>2. CASE m_FreeHandles # 0
  <2>1. m_FreeHandles \in 1..m_FreeHandles
    BY <1>0, <1>2
  <2> DEFINE f == freeID[m_FreeHandles]
  <2>2. f \in 1..m_HandleTail /\ m_Handles[f].set = "None"
    BY <2>1 DEF IInv, FreeListOK
  <2>3. TryAllocHandle = f
    BY <1>2 DEF TryAllocHandle
  <2> HIDE DEF f
  <2>4. f \in Slots /\ f <= m_HandleTail
    BY <1>0, <2>2, TableAssumption DEF Slots
  <2> QED BY <1>2, <2>2, <2>3, <2>4
<1> QED
  BY <1>1, <1>2

\* A token whose handle decodes has an identity slot, and its chain's tail is
\* another slot in use.
LEMMA SentinelFacts ==
  ASSUME IInv, NEW o \in Tokens \ {Root}, IdentityHandle(m_Handles, m_HandleTail, o) # 0
  PROVE  LET d == ident[o].index IN
         /\ HasIdentity(o) /\ IdentityHandle(m_Handles, m_HandleTail, o) = d
         /\ d \in Slots /\ m_Handles[d].set = "Identity"
         /\ m_Handles[d].ch_prev = 0 <=> m_Handles[d].ch_next = 0
         /\ m_Handles[d].ch_next = 0 \/ Owns(m_Handles, o, m_Handles[d].ch_next)
<1> DEFINE d == ident[o].index
<1>1. IdentityHandle(m_Handles, m_HandleTail, o) = d
  BY DEF IdentityHandle
<1>2. HasIdentity(o)
  BY <1>1 DEF HasIdentity, NoHandle
<1>3. d \in 1..m_HandleTail /\ m_Handles[d].set = "Identity" /\ m_HandleTail \in Index
  BY <1>2 DEF IInv, IdentitiesOK, TypeOK
<1>4. /\ m_Handles[d].ch_prev = 0 <=> m_Handles[d].ch_next = 0
      /\ m_Handles[d].ch_next = 0 \/ Owns(m_Handles, o, m_Handles[d].ch_next)
  BY <1>2 DEF IInv, OwnerChainOK, ChainOK
<1> HIDE DEF d
<1>5. d \in Slots
  BY <1>3, TableAssumption DEF Slots, Index
<1> QED
  BY <1>1, <1>2, <1>3, <1>4, <1>5 DEF d

\* MakePrimHandle fills a free slot and appends it to its owner's chain.
LEMMA FilledFields ==
  ASSUME IInv, ~AtLimit, NEW type \in AllTypes, NEW o \in Tokens \cup {NULL},
         NEW set \in {"Used", "Identity"}, NEW object \in 0..MaxMade, NEW m \in Index,
         NEW sec \in Access \cup {NULL},
         o # NULL /\ set # "Identity" =>
           o # Root /\ IdentityHandle(m_Handles, m_HandleTail, o) # 0
  PROVE  Made(Filled(m_Handles, type, o, set, object, m, sec), TryAllocHandle,
              type, o, set, m, sec, 0)
<1> DEFINE H == m_Handles
           i == TryAllocHandle
           q == [ set |-> set, type |-> type, owner |-> o,
                  serial |-> NextSerial, refcount |-> 1, clone |-> m,
                  sec |-> sec, is_destroying |-> FALSE, object |-> object,
                  ch_prev |-> 0, ch_next |-> 0 ]
           N == [H EXCEPT ![i] = q]
           G == Filled(H, type, o, set, object, m, sec)
           link == o # NULL /\ set # "Identity"
           d == ident[o].index
<1>0. H \in Tables /\ i \in Slots /\ H[i].set = "None" /\ i \in Index /\ 0 \in Index /\ i # 0
  BY AllocFacts, IndexFacts DEF IInv, TypeOK, Tables
<1>1. NextSerial \in 0..(MaxSerials - 1)
  <2>1. m_HSerial \in 1..(MaxSerials - 1)
    BY DEF IInv, TypeOK
  <2> QED BY <2>1, TableAssumption DEF NextSerial
<1>2. q \in QHandle
  BY <1>0, <1>1 DEF QHandle, HandleSet
<1>3. /\ q.set = set /\ q.type = type /\ q.owner = o /\ q.clone = m
      /\ q.sec = sec /\ q.is_destroying = FALSE /\ q.serial = NextSerial
      /\ q.refcount = 1 /\ q.ch_prev = 0 /\ q.ch_next = 0
  OBVIOUS
<1>4. G = IF link THEN LinkHandleToOwner(N, i, IdentityHandle(H, m_HandleTail, o)) ELSE N
  BY DEF Filled
<1> HIDE DEF q, G, i
<1>5. /\ N \in Tables /\ N[i] = q
      /\ \A j \in Slots : j # i => N[j] = H[j]
  BY <1>0, <1>2, IndexFacts DEF Tables
<1>6. \A j \in Slots : H[j].refcount \in Int
  BY <1>0, IndexFacts, TableFacts
<1> HIDE DEF N
<1>7. ASSUME ~link PROVE Made(G, i, type, o, set, m, sec, 0)
  <2>1. G = N
    BY <1>4, <1>7
  <2>2. Attached(N, i, o, link)
    BY <1>0, <1>3, <1>5, <1>7 DEF Attached
  <2>3. \A j \in Slots : j # i =>
          /\ SameBody(N[j], H[j])
          /\ N[j].set = H[j].set /\ N[j].owner = H[j].owner
          /\ N[j].is_destroying = H[j].is_destroying
          /\ N[j].refcount = H[j].refcount + IF j = 0 THEN 1 ELSE 0
    BY <1>5, <1>6, IndexFacts DEF SameBody
  <2> HIDE DEF link
  <2> QED BY <2>1, <2>2, <2>3, <1>3, <1>5 DEF Made, link
<1>8. ASSUME link PROVE Made(G, i, type, o, set, m, sec, 0)
  <2>1. /\ IdentityHandle(H, m_HandleTail, o) = d
        /\ d \in Slots /\ H[d].set = "Identity"
        /\ H[d].ch_prev = 0 <=> H[d].ch_next = 0
        /\ H[d].ch_next = 0 \/ Owns(H, o, H[d].ch_next)
    BY <1>8, SentinelFacts
  <2>2. d # i /\ H[d].ch_next \notin {i, d} /\ N[d] = H[d]
    BY <1>0, <1>5, <2>1, IndexFacts DEF Owns
  <2>3. N[i].ch_prev = 0 /\ N[i].ch_next = 0
    BY <1>3, <1>5
  <2> HIDE DEF d, link
  <2>4. /\ G \in Tables
        /\ \A j \in Slots :
             /\ SameBody(G[j], N[j])
             /\ G[j].set = N[j].set /\ G[j].is_destroying = N[j].is_destroying
             /\ G[j].owner = N[j].owner
             /\ G[j].refcount = IF j = d THEN N[d].refcount + 1 ELSE N[j].refcount
             /\ G[j].ch_next = IF j \in {d, N[d].ch_next} THEN i ELSE N[j].ch_next
             /\ G[j].ch_prev = IF j = d /\ N[d].ch_prev = 0 THEN i
                               ELSE IF j = i THEN N[d].ch_next ELSE N[j].ch_prev
    <3>1. G = LinkHandleToOwner(N, i, d)
      BY <1>4, <1>8, <2>1
    <3> QED BY <3>1, <1>0, <1>5, <2>1, <2>2, <2>3, LinkFields
  <2>5. Attached(G, i, o, link)
    BY <1>0, <1>5, <1>8, <2>1, <2>2, <2>3, <2>4 DEF Attached, d
  <2>6. \A j \in Slots : j # i =>
          /\ SameBody(G[j], H[j])
          /\ G[j].set = H[j].set /\ G[j].owner = H[j].owner
          /\ G[j].is_destroying = H[j].is_destroying
          /\ H[j].set # "Identity" => G[j].refcount = H[j].refcount + IF j = 0 THEN 1 ELSE 0
    BY <1>5, <1>6, <2>1, <2>4, IndexFacts
  <2>7. /\ G[i].set = set /\ G[i].type = type /\ G[i].owner = o /\ G[i].clone = m
        /\ G[i].sec = sec /\ ~G[i].is_destroying /\ G[i].serial = NextSerial
        /\ G[i].refcount = 1
    BY <1>0, <1>3, <1>5, <2>2, <2>4 DEF SameBody
  <2> QED BY <2>4, <2>5, <2>6, <2>7 DEF Made, link
<1> QED
  BY <1>7, <1>8 DEF G, i

\* Cloning raises the master's reference count besides.
LEMMA ClonedFields ==
  ASSUME IInv, ~AtLimit, NEW o \in Tokens \cup {NULL}, NEW m \in Slots, Live(m),
         o # NULL => o # Root /\ IdentityHandle(m_Handles, m_HandleTail, o) # 0
  PROVE  LET q == m_Handles[m] IN
         Made(AddRef(Filled(m_Handles, q.type, o, "Used", 0, m, q.sec), m),
              TryAllocHandle, q.type, o, "Used", m, q.sec, m)
<1> DEFINE H == m_Handles
           q == H[m]
           i == TryAllocHandle
           F == Filled(H, q.type, o, "Used", 0, m, q.sec)
           G == AddRef(F, m)
           link == o # NULL /\ "Used" # "Identity"
<1>0. H \in Tables /\ i \in Slots /\ H[i].set = "None" /\ m \in Index /\ m # i /\ i \in Index
  BY AllocFacts, IndexFacts DEF IInv, TypeOK, Tables, Live
<1>1. q.type \in AllTypes /\ q.sec \in Access \cup {NULL} /\ q.refcount \in Int
  BY <1>0, TableFacts
<1>2. 0 \in 0..MaxMade
  BY TableAssumption
<1>3. Made(F, i, q.type, o, "Used", m, q.sec, 0)
  BY <1>0, <1>1, <1>2, FilledFields
<1> HIDE DEF F, i
<1>4. F \in Tables /\ F[m].refcount = q.refcount
  BY <1>0, <1>1, <1>3, IndexFacts DEF Made, Live
<1>5. G = PutRef(F, m, q.refcount + 1)
  BY <1>0, <1>4 DEF AddRef, PutRef, Tables
<1>6. OnlyRef(G, F, m, q.refcount + 1)
  BY <1>0, <1>1, <1>4, <1>5, PutRefFields
<1> HIDE DEF G
<1>7. \A j \in Slots :
        /\ j \in Index
        /\ G[j].set = F[j].set /\ G[j].is_destroying = F[j].is_destroying
        /\ G[j].owner = F[j].owner /\ G[j].ch_prev = F[j].ch_prev
        /\ G[j].ch_next = F[j].ch_next
        /\ G[j].refcount = IF j = m THEN q.refcount + 1 ELSE F[j].refcount
        /\ SameBody(G[j], F[j])
  BY <1>6, IndexFacts DEF OnlyRef
<1>8. Attached(G, i, o, link)
  BY <1>3, <1>7 DEF Made, Attached
<1>9. \A j \in Slots : j # i =>
        /\ G[j].set = H[j].set /\ G[j].owner = H[j].owner
        /\ G[j].is_destroying = H[j].is_destroying
        /\ H[j].set # "Identity" => G[j].refcount = H[j].refcount + IF j = m THEN 1 ELSE 0
  BY <1>3, <1>7, IndexFacts DEF Made
<1>10. \A j \in Slots : j # i => SameBody(G[j], H[j])
  <2> TAKE j \in Slots
  <2> HAVE j # i
  <2>1. SameBody(F[j], H[j]) /\ SameBody(G[j], F[j])
    BY <1>3, <1>7 DEF Made
  <2> QED BY <2>1, SameBodyTrans
<1>11. /\ G[i].set = "Used" /\ G[i].type = q.type /\ G[i].owner = o /\ G[i].clone = m
       /\ G[i].sec = q.sec /\ ~G[i].is_destroying /\ G[i].serial = NextSerial
       /\ G[i].refcount = 1
  BY <1>0, <1>3, <1>7 DEF Made, SameBody
<1>12. G \in Tables
  BY <1>6 DEF OnlyRef
<1> QED
  BY <1>8, <1>9, <1>10, <1>11, <1>12 DEF Made, G, F, i

-----------------------------------------------------------------------------
(* The free stack.                                                         *)

\* Slots in use lie below the tail.
LEMMA InUseFacts ==
  ASSUME IInv, NEW i \in Slots, InUse(i)
  PROVE  i \in 1..m_HandleTail
<1>1. m_HandleTail \in Index
  BY DEF IInv, TypeOK
<1>2. ~(i > m_HandleTail)
  BY DEF IInv, FreeListOK, InUse
<1> QED
  BY <1>1, <1>2, TableAssumption DEF Slots, Index

\* While a slot is in use the free stack has room for one more.
LEMMA FreeStackRoom ==
  ASSUME IInv, NEW i \in Slots, InUse(i)
  PROVE  m_FreeHandles \in Nat /\ m_HandleTail \in Nat /\ m_FreeHandles < m_HandleTail
<1> DEFINE S == 1..m_FreeHandles
           T == (1..m_HandleTail) \ {i}
           f == [k \in S |-> freeID[k]]
<1>1. m_FreeHandles \in Nat /\ m_HandleTail \in Nat
  <2>1. m_FreeHandles \in Index /\ m_HandleTail \in Index
    BY DEF IInv, TypeOK
  <2> QED BY <2>1, TableAssumption DEF Index
<1>2. i \in 1..m_HandleTail
  BY InUseFacts
<1>3. IsFiniteSet(S) /\ Cardinality(S) = m_FreeHandles
  BY <1>1, FS_Interval
<1>4. IsFiniteSet(T) /\ Cardinality(T) = m_HandleTail - 1
  <2>1. IsFiniteSet(1..m_HandleTail) /\ Cardinality(1..m_HandleTail) = m_HandleTail
    BY <1>1, FS_Interval
  <2> QED BY <1>2, <2>1, FS_RemoveElement
<1>5. \A k \in S : freeID[k] \in T
  BY DEF IInv, FreeListOK, InUse
<1>6. f \in [S -> T]
  BY <1>5
<1>7. \A x, y \in S : f[x] = f[y] => x = y
  BY DEF IInv, FreeListOK
<1> HIDE DEF S, T, f
<1>8. ~(Cardinality(T) < Cardinality(S))
  BY <1>3, <1>4, <1>6, <1>7, FS_PigeonHole
<1> QED
  BY <1>1, <1>3, <1>4, <1>8

\* Releasing a slot in use puts it on the free stack.
LEMMA FreePush ==
  ASSUME IInv, NEW i \in Slots, InUse(i),
         m_FreeHandles' = m_FreeHandles + 1,
         freeID' = [freeID EXCEPT ![m_FreeHandles + 1] = i],
         m_HandleTail' = m_HandleTail,
         m_Handles'[i].set = "None",
         \A j \in Slots : j # i => (m_Handles'[j].set = "None" <=> m_Handles[j].set = "None")
  PROVE  FreeListOK' /\ m_FreeHandles' \in Index /\ freeID' \in [Index -> Index]
<1> DEFINE F == m_FreeHandles
           T == m_HandleTail
           f == freeID'
<1>1. F \in Nat /\ T \in Nat /\ F < T /\ i \in 1..T
  BY FreeStackRoom, InUseFacts
<1>2. T <= MaxHandles /\ freeID \in [Index -> Index] /\ F + 1 \in Index /\ i \in Index
  <2>1. T \in Index /\ freeID \in [Index -> Index]
    BY DEF IInv, TypeOK
  <2>2. T <= MaxHandles /\ F + 1 \in Index
    BY <1>1, <2>1, TableAssumption DEF Index
  <2> QED BY <2>1, <2>2, IndexFacts
<1>3. f \in [Index -> Index] /\ f[F + 1] = i
  BY <1>2
<1>4. \A k \in 1..F : f[k] = freeID[k] /\ k \in 1..(F + 1)
  <2> TAKE k \in 1..F
  <2>1. k \in Index /\ k # F + 1 /\ k \in 1..(F + 1)
    <3>1. F \in Nat /\ F < T /\ T \in Nat /\ T <= MaxHandles
      BY <1>1, <1>2
    <3> HIDE DEF F, T
    <3> QED BY <3>1, TableAssumption DEF Index
  <2> QED BY <2>1, <1>2
<1>5. \A k \in 1..(F + 1) : k = F + 1 \/ k \in 1..F
  BY <1>1
<1>6. \A k \in 1..F : freeID[k] \in 1..T /\ freeID[k] \in Slots /\ m_Handles[freeID[k]].set = "None"
  <2>1. \A k \in 1..F : freeID[k] \in 1..T /\ m_Handles[freeID[k]].set = "None"
    BY DEF IInv, FreeListOK
  <2>2. 1..T \subseteq Slots
    BY <1>1, <1>2, TableAssumption DEF Slots
  <2> QED BY <2>1, <2>2
<1>7. \A k \in 1..F : freeID[k] # i
  BY <1>6 DEF InUse
<1> HIDE DEF f, F, T
<1>8. \A k \in 1..(F + 1) : f[k] \in 1..T /\ m_Handles'[f[k]].set = "None"
  BY <1>1, <1>3, <1>4, <1>5, <1>6, <1>7
<1>9. \A j, k \in 1..(F + 1) : f[j] = f[k] => j = k
  <2>1. \A j, k \in 1..F : freeID[j] = freeID[k] => j = k
    BY DEF IInv, FreeListOK, F
  <2> QED BY <2>1, <1>3, <1>4, <1>5, <1>7
<1>10. \A j \in 1..T : m_Handles'[j].set = "None" => \E k \in 1..(F + 1) : f[k] = j
  <2> SUFFICES ASSUME NEW j \in 1..T, m_Handles'[j].set = "None"
               PROVE  \E k \in 1..(F + 1) : f[k] = j
    OBVIOUS
  <2>1. CASE j = i
    <3>1. F + 1 \in 1..(F + 1)
      BY <1>1
    <3> QED BY <2>1, <3>1, <1>3
  <2>2. CASE j # i
    <3>1. j \in Slots
      BY <1>1, <1>2, TableAssumption DEF Slots
    <3>2. m_Handles[j].set = "None"
      BY <2>2, <3>1
    <3>3. PICK k \in 1..F : freeID[k] = j
      BY <3>2 DEF IInv, FreeListOK, F, T
    <3> QED BY <3>3, <1>4
  <2> QED BY <2>1, <2>2
<1>11. \A j \in Slots : j > T => m_Handles'[j].set = "None"
  BY DEF IInv, FreeListOK, T
<1>12. m_FreeHandles' = F + 1 /\ freeID' = f /\ m_HandleTail' = T
  BY DEF F, T, f
<1>13. FreeListOK'
  BY <1>8, <1>9, <1>10, <1>11, <1>12 DEF FreeListOK
<1> QED
  BY <1>2, <1>3, <1>12, <1>13

\* Allocation takes the top of the stack, or the slot above the tail.
LEMMA FreePop ==
  ASSUME IInv, ~AtLimit,
         m_HandleTail' = IF m_FreeHandles = 0 THEN TryAllocHandle ELSE m_HandleTail,
         m_FreeHandles' = IF m_FreeHandles = 0 THEN 0 ELSE m_FreeHandles - 1,
         freeID' = freeID,
         m_Handles'[TryAllocHandle].set # "None",
         \A j \in Slots : j # TryAllocHandle =>
            (m_Handles'[j].set = "None" <=> m_Handles[j].set = "None")
  PROVE  /\ FreeListOK' /\ m_FreeHandles' \in Index /\ m_HandleTail' \in Index
         /\ m_HandleTail <= m_HandleTail' /\ TryAllocHandle <= m_HandleTail'
<1> DEFINE F == m_FreeHandles
           T == m_HandleTail
           i == TryAllocHandle
<1>0. F \in 0..MaxHandles /\ T \in 0..MaxHandles /\ MaxHandles \in Nat
  <2>1. F \in Index /\ T \in Index
    BY DEF IInv, TypeOK
  <2> QED BY <2>1, TableAssumption DEF Index
<1>1. i \in Slots /\ m_Handles[i].set = "None"
  BY AllocFacts
<1>2. /\ \A k \in 1..F : freeID[k] \in 1..T /\ m_Handles[freeID[k]].set = "None"
      /\ \A j, k \in 1..F : freeID[j] = freeID[k] => j = k
      /\ \A j \in 1..T : m_Handles[j].set = "None" => \E k \in 1..F : freeID[k] = j
      /\ \A j \in Slots : j > T => m_Handles[j].set = "None"
  BY DEF IInv, FreeListOK
<1>3. CASE F = 0
  <2>1. i = T + 1 /\ m_HandleTail' = T + 1 /\ m_FreeHandles' = 0
    BY <1>3 DEF TryAllocHandle
  <2>2. T + 1 \in 0..MaxHandles /\ T <= T + 1
    BY <1>0, <1>1, <2>1 DEF Slots
  <2>3. \A j \in 1..(T + 1) : j = T + 1 \/ j \in 1..T
    BY <1>0
  <2>4. \A j \in 1..T : j \in Slots
    BY <1>0 DEF Slots
  <2>5. \A j \in 1..(T + 1) : m_Handles'[j].set # "None"
    <3>1. ~\E k \in 1..F : TRUE
      BY <1>3
    <3> QED BY <3>1, <1>2, <2>1, <2>3, <2>4
  <2>6. \A j \in Slots : j > T + 1 => m_Handles'[j].set = "None"
    <3>1. \A j \in Slots : j > T + 1 => j > T /\ j # T + 1
      BY <1>0 DEF Slots
    <3> QED BY <1>2, <2>1, <3>1
  <2>7. FreeListOK'
    <3>1. 1..0 = {}
      OBVIOUS
    <3> HIDE DEF T
    <3> QED BY <3>1, <2>1, <2>5, <2>6 DEF FreeListOK
  <2> QED BY <1>0, <2>1, <2>2, <2>7 DEF Index
<1>4. CASE F # 0
  <2>1. i = freeID[F] /\ m_HandleTail' = T /\ m_FreeHandles' = F - 1
    BY <1>4 DEF TryAllocHandle
  <2>2. F - 1 \in 0..MaxHandles /\ F \in 1..F
    BY <1>0, <1>4
  <2>3. \A k \in 1..(F - 1) : k \in 1..F /\ k # F
    BY <1>0
  <2>4. \A k \in 1..F : k = F \/ k \in 1..(F - 1)
    BY <1>0
  <2>5. i \in 1..T /\ i <= T /\ T <= T
    <3>1. i \in 1..T
      BY <1>2, <2>1, <2>2
    <3> HIDE DEF i, T
    <3> QED BY <3>1, <1>0
  <2>6. \A k \in 1..F : freeID[k] \in Slots
    <3>1. 1..T \subseteq Slots
      BY <1>0 DEF Slots
    <3> QED BY <3>1, <1>2
  <2>7. \A k \in 1..(F - 1) : freeID[k] # i
    BY <1>2, <2>1, <2>2, <2>3
  <2>8. \A j \in 1..T : j \in Slots
    BY <1>0 DEF Slots
  <2>9. ~(i > T)
    <3> HIDE DEF i, T
    <3> QED BY <1>0, <2>5
  <2> HIDE DEF F, T, i
  <2>10. \A k \in 1..(F - 1) : freeID[k] \in 1..T /\ m_Handles'[freeID[k]].set = "None"
    BY <1>2, <2>3, <2>6, <2>7 DEF i
  <2>11. \A j, k \in 1..(F - 1) : freeID[j] = freeID[k] => j = k
    BY <1>2, <2>3
  <2>12. \A j \in 1..T : m_Handles'[j].set = "None" => \E k \in 1..(F - 1) : freeID[k] = j
    <3> SUFFICES ASSUME NEW j \in 1..T, m_Handles'[j].set = "None"
                 PROVE  \E k \in 1..(F - 1) : freeID[k] = j
      OBVIOUS
    <3>1. j # i
      BY DEF i
    <3>2. PICK k \in 1..F : freeID[k] = j
      BY <3>1, <1>2, <2>8 DEF i
    <3> QED BY <3>1, <3>2, <2>1, <2>4
  <2>13. \A j \in Slots : j > T => m_Handles'[j].set = "None"
    <3>1. \A j \in Slots : j > T => j # i
      BY <2>9
    <3> QED BY <3>1, <1>2 DEF i
  <2>14. FreeListOK'
    BY <2>1, <2>10, <2>11, <2>12, <2>13 DEF FreeListOK
  <2> QED BY <1>0, <2>1, <2>2, <2>5, <2>14 DEF Index, T, i
<1> QED
  BY <1>3, <1>4

\* A step that neither allocates nor releases.
LEMMA FreeSame ==
  ASSUME IInv, UNCHANGED <<freeID, m_FreeHandles, m_HandleTail>>,
         \A j \in Slots : m_Handles'[j].set = "None" <=> m_Handles[j].set = "None"
  PROVE  FreeListOK'
<1>1. 1..m_HandleTail \subseteq Slots
  <2>1. m_HandleTail \in Index
    BY DEF IInv, TypeOK
  <2> QED BY <2>1, TableAssumption DEF Index, Slots
<1>2. FreeListOK
  BY DEF IInv
<1> QED
  BY <1>1, <1>2 DEF FreeListOK

-----------------------------------------------------------------------------
(* Reference counts.                                                       *)

ClonesIn(G, m) == {i \in Slots : G[i].set # "None" /\ G[i].clone = m}
SelfRef(q) == IF q.set = "Used" /\ ~q.is_destroying THEN 1 ELSE 0
RefIn(G, j) == G[j].refcount = Cardinality(ClonesIn(G, j)) + SelfRef(G[j])
Counted(q) == q.set \in {"Used", "Freed"} /\ q.clone = 0

\* RefCountOK of this state and of the next, slot by slot.
LEMMA RefCountSplit ==
  /\ RefCountOK <=> \A j \in Slots : Counted(m_Handles[j]) => RefIn(m_Handles, j)
  /\ RefCountOK' <=> \A j \in Slots : Counted(m_Handles'[j]) => RefIn(m_Handles', j)
  BY DEF RefCountOK, Counted, RefIn, SelfRef, ClonesIn, Clones, InUse, Live

\* A master has finitely many clones.
LEMMA ClonesFinite ==
  ASSUME NEW G, NEW m
  PROVE  IsFiniteSet(ClonesIn(G, m)) /\ Cardinality(ClonesIn(G, m)) \in Nat
<1>1. IsFiniteSet(Slots)
  BY FS_Interval, TableAssumption DEF Slots
<1>2. ClonesIn(G, m) \in SUBSET Slots
  BY DEF ClonesIn
<1>3. IsFiniteSet(ClonesIn(G, m))
  BY <1>1, <1>2, FS_Subset
<1> QED
  BY <1>3, FS_CardinalityType

\* What CloneTargetOK says of the slots in use.
LEMMA CloneFacts ==
  ASSUME IInv, NEW j \in Slots, m_Handles[j].set # "None", m_Handles[j].clone # 0
  PROVE  LET m == m_Handles[j].clone IN
         /\ m_Handles[j].set = "Used" /\ m \in Slots /\ Live(m) /\ m_Handles[m].clone = 0
         /\ ~m_Handles[m].is_destroying /\ m # j /\ birth[m] < birth[j]
         /\ m_Handles[m].type = m_Handles[j].type /\ m_Handles[m].sec = m_Handles[j].sec
<1>1. m_Handles \in Tables
  BY DEF IInv, TypeOK, Tables
<1>2. m_Handles[j].clone \in Slots
  BY <1>1, IndexFacts, TableFacts
<1> QED
  BY <1>2 DEF IInv, CloneTargetOK, InUse

\* Making a handle, or a clone that adds its reference, keeps RefCountOK.
LEMMA RefMade ==
  ASSUME IInv, NEW i \in Slots, m_Handles[i].set = "None", NEW type, NEW o, NEW sec,
         NEW set \in {"Used", "Identity"}, NEW m \in Index, m # 0 => Live(m),
         Made(m_Handles', i, type, o, set, m, sec, m)
  PROVE  RefCountOK'
<1> DEFINE H == m_Handles
           G == m_Handles'
<1>1. \A j \in Slots : Counted(H[j]) => RefIn(H, j)
  BY RefCountSplit DEF IInv
<1>2. \A j \in Slots : j # i =>
         /\ G[j].set = H[j].set /\ G[j].clone = H[j].clone
         /\ G[j].is_destroying = H[j].is_destroying
         /\ H[j].set # "Identity" => G[j].refcount = H[j].refcount + IF j = m THEN 1 ELSE 0
  BY DEF Made, SameBody
<1>3. /\ G[i].set = set /\ G[i].clone = m /\ G[i].is_destroying = FALSE /\ G[i].refcount = 1
  BY TableFacts, IndexFacts DEF Made
<1>4. H[i].set = "None" /\ m # i
  BY IndexFacts DEF Live
<1>5. SUFFICES ASSUME NEW j \in Slots, Counted(G[j]) PROVE RefIn(G, j)
  BY RefCountSplit
<1>6. CASE j = i
  <2>1. ClonesIn(G, i) = {}
    <3> SUFFICES ASSUME NEW k \in Slots, G[k].set # "None", G[k].clone = i PROVE FALSE
      BY DEF ClonesIn
    <3>1. k # i
      BY <1>3, <1>4
    <3>2. H[k].set # "None" /\ H[k].clone = i /\ i # 0
      BY <1>2, <3>1, IndexFacts
    <3>3. Live(i)
      BY <3>2, CloneFacts
    <3> QED BY <3>3, <1>4 DEF Live
  <2>2. Cardinality(ClonesIn(G, i)) = 0
    BY <2>1, FS_EmptySet
  <2>3. G[i].set = "Used"
    BY <1>3, <1>5, <1>6 DEF Counted
  <2> QED BY <1>3, <1>6, <2>2, <2>3 DEF RefIn, SelfRef
<1>7. CASE j # i
  <2> DEFINE c == Cardinality(ClonesIn(H, j))
  <2>1. Counted(H[j]) /\ H[j].refcount = c + SelfRef(H[j]) /\ SelfRef(H[j]) = SelfRef(G[j])
    BY <1>1, <1>2, <1>5, <1>7 DEF Counted, RefIn, SelfRef
  <2>2. IsFiniteSet(ClonesIn(H, j)) /\ c \in Nat
    BY ClonesFinite
  <2>3. CASE j = m
    <3>1. ClonesIn(G, j) = ClonesIn(H, j) \cup {i} /\ i \notin ClonesIn(H, j)
      BY <1>2, <1>3, <1>4, <2>3 DEF ClonesIn
    <3>2. Cardinality(ClonesIn(G, j)) = c + 1
      BY <2>2, <3>1, FS_AddElement
    <3>3. G[j].refcount = H[j].refcount + 1
      BY <1>2, <1>7, <2>1, <2>3 DEF Counted
    <3> QED BY <2>1, <2>2, <3>2, <3>3 DEF RefIn, SelfRef
  <2>4. CASE j # m
    <3>1. ClonesIn(G, j) = ClonesIn(H, j)
      BY <1>2, <1>3, <1>4, <2>4 DEF ClonesIn
    <3>2. G[j].refcount = H[j].refcount
      <4>1. H[j].refcount \in Int
        BY TableFacts, IndexFacts DEF IInv, TypeOK, Tables
      <4> QED BY <4>1, <1>2, <1>7, <2>1, <2>4 DEF Counted
    <3> QED BY <2>1, <3>1, <3>2 DEF RefIn
  <2> QED BY <2>3, <2>4
<1> QED
  BY <1>6, <1>7

\* Closing a clone takes it and its reference away together.
LEMMA RefFreedClone ==
  ASSUME IInv, NEW i \in Slots, NEW m \in Slots, m # i, m_Handles[i].clone = m,
         m_Handles[i].set # "None", FreedClone(m_Handles', i, m)
  PROVE  RefCountOK'
<1> DEFINE H == m_Handles
           G == m_Handles'
<1>1. \A j \in Slots : Counted(H[j]) => RefIn(H, j)
  BY RefCountSplit DEF IInv
<1>2. \A j \in Slots :
         /\ G[j].set = IF j = i THEN "None" ELSE H[j].set
         /\ G[j].clone = H[j].clone
         /\ j \notin {i, m} => G[j].is_destroying = H[j].is_destroying
         /\ H[j].set # "Identity" =>
              G[j].refcount = IF j = m THEN H[m].refcount - 1 ELSE H[j].refcount
  BY DEF FreedClone, SameBody
<1>3. G[m].is_destroying = (H[m].refcount = 1)
  BY DEF FreedClone
<1>4. Live(m) /\ H[m].clone = 0 /\ ~H[m].is_destroying /\ m # 0
  BY CloneFacts, IndexFacts
<1>5. SUFFICES ASSUME NEW j \in Slots, Counted(G[j]) PROVE RefIn(G, j)
  BY RefCountSplit
<1>6. j # i /\ Counted(H[j])
  BY <1>2, <1>5 DEF Counted
<1> DEFINE c == Cardinality(ClonesIn(H, j))
<1>7. IsFiniteSet(ClonesIn(H, j)) /\ c \in Nat
  BY ClonesFinite
<1>8. H[j].refcount = c + SelfRef(H[j])
  BY <1>1, <1>6 DEF RefIn
<1>9. CASE j = m
  <2>1. ClonesIn(G, j) = ClonesIn(H, j) \ {i} /\ i \in ClonesIn(H, j)
    BY <1>2, <1>9 DEF ClonesIn
  <2>2. Cardinality(ClonesIn(G, j)) = c - 1
    BY <1>7, <2>1, FS_RemoveElement
  <2>3. G[j].refcount = H[j].refcount - 1
    BY <1>2, <1>6, <1>9 DEF Counted
  <2>4. c >= 1
    <3>1. Cardinality(ClonesIn(G, j)) \in Nat
      BY ClonesFinite
    <3> QED BY <1>7, <2>2, <3>1
  <2>5. G[j].set = H[j].set
    BY <1>2, <1>6
  <2>6. SelfRef(G[j]) = SelfRef(H[j])
    <3>1. CASE H[m].refcount = 1
      <4>1. SelfRef(H[j]) = 0
        BY <3>1, <1>7, <1>8, <1>9, <2>4 DEF SelfRef
      <4>2. H[j].set # "Used"
        BY <4>1, <1>4, <1>9 DEF SelfRef
      <4> QED BY <4>1, <4>2, <2>5 DEF SelfRef
    <3>2. CASE H[m].refcount # 1
      BY <3>2, <1>3, <1>4, <1>9, <2>5 DEF SelfRef
    <3> QED BY <3>1, <3>2
  <2>7. SelfRef(H[j]) \in Int
    BY DEF SelfRef
  <2> QED BY <1>7, <1>8, <2>2, <2>3, <2>6, <2>7 DEF RefIn
<1>10. CASE j # m
  <2>1. ClonesIn(G, j) = ClonesIn(H, j)
    BY <1>2, <1>10 DEF ClonesIn
  <2>2. G[j].refcount = H[j].refcount /\ SelfRef(G[j]) = SelfRef(H[j])
    BY <1>2, <1>6, <1>10 DEF Counted, SelfRef
  <2> QED BY <1>8, <2>1, <2>2 DEF RefIn
<1> QED
  BY <1>9, <1>10

\* A step that touches the count of no slot but i, and clones nothing.
LEMMA RefOthers ==
  ASSUME IInv, NEW i \in Slots,
         \A j \in Slots : m_Handles'[j].clone = m_Handles[j].clone,
         \A j \in Slots : m_Handles[j].clone # 0 => m_Handles'[j].set = m_Handles[j].set,
         \A j \in Slots : j # i =>
           /\ m_Handles'[j].set = m_Handles[j].set
           /\ m_Handles'[j].is_destroying = m_Handles[j].is_destroying
           /\ m_Handles[j].set # "Identity" => m_Handles'[j].refcount = m_Handles[j].refcount,
         Counted(m_Handles'[i]) => m_Handles'[i].refcount =
           Cardinality(ClonesIn(m_Handles, i)) + SelfRef(m_Handles'[i])
  PROVE  RefCountOK'
<1> DEFINE H == m_Handles
           G == m_Handles'
<1>1. \A j \in Slots : Counted(H[j]) => RefIn(H, j)
  BY RefCountSplit DEF IInv
<1>2. SUFFICES ASSUME NEW j \in Slots, Counted(G[j]) PROVE RefIn(G, j)
  BY RefCountSplit
<1>3. ClonesIn(G, j) = ClonesIn(H, j)
  BY IndexFacts DEF ClonesIn
<1>4. CASE j = i
  BY <1>2, <1>3, <1>4 DEF RefIn
<1>5. CASE j # i
  <2>1. Counted(H[j]) /\ G[j].refcount = H[j].refcount /\ SelfRef(G[j]) = SelfRef(H[j])
    BY <1>2, <1>5 DEF Counted, SelfRef
  <2> QED BY <1>1, <1>3, <2>1 DEF RefIn
<1> QED
  BY <1>4, <1>5

-----------------------------------------------------------------------------
(* Owner chains of the next state.                                         *)

\* The chain of t is untouched by a step that leaves its handles' links alone.
LEMMA ChainKept ==
  ASSUME IInv, NEW G, NEW b, NEW t \in Tokens \ {Root}, HasIdentity(t),
         \A j \in Slots : Owns(G, t, j) <=> Owns(m_Handles, t, j),
         \A j \in Slots : j = ident[t].index \/ Owns(m_Handles, t, j) =>
           /\ G[j].ch_next = m_Handles[j].ch_next /\ G[j].ch_prev = m_Handles[j].ch_prev
           /\ j # ident[t].index => b[j] = birth[j]
  PROVE  ChainOK(G, b, t, ident[t].index)
<1> DEFINE H == m_Handles
           d == ident[t].index
<1>1. ChainOK(H, birth, t, d)
  BY DEF IInv, OwnerChainOK
<1>2. d \in Slots /\ H[d].set = "Identity" /\ H \in Tables
  <2>1. d \in 1..m_HandleTail /\ H[d].set = "Identity" /\ m_HandleTail \in Index /\ H \in Tables
    BY DEF IInv, IdentitiesOK, TypeOK, Tables
  <2> HIDE DEF d
  <2> QED BY <2>1, TableAssumption DEF Slots, Index
<1>3. \A j \in Index : Owns(H, t, j) => j \in Slots /\ j # d
  BY <1>2, IndexFacts DEF Owns
<1>4. \A j \in Index : Owns(G, t, j) => j \in Slots
  BY IndexFacts DEF Owns
<1>5. \A j \in Slots : H[j].ch_next \in Index /\ H[j].ch_prev \in Index /\ j \in Index
  BY <1>2, IndexFacts, TableFacts
<1>6. G[d].ch_next = H[d].ch_next /\ G[d].ch_prev = H[d].ch_prev
  BY <1>2
<1>7. \A j \in Slots : Owns(H, t, j) =>
        G[j].ch_next = H[j].ch_next /\ G[j].ch_prev = H[j].ch_prev /\ b[j] = birth[j]
  BY <1>3, <1>5
<1> HIDE DEF d
<1>8. /\ H[d].ch_prev = 0 <=> H[d].ch_next = 0
      /\ H[d].ch_prev # 0 => Owns(H, t, H[d].ch_prev) /\ H[H[d].ch_prev].ch_prev = 0
      /\ H[d].ch_next # 0 => Owns(H, t, H[d].ch_next) /\ H[H[d].ch_next].ch_next = 0
  BY <1>1 DEF ChainOK
<1>9. /\ G[d].ch_prev = 0 <=> G[d].ch_next = 0
      /\ G[d].ch_prev # 0 => Owns(G, t, G[d].ch_prev) /\ G[G[d].ch_prev].ch_prev = 0
      /\ G[d].ch_next # 0 => Owns(G, t, G[d].ch_next) /\ G[G[d].ch_next].ch_next = 0
  BY <1>2, <1>3, <1>5, <1>6, <1>7, <1>8
<1>10. ASSUME NEW j \in Slots, Owns(G, t, j)
       PROVE  LET next == G[j].ch_next
                  prev == G[j].ch_prev
              IN  /\ next = 0 => j = G[d].ch_next
                  /\ next # 0 => Owns(G, t, next) /\ G[next].ch_prev = j /\ b[j] < b[next]
                  /\ prev = 0 => j = G[d].ch_prev
                  /\ prev # 0 => Owns(G, t, prev) /\ G[prev].ch_next = j
  <2> DEFINE next == H[j].ch_next
             prev == H[j].ch_prev
  <2>1. /\ Owns(H, t, j) /\ G[j].ch_next = next /\ G[j].ch_prev = prev /\ b[j] = birth[j]
    BY <1>7, <1>10
  <2>2. /\ next = 0 => j = H[d].ch_next
        /\ next # 0 => Owns(H, t, next) /\ H[next].ch_prev = j /\ birth[j] < birth[next]
        /\ prev = 0 => j = H[d].ch_prev
        /\ prev # 0 => Owns(H, t, prev) /\ H[prev].ch_next = j
    BY <1>1, <2>1 DEF ChainOK
  <2>3. next \in Index /\ prev \in Index
    BY <1>5
  <2> HIDE DEF next, prev
  <2> QED BY <1>3, <1>6, <1>7, <2>1, <2>2, <2>3
<1> QED
  BY <1>9, <1>10 DEF ChainOK, d

\* Making a handle keeps every chain in order; the new one is the youngest.
LEMMA ChainMade ==
  ASSUME IInv, NEW i \in Slots, m_Handles[i].set = "None", NEW G, NEW type, NEW o, NEW sec,
         NEW set \in {"Used", "Identity"}, NEW m, NEW r, Made(G, i, type, o, set, m, sec, r),
         set = "Identity" => o = Root, o # NULL /\ set # "Identity" => o \in Tokens \ {Root} /\ HasIdentity(o),
         NEW b, b = [birth EXCEPT ![i] = Len(issued) + 1],
         NEW t \in Tokens \ {Root}, HasIdentity(t)
  PROVE  ChainOK(G, b, t, ident[t].index)
<1> DEFINE H == m_Handles
           d == ident[t].index
           link == o # NULL /\ set # "Identity"
<1>0. /\ H \in Tables /\ t # NULL /\ birth \in [Index -> 0..MaxMade] /\ Len(issued) \in Nat
      /\ \A j \in Slots : birth[j] <= Len(issued)
  <2>1. H \in Tables /\ birth \in [Index -> 0..MaxMade] /\ issued \in Seq(Handle_t)
    BY DEF IInv, TypeOK, Tables
  <2>2. Len(issued) \in Nat
    BY <2>1
  <2>3. \A j \in Slots : birth[j] <= Len(issued)
    BY DEF IInv, IssuedOK
  <2> QED BY <2>1, <2>2, <2>3, TableAssumption
<1>1. b[i] = Len(issued) + 1 /\ \A j \in Slots : j # i => b[j] = birth[j]
  BY <1>0, IndexFacts
<1>2. \A j \in Slots : j # i => G[j].set = H[j].set /\ G[j].owner = H[j].owner
  BY DEF Made
<1>3. G[i].set = set /\ G[i].owner = o
  BY DEF Made
<1>4. /\ d \in Slots /\ H[d].set = "Identity" /\ d # i
  <2>1. d \in 1..m_HandleTail /\ H[d].set = "Identity" /\ m_HandleTail \in Index
    BY DEF IInv, IdentitiesOK, TypeOK
  <2>2. d # i
    BY <2>1
  <2> HIDE DEF d
  <2> QED BY <2>1, <2>2, TableAssumption DEF Slots, Index
<1>5. Attached(G, i, o, link)
  BY DEF Made
<1>6. \A j \in Index : Owns(H, t, j) => j \in Slots /\ j # i /\ j # d
  BY <1>4, IndexFacts DEF Owns
<1>7. ChainOK(H, birth, t, d)
  BY DEF IInv, OwnerChainOK
<1>8. CASE ~(link /\ o = t)
  <2>1. \A j \in Slots : Owns(G, t, j) <=> Owns(H, t, j)
    BY <1>2, <1>3, <1>8, <1>0 DEF Owns
  <2>2. ASSUME NEW j \in Slots, j = d \/ Owns(H, t, j)
        PROVE  G[j].ch_next = H[j].ch_next /\ G[j].ch_prev = H[j].ch_prev
    <3>1. j # i
      BY <2>2, <1>4, <1>6, IndexFacts
    <3>2. CASE ~link
      BY <3>1, <3>2, <1>5 DEF Attached
    <3>3. CASE link
      <4>1. o \in Tokens \ {Root} /\ HasIdentity(o) /\ o # t
        BY <3>3, <1>8
      <4>2. j # ident[o].index
        BY <2>2, <4>1 DEF IInv, IdentitiesOK, Owns
      <4>3. H[ident[o].index].ch_next = 0 \/ Owns(H, o, H[ident[o].index].ch_next)
        BY <4>1 DEF IInv, OwnerChainOK, ChainOK
      <4>4. j # H[ident[o].index].ch_next
        BY <2>2, <4>1, <4>3, <1>4, IndexFacts DEF Owns
      <4> QED BY <3>1, <4>2, <4>4, <1>5 DEF Attached
    <3> QED BY <3>2, <3>3
  <2>3. \A j \in Slots : j = d \/ Owns(H, t, j) =>
           /\ G[j].ch_next = H[j].ch_next /\ G[j].ch_prev = H[j].ch_prev
           /\ j # d => b[j] = birth[j]
    BY <2>2, <1>1, <1>6, IndexFacts
  <2> HIDE DEF link
  <2> QED BY <2>1, <2>3, ChainKept
<1>9. CASE link /\ o = t
  <2> DEFINE tail == H[d].ch_next
             head == H[d].ch_prev
  <2>1. tail \in Index /\ head \in Index /\ i # 0 /\ i \in Index
    BY <1>0, <1>4, TableFacts, IndexFacts
  <2>2. /\ head = 0 <=> tail = 0
        /\ head # 0 => Owns(H, t, head) /\ H[head].ch_prev = 0
        /\ tail # 0 => Owns(H, t, tail) /\ H[tail].ch_next = 0
    BY <1>7 DEF ChainOK
  <2>3. \A j \in Slots : Owns(H, t, j) =>
           /\ H[j].ch_next = 0 => j = tail
           /\ H[j].ch_next # 0 => /\ Owns(H, t, H[j].ch_next) /\ H[H[j].ch_next].ch_prev = j
                                  /\ birth[j] < birth[H[j].ch_next]
           /\ H[j].ch_prev = 0 => j = head
           /\ H[j].ch_prev # 0 => Owns(H, t, H[j].ch_prev) /\ H[H[j].ch_prev].ch_next = j
    BY <1>7 DEF ChainOK
  <2>4. \A j \in Slots :
          /\ G[j].ch_next = IF j \in {d, tail} THEN i
                            ELSE IF j = i THEN 0 ELSE H[j].ch_next
          /\ G[j].ch_prev = IF j = d /\ head = 0 THEN i
                            ELSE IF j = i THEN tail ELSE H[j].ch_prev
    BY <1>5, <1>9 DEF Attached
  <2>5. \A j \in Slots : H[j].ch_next \in Index /\ H[j].ch_prev \in Index /\ j \in Index /\ j # 0
    BY <1>0, IndexFacts, TableFacts
  <2>6. \A j \in Index : Owns(G, t, j) <=> Owns(H, t, j) \/ j = i
    BY <1>2, <1>3, <1>6, <1>9, <2>1, IndexFacts DEF Owns
  <2> HIDE DEF d, head, tail, link
  <2>7. G[d].ch_next = i /\ G[d].ch_prev = IF head = 0 THEN i ELSE head
    BY <1>4, <2>4, <2>5 DEF head
  <2>8. tail # i /\ head # i /\ tail # d /\ head # d
    BY <1>4, <1>6, <2>1, <2>2, <2>5
  <2>9. G[i].ch_next = 0 /\ G[i].ch_prev = tail
    BY <1>4, <2>4, <2>8
  <2>10. G[d].ch_prev # 0 /\ Owns(G, t, G[d].ch_prev) /\ G[G[d].ch_prev].ch_prev = 0
    <3>1. CASE head = 0
      BY <3>1, <2>1, <2>2, <2>6, <2>7, <2>9
    <3>2. CASE head # 0
      BY <3>2, <1>6, <2>1, <2>2, <2>4, <2>6, <2>7, <2>8
    <3> QED BY <3>1, <3>2
  <2>11. ASSUME NEW j \in Slots, Owns(G, t, j)
         PROVE  /\ G[j].ch_next = 0 => j = i
                /\ G[j].ch_next # 0 => /\ Owns(G, t, G[j].ch_next)
                                       /\ G[G[j].ch_next].ch_prev = j
                                       /\ b[j] < b[G[j].ch_next]
    <3>1. CASE j = i
      BY <3>1, <2>9
    <3>2. CASE j = tail
      <4>1. G[j].ch_next = i /\ G[i].ch_prev = j /\ j # i
        BY <3>2, <2>4, <2>8, <2>9
      <4>2. b[j] < b[i]
        <5>1. b[j] = birth[j] /\ b[i] = Len(issued) + 1 /\ birth[j] \in 0..MaxMade
          BY <1>0, <1>1, <4>1, <2>5
        <5> QED BY <5>1, <1>0
      <4> QED BY <4>1, <4>2, <2>1, <2>6
    <3>3. CASE j # i /\ j # tail
      <4>1. Owns(H, t, j) /\ j # d
        BY <2>5, <2>6, <2>11, <3>3, <1>6
      <4>2. G[j].ch_next = H[j].ch_next
        BY <3>3, <4>1, <2>4
      <4>3. H[j].ch_next # 0 /\ H[j].ch_next \in Index
        BY <4>1, <3>3, <2>3, <2>5
      <4>4. /\ Owns(H, t, H[j].ch_next) /\ H[H[j].ch_next].ch_prev = j
            /\ birth[j] < birth[H[j].ch_next]
        BY <4>1, <4>3, <2>3
      <4>5. H[j].ch_next \in Slots /\ H[j].ch_next # i /\ H[j].ch_next # d
        BY <4>3, <4>4, <1>6
      <4> QED BY <3>3, <4>1, <4>2, <4>3, <4>4, <4>5, <2>4, <2>6, <1>1
    <3> QED BY <3>1, <3>2, <3>3
  <2>12. ASSUME NEW j \in Slots, Owns(G, t, j)
         PROVE  /\ G[j].ch_prev = 0 => j = G[d].ch_prev
                /\ G[j].ch_prev # 0 => /\ Owns(G, t, G[j].ch_prev)
                                       /\ G[G[j].ch_prev].ch_next = j
    <3>1. CASE j = i
      <4>1. CASE tail = 0
        BY <3>1, <4>1, <2>2, <2>7, <2>9
      <4>2. CASE tail # 0
        BY <3>1, <4>2, <1>6, <2>1, <2>2, <2>4, <2>6, <2>9
      <4> QED BY <4>1, <4>2
    <3>2. CASE j # i
      <4>1. Owns(H, t, j) /\ j # d /\ G[j].ch_prev = H[j].ch_prev
        BY <2>4, <2>5, <2>6, <2>12, <3>2, <1>6
      <4>2. CASE H[j].ch_prev = 0
        BY <4>1, <4>2, <2>3, <2>5, <2>7
      <4>3. CASE H[j].ch_prev # 0
        <5>1. H[j].ch_prev \in Index /\ Owns(H, t, H[j].ch_prev) /\ H[H[j].ch_prev].ch_next = j
          BY <4>1, <4>3, <2>3, <2>5
        <5>2. H[j].ch_prev \in Slots /\ H[j].ch_prev # i /\ H[j].ch_prev # d
          BY <5>1, <1>6
        <5>3. H[j].ch_prev # tail
          BY <5>1, <2>2, <2>5, <4>3
        <5> QED BY <4>1, <4>3, <5>1, <5>2, <5>3, <2>4, <2>6
      <4> QED BY <4>2, <4>3
    <3> QED BY <3>1, <3>2
  <2>13. G[d].ch_next # 0 /\ Owns(G, t, G[d].ch_next) /\ G[G[d].ch_next].ch_next = 0
    BY <2>1, <2>6, <2>7, <2>9
  <2> QED
    BY <2>7, <2>10, <2>11, <2>12, <2>13 DEF ChainOK, d
<1> QED
  BY <1>8, <1>9

-----------------------------------------------------------------------------
(* The operations preserve IInv.                                           *)

\* The parts of TypeOK, ready to cite.
LEMMA NumFacts ==
  ASSUME IInv
  PROVE  /\ m_FreeHandles \in Nat /\ m_HandleTail \in Nat /\ m_HandleTail <= MaxHandles
         /\ m_HSerial \in 1..(MaxSerials - 1)
         /\ Len(issued) \in Nat /\ Len(issued) <= MaxMade
<1>1. m_FreeHandles \in Index /\ m_HandleTail \in Index
  BY DEF IInv, TypeOK
<1>2. m_FreeHandles \in Nat /\ m_HandleTail \in Nat /\ m_HandleTail <= MaxHandles
  BY <1>1, TableAssumption DEF Index
<1>3. issued \in Seq(Handle_t)
  BY DEF IInv, TypeOK
<1>4. Len(issued) \in Nat
  BY <1>3
<1>5. m_HSerial \in 1..(MaxSerials - 1) /\ Len(issued) <= MaxMade
  BY DEF IInv, TypeOK
<1> QED
  BY <1>2, <1>4, <1>5

\* The structured variables, from TypeOK.
LEMMA TypeFacts ==
  ASSUME IInv
  PROVE  /\ m_Handles \in Tables /\ freeID \in [Index -> Index]
         /\ tokens \in SUBSET Tokens /\ ident \in [Tokens -> Handle_t]
         /\ stack \in Seq(Frame) /\ issued \in Seq(Handle_t)
         /\ birth \in [Index -> 0..MaxMade]
  BY DEF IInv, TypeOK, Tables

\* The per-type and per-owner counters, from TypeOK.
LEMMA CountFacts ==
  ASSUME IInv
  PROVE  opened \in [AllTypes -> Int] /\ num_handles \in [Tokens -> Nat]
  BY DEF IInv, TypeOK

\* The birth of a slot is one of the creations so far.
LEMMA BirthFacts ==
  ASSUME IInv, NEW j \in Slots
  PROVE  birth[j] \in Nat /\ birth[j] <= Len(issued) /\ birth[j] <= MaxMade
<1>1. birth[j] \in 0..MaxMade
  BY TypeFacts, IndexFacts
<1>2. birth[j] <= Len(issued)
  BY DEF IInv, IssuedOK
<1> HIDE DEF IInv
<1> QED
  BY <1>1, <1>2, TableAssumption

\* The frames of unfinished frees.
LEMMA FrameFacts ==
  ASSUME IInv, NEW k \in 1..Len(stack)
  PROVE  LET f == stack[k]
             q == m_Handles[f.index]
         IN  /\ f \in Frame /\ f.index \in Slots /\ f.index <= m_HandleTail
             /\ f.token \in Tokens \cup {NULL} /\ q.is_destroying
             /\ IF f.pc = "ReleaseIdentity"
                THEN /\ q.set = "Identity" /\ k = 1 /\ f.token \in Idents
                     /\ ident[f.token].index = f.index /\ HasIdentity(f.token)
                ELSE Live(f.index) /\ q.clone = 0 /\ q.refcount = 0
             /\ f.index # 1
<1> DEFINE f == stack[k]
<1>1. stack \in Seq(Frame)
  BY TypeFacts
<1>2. f \in Frame
  BY <1>1
<1>3. f.index \in Slots /\ f.token \in Tokens \cup {NULL}
  BY <1>2 DEF Frame
<1>4. /\ f.index <= m_HandleTail /\ m_Handles[f.index].is_destroying
      /\ IF f.pc = "ReleaseIdentity"
         THEN /\ m_Handles[f.index].set = "Identity"
              /\ k = 1 /\ f.token \in Idents
              /\ ident[f.token].index = f.index
         ELSE Live(f.index) /\ m_Handles[f.index].clone = 0 /\ m_Handles[f.index].refcount = 0
  BY DEF IInv, StackOK
<1>5. f.pc = "ReleaseIdentity" => HasIdentity(f.token)
  BY <1>3, <1>4, IndexFacts DEF HasIdentity, NoHandle
<1>6. f.index # 1
  BY <1>4 DEF IInv, IssuedOK
<1> QED
  BY <1>2, <1>3, <1>4, <1>5, <1>6

\* Where the identity handles are.
LEMMA IdentityFacts ==
  ASSUME IInv, NEW t \in Tokens, HasIdentity(t)
  PROVE  LET d == ident[t].index IN
         /\ d \in Slots /\ d \in 1..m_HandleTail /\ t \in tokens
         /\ m_Handles[d].serial = ident[t].serial
         /\ m_Handles[d].set = IF t = Root THEN "Used" ELSE "Identity"
         /\ d = 1 <=> t = Root
<1> DEFINE d == ident[t].index
<1>1. /\ t \in tokens /\ d \in 1..m_HandleTail /\ m_Handles[d].serial = ident[t].serial
      /\ m_Handles[d].set = IF t = Root THEN "Used" ELSE "Identity"
  BY DEF IInv, IdentitiesOK
<1>2. d = 1 <=> t = Root
  <2>1. ident[Root].index = 1 /\ HasIdentity(Root) /\ Root \in Tokens
    BY DEF IInv, IssuedOK, IdentitiesOK, Tokens
  <2> QED BY <2>1 DEF IInv, IdentitiesOK
<1>3. d \in Slots
  <2> HIDE DEF d
  <2> QED BY <1>1, NumFacts, TableAssumption DEF Slots
<1> QED
  BY <1>1, <1>2, <1>3

\* The parts of IInv that do not depend on who asked for the new handle.
LEMMA MadeCommon ==
  ASSUME IInv, NEW type \in AllTypes, NEW o \in Tokens \cup {NULL}, NEW sec,
         NEW set \in {"Used", "Identity"}, NEW m \in Index,
         m # 0 => /\ Live(m) /\ m_Handles[m].clone = 0 /\ ~m_Handles[m].is_destroying
                  /\ m_Handles[m].type = type /\ m_Handles[m].sec = sec /\ m # 1
                  /\ set = "Used",
         MakePrimHandle(type, o),
         Made(m_Handles', TryAllocHandle, type, o, set, m, sec, m)
  PROVE  /\ FreeListOK' /\ RefCountOK' /\ CloneTargetOK'
         /\ m_Handles' \in Tables /\ m_HandleTail' \in Index /\ m_FreeHandles' \in Index
         /\ m_HandleTail <= m_HandleTail' /\ TryAllocHandle <= m_HandleTail'
         /\ m_HandleTail' \in Nat
         /\ m_HSerial' \in 1..(MaxSerials - 1) /\ opened' \in [AllTypes -> Int]
         /\ num_handles' \in [Tokens -> Nat] /\ issued' \in Seq(Handle_t)
         /\ Len(issued') = Len(issued) + 1 /\ Len(issued') <= MaxMade
         /\ birth' \in [Index -> 0..MaxMade]
         /\ freeID' = freeID /\ stack' = stack
         /\ \A n \in 2..Len(issued') : issued'[n].index \in 2..m_HandleTail'
         /\ \A j \in Slots : birth'[j] <= Len(issued') /\ m_Handles'[j].clone # 1
         /\ TryAllocHandle # 1 /\ [index |-> TryAllocHandle, serial |-> NextSerial] \in Handle_t
<1> DEFINE H == m_Handles
           G == m_Handles'
           i == TryAllocHandle
           h == [index |-> i, serial |-> NextSerial]
<1>0. /\ ~AtLimit /\ Len(issued) < MaxMade
      /\ m_HandleTail'  = IF m_FreeHandles = 0 THEN i ELSE m_HandleTail
      /\ m_FreeHandles' = IF m_FreeHandles = 0 THEN 0 ELSE m_FreeHandles - 1
      /\ m_HSerial' = NextSerial
      /\ opened' = [opened EXCEPT ![type] = @ + 1]
      /\ num_handles' = [t \in Tokens |-> num_handles[t] + IF t = o THEN 1 ELSE 0]
      /\ issued' = Append(issued, h)
      /\ birth' = [birth EXCEPT ![i] = Len(issued) + 1]
      /\ freeID' = freeID /\ stack' = stack
  BY DEF MakePrimHandle
<1>1. i \in Slots /\ H[i].set = "None"
  BY <1>0, AllocFacts
<1>2. \A j \in Slots : j # i =>
        /\ SameBody(G[j], H[j]) /\ G[j].set = H[j].set
        /\ G[j].is_destroying = H[j].is_destroying
  BY DEF Made
<1>3. /\ G[i].set = set /\ G[i].clone = m /\ G[i].type = type /\ G[i].sec = sec
      /\ ~G[i].is_destroying /\ G \in Tables
  BY DEF Made
<1>4. RefCountOK'
  BY <1>1, RefMade
<1>5. /\ FreeListOK' /\ m_FreeHandles' \in Index /\ m_HandleTail' \in Index
      /\ m_HandleTail <= m_HandleTail' /\ i <= m_HandleTail'
  BY <1>0, <1>1, <1>2, <1>3, FreePop
<1>6. i # 1
  <2>1. HasIdentity(Root) /\ ident[Root].index = 1 /\ Root \in Tokens
    BY DEF IInv, IdentitiesOK, IssuedOK, Tokens
  <2>2. m_Handles[1].set = "Used"
    BY <2>1, IdentityFacts
  <2> QED BY <1>1, <2>2
<1>7. NextSerial \in 1..(MaxSerials - 1)
  BY NumFacts, TableAssumption DEF NextSerial
<1>8. h \in Handle_t
  <2>1. i \in Index /\ NextSerial \in 0..(MaxSerials - 1)
    BY <1>1, <1>7, IndexFacts, TableAssumption
  <2> QED BY <2>1 DEF Handle_t
<1>9. /\ issued' \in Seq(Handle_t) /\ Len(issued') = Len(issued) + 1 /\ Len(issued') <= MaxMade
      /\ \A n \in 1..Len(issued) : issued'[n] = issued[n]
      /\ issued'[Len(issued) + 1] = h
  <2> HIDE DEF h, i
  <2>1. issued \in Seq(Handle_t) /\ Len(issued) \in Nat /\ Len(issued) <= MaxMade
    BY TypeFacts, NumFacts
  <2>2. issued' = Append(issued, h) /\ Len(issued) < MaxMade
    BY <1>0
  <2> QED BY <2>1, <2>2, <1>8, TableAssumption
<1>10. /\ birth' \in [Index -> 0..MaxMade] /\ birth'[i] = Len(issued) + 1
       /\ \A j \in Slots : j # i => birth'[j] = birth[j]
  <2>1. Len(issued) < MaxMade
    BY <1>0
  <2>2. Len(issued) + 1 \in 0..MaxMade
    BY <2>1, NumFacts, TableAssumption
  <2>3. birth \in [Index -> 0..MaxMade]
    BY TypeFacts
  <2> HIDE DEF i
  <2> QED BY <1>0, <1>1, <2>2, <2>3, IndexFacts
<1>11. opened' \in [AllTypes -> Int]
  <2>1. opened' = [opened EXCEPT ![type] = @ + 1]
    BY <1>0
  <2> QED BY <2>1, CountFacts
<1>12. num_handles' \in [Tokens -> Nat]
  <2>1. num_handles' = [t \in Tokens |-> num_handles[t] + IF t = o THEN 1 ELSE 0]
    BY <1>0
  <2> QED BY <2>1, CountFacts
<1>13. CloneTargetOK'
  <2> SUFFICES ASSUME NEW j \in Slots, G[j].set # "None", G[j].clone # 0
               PROVE  LET c == G[j].clone IN
                      /\ G[j].set = "Used"
                      /\ G[c].set \in {"Used", "Freed"} /\ G[c].clone = 0
                      /\ ~G[c].is_destroying /\ birth'[c] < birth'[j]
                      /\ G[c].type = G[j].type /\ G[c].sec = G[j].sec
    BY DEF CloneTargetOK, InUse, Live
  <2>1. CASE j = i
    <3>1. m # 0 /\ m \in Slots /\ m # i
      BY <2>1, <1>1, <1>3, IndexFacts DEF Live
    <3>2. birth'[m] < birth'[i]
      <4>1. birth[m] <= Len(issued) /\ birth[m] \in Nat /\ Len(issued) \in Nat
        BY <3>1, NumFacts, BirthFacts
      <4>2. birth'[m] = birth[m] /\ birth'[i] = Len(issued) + 1
        BY <3>1, <1>10
      <4> QED BY <4>1, <4>2
    <3>3. /\ G[m].set = H[m].set /\ G[m].clone = H[m].clone /\ G[m].type = H[m].type
          /\ G[m].sec = H[m].sec /\ G[m].is_destroying = H[m].is_destroying
      BY <3>1, <1>2 DEF SameBody
    <3> HIDE DEF i
    <3> QED BY <2>1, <3>1, <3>2, <3>3, <1>3 DEF Live
  <2>2. CASE j # i
    <3> DEFINE c == H[j].clone
    <3>1. G[j].clone = c /\ G[j].set = H[j].set /\ G[j].type = H[j].type /\ G[j].sec = H[j].sec
      BY <2>2, <1>2 DEF SameBody
    <3>2. /\ H[j].set = "Used" /\ c \in Slots /\ Live(c) /\ H[c].clone = 0
          /\ ~H[c].is_destroying /\ birth[c] < birth[j]
          /\ H[c].type = H[j].type /\ H[c].sec = H[j].sec
      BY <3>1, CloneFacts
    <3>3. c # i
      BY <3>2, <1>1 DEF Live
    <3>4. /\ G[c].set = H[c].set /\ G[c].clone = H[c].clone /\ G[c].type = H[c].type
          /\ G[c].sec = H[c].sec /\ G[c].is_destroying = H[c].is_destroying
      BY <3>2, <3>3, <1>2 DEF SameBody
    <3> HIDE DEF i, c
    <3> QED BY <2>2, <3>1, <3>2, <3>3, <3>4, <1>10 DEF Live
  <2> QED BY <2>1, <2>2
<1>14. \A n \in 2..Len(issued') : issued'[n].index \in 2..m_HandleTail'
  <2>1. \A n \in 2..Len(issued) : issued[n].index \in 2..m_HandleTail
    BY DEF IInv, IssuedOK
  <2>2. m_HandleTail' \in Nat /\ i \in 2..m_HandleTail'
    BY <1>1, <1>5, <1>6, TableAssumption DEF Slots, Index
  <2>3. h.index = i
    OBVIOUS
  <2> HIDE DEF h, i
  <2>4. SUFFICES ASSUME NEW n \in 2..Len(issued') PROVE issued'[n].index \in 2..m_HandleTail'
    OBVIOUS
  <2>5. CASE n = Len(issued) + 1
    BY <2>2, <2>3, <2>5, <1>9
  <2>6. CASE n # Len(issued) + 1
    <3>1. n \in 2..Len(issued) /\ n \in 1..Len(issued)
      <4>1. Len(issued') = Len(issued) + 1
        BY <1>9
      <4> QED BY <4>1, <2>4, <2>6, NumFacts
    <3>2. issued'[n].index \in 2..m_HandleTail
      BY <3>1, <2>1, <1>9
    <3>3. m_HandleTail <= m_HandleTail'
      BY <1>5
    <3> HIDE DEF IInv
    <3> QED BY <3>2, <3>3, <2>2, NumFacts
  <2> QED BY <2>5, <2>6
<1>15. \A j \in Slots : birth'[j] <= Len(issued') /\ G[j].clone # 1
  <2> TAKE j \in Slots
  <2>1. H[j].clone # 1
    BY DEF IInv, IssuedOK
  <2>2. birth'[j] <= Len(issued')
    <3>1. Len(issued') = Len(issued) + 1
      BY <1>9
    <3>2. birth'[j] = IF j = i THEN Len(issued) + 1 ELSE birth[j]
      BY <1>10
    <3> HIDE DEF i
    <3> QED BY <3>1, <3>2, NumFacts, BirthFacts
  <2>3. G[j].clone # 1
    BY <2>1, <1>2, <1>3 DEF SameBody
  <2> QED BY <2>2, <2>3
<1>16. m_HandleTail' \in Nat
  BY <1>5, TableAssumption DEF Index
<1> QED
  BY <1>0, <1>3, <1>4, <1>5, <1>6, <1>7, <1>8, <1>9, <1>10, <1>11, <1>12, <1>13, <1>14,
     <1>15, <1>16

Lives == [1..MaxMade -> {"none", "live", "destroyed", "destroyed twice"}]

\* Slot m may be cloned into a handle of that type and those access rules.
MayClone(m, type, sec) ==
  /\ Live(m) /\ m_Handles[m].clone = 0 /\ ~m_Handles[m].is_destroying
  /\ m_Handles[m].type = type /\ m_Handles[m].sec = sec /\ m # 1

\* A new handle that is not an identity.
LEMMA HandleMade ==
  ASSUME IInv, NEW type \in AllTypes, NEW o \in Tokens \cup {NULL}, NEW sec, NEW m \in Index,
         m # 0 => MayClone(m, type, sec),
         o # NULL => o # Root /\ HasIdentity(o),
         MakePrimHandle(type, o),
         Made(m_Handles', TryAllocHandle, type, o, "Used", m, sec, m),
         UNCHANGED <<tokens, ident>>,
         life' \in Lives
  PROVE  IInv'
<1> DEFINE H == m_Handles
           G == m_Handles'
           i == TryAllocHandle
<1>1. /\ FreeListOK' /\ RefCountOK' /\ CloneTargetOK'
      /\ m_Handles' \in Tables /\ m_HandleTail' \in Index /\ m_FreeHandles' \in Index
      /\ m_HandleTail <= m_HandleTail' /\ m_HandleTail' \in Nat
      /\ m_HSerial' \in 1..(MaxSerials - 1) /\ opened' \in [AllTypes -> Int]
      /\ num_handles' \in [Tokens -> Nat] /\ issued' \in Seq(Handle_t)
      /\ Len(issued') = Len(issued) + 1 /\ Len(issued') <= MaxMade
      /\ birth' \in [Index -> 0..MaxMade]
      /\ freeID' = freeID /\ stack' = stack
      /\ \A n \in 2..Len(issued') : issued'[n].index \in 2..m_HandleTail'
      /\ \A j \in Slots : birth'[j] <= Len(issued') /\ m_Handles'[j].clone # 1
      /\ i # 1
  BY MadeCommon DEF MayClone
<1>1a. m_HandleTail <= m_HandleTail' /\ m_HandleTail' \in Nat /\ Len(issued') = Len(issued) + 1 /\ i # 1
  BY <1>1
<1>2. /\ ~AtLimit /\ birth' = [birth EXCEPT ![i] = Len(issued) + 1]
  BY DEF MakePrimHandle
<1>3. i \in Slots /\ H[i].set = "None"
  BY <1>2, AllocFacts
<1>4. \A j \in Slots : j # i =>
        /\ G[j].set = H[j].set /\ G[j].owner = H[j].owner
        /\ G[j].is_destroying = H[j].is_destroying
        /\ G[j].serial = H[j].serial /\ G[j].clone = H[j].clone
        /\ H[j].set # "Identity" /\ j # m => G[j].refcount = H[j].refcount
  <2> TAKE j \in Slots
  <2> HAVE j # i
  <2>1. /\ SameBody(G[j], H[j])
        /\ G[j].set = H[j].set /\ G[j].owner = H[j].owner
        /\ G[j].is_destroying = H[j].is_destroying
        /\ H[j].set # "Identity" => G[j].refcount = H[j].refcount + IF j = m THEN 1 ELSE 0
    BY DEF Made
  <2>2. H[j].refcount \in Int
    BY TypeFacts, TableFacts, IndexFacts
  <2>3. H[j].set # "Identity" /\ j # m => G[j].refcount = H[j].refcount
    BY <2>1, <2>2
  <2> QED BY <2>1, <2>3 DEF SameBody
<1>5. G[i].set = "Used" /\ G[i].owner = o
  BY DEF Made
<1> HIDE DEF i
<1>6. TypeOK'
  BY <1>1, TypeFacts DEF TypeOK, Tables, Lives
<1>7. StackOK'
  <2>1. \A k \in 1..Len(stack) :
          LET f == stack[k] IN
          /\ f.index \in Slots /\ f.index <= m_HandleTail' /\ f.index # i /\ f.index # m
          /\ H[f.index].is_destroying
          /\ IF f.pc = "ReleaseIdentity"
             THEN /\ H[f.index].set = "Identity" /\ k = 1 /\ f.token \in Idents
                  /\ ident[f.token].index = f.index
             ELSE Live(f.index) /\ H[f.index].clone = 0 /\ H[f.index].refcount = 0
    <3> TAKE k \in 1..Len(stack)
    <3> DEFINE f == stack[k]
    <3>1. /\ f.index \in Slots /\ f.index <= m_HandleTail /\ H[f.index].is_destroying
          /\ IF f.pc = "ReleaseIdentity"
             THEN /\ H[f.index].set = "Identity" /\ k = 1 /\ f.token \in Idents
                  /\ ident[f.token].index = f.index
             ELSE Live(f.index) /\ H[f.index].clone = 0 /\ H[f.index].refcount = 0
      BY FrameFacts
    <3>2. f.index # i
      BY <3>1, <1>3 DEF Live
    <3>3. f.index # m
      BY <3>1, IndexFacts DEF MayClone
    <3>4. f.index <= m_HandleTail'
      <4>1. f.index \in Slots /\ f.index <= m_HandleTail
        BY <3>1
      <4> HIDE DEF f
      <4> QED BY <4>1, <1>1a, NumFacts DEF Slots
    <3> QED BY <3>1, <3>2, <3>3, <3>4
  <2>2. \A j, k \in 1..Len(stack) : stack[j].index = stack[k].index => j = k
    BY DEF IInv, StackOK
  <2>3. \A k \in 1..Len(stack) :
          LET f == stack[k] IN
          /\ f.index <= m_HandleTail' /\ G[f.index].is_destroying
          /\ IF f.pc = "ReleaseIdentity"
             THEN /\ G[f.index].set = "Identity" /\ k = 1 /\ f.token \in Idents
                  /\ ident[f.token].index = f.index
             ELSE /\ G[f.index].set \in {"Used", "Freed"} /\ G[f.index].clone = 0
                  /\ G[f.index].refcount = 0
    BY <2>1, <1>4 DEF Live
  <2> QED BY <2>2, <2>3, <1>1 DEF StackOK, Live
<1>8. IdentitiesOK'
  <2>1. \A t \in Tokens : HasIdentity(t) =>
          /\ t \in tokens /\ ident[t].index \in 1..m_HandleTail'
          /\ G[ident[t].index].serial = ident[t].serial
          /\ G[ident[t].index].set = IF t = Root THEN "Used" ELSE "Identity"
    <3> SUFFICES ASSUME NEW t \in Tokens, HasIdentity(t)
                 PROVE /\ t \in tokens /\ ident[t].index \in 1..m_HandleTail'
                       /\ G[ident[t].index].serial = ident[t].serial
                       /\ G[ident[t].index].set = IF t = Root THEN "Used" ELSE "Identity"
      OBVIOUS
    <3> DEFINE d == ident[t].index
    <3>1. /\ d \in Slots /\ d \in 1..m_HandleTail /\ t \in tokens
          /\ H[d].serial = ident[t].serial
          /\ H[d].set = IF t = Root THEN "Used" ELSE "Identity"
      BY IdentityFacts
    <3>2. d # i
      BY <3>1, <1>3
    <3>3. d \in 1..m_HandleTail'
      <4>1. d \in 1..m_HandleTail
        BY <3>1
      <4> HIDE DEF d
      <4> QED BY <4>1, <1>1a, NumFacts
    <3> QED BY <3>1, <3>2, <3>3, <1>4
  <2>2. /\ \A t, u \in Tokens : HasIdentity(t) /\ ident[t].index = ident[u].index => t = u
        /\ HasIdentity(Root) /\ HasIdentity(Core)
    BY DEF IInv, IdentitiesOK
  <2> QED BY <2>1, <2>2 DEF IdentitiesOK, HasIdentity
<1>9. OwnersAlive'
  <2>1. ASSUME NEW j \in Slots, G[j].set # "None"
        PROVE  /\ G[j].owner # NULL => G[j].owner \in tokens /\ HasIdentity(G[j].owner)
               /\ G[j].set = "Identity" <=> G[j].owner = Root
               /\ G[j].set = "Freed" => G[j].owner = NULL
    <3>1. CASE j = i
      <4>1. o # NULL => o \in tokens
        BY IdentityFacts
      <4>2. Root # NULL
        BY TableAssumption DEF Tokens
      <4> QED BY <3>1, <4>1, <4>2, <1>5
    <3>2. CASE j # i
      BY <2>1, <3>2, <1>4 DEF IInv, OwnersAlive, InUse
    <3> QED BY <3>1, <3>2
  <2> QED BY <2>1 DEF OwnersAlive, InUse, HasIdentity
<1>10. OwnerChainOK'
  <2>1. \A t \in Tokens \ {Root} : HasIdentity(t) => ChainOK(G, birth', t, ident[t].index)
    BY <1>2, <1>3, ChainMade DEF i
  <2> QED BY <2>1 DEF OwnerChainOK, HasIdentity
<1>11. IssuedOK'
  <2>1. /\ Len(issued) >= 2 /\ ident[Root].index = 1 /\ H[1].owner = NULL /\ ~H[1].is_destroying
    BY DEF IInv, IssuedOK
  <2>2. 1 \in Slots /\ 1 # i
    BY <1>1a, TableAssumption DEF Slots
  <2>3. G[1].owner = NULL /\ ~G[1].is_destroying
    BY <2>1, <2>2, <1>4
  <2>4. Len(issued') >= 2
    BY <2>1, <1>1a, NumFacts
  <2> QED BY <1>1, <2>1, <2>3, <2>4 DEF IssuedOK
<1> QED
  BY <1>1, <1>6, <1>7, <1>8, <1>9, <1>10, <1>11 DEF IInv

\* ShareSystem::CreateIdentity when a slot is available.
LEMMA IdentityMade ==
  ASSUME IInv, NEW t \in Idents \ tokens,
         MakePrimHandle(IdentType, Root),
         Made(m_Handles', TryAllocHandle, IdentType, Root, "Identity", 0, NULL, 0),
         tokens' = tokens \cup {t},
         ident' = [ident EXCEPT ![t] = [index |-> TryAllocHandle, serial |-> NextSerial]],
         life' = life
  PROVE  IInv'
<1> DEFINE H == m_Handles
           G == m_Handles'
           i == TryAllocHandle
           h == [index |-> i, serial |-> NextSerial]
<1>0. IdentType \in AllTypes /\ Root \in Tokens \cup {NULL} /\ 0 \in Index /\ t \in Tokens /\ t # Root
  BY IndexFacts, TableAssumption DEF AllTypes, Tokens
<1>1. /\ FreeListOK' /\ RefCountOK' /\ CloneTargetOK'
      /\ m_Handles' \in Tables /\ m_HandleTail' \in Index /\ m_FreeHandles' \in Index
      /\ m_HandleTail <= m_HandleTail' /\ m_HandleTail' \in Nat /\ i <= m_HandleTail'
      /\ m_HSerial' \in 1..(MaxSerials - 1) /\ opened' \in [AllTypes -> Int]
      /\ num_handles' \in [Tokens -> Nat] /\ issued' \in Seq(Handle_t)
      /\ Len(issued') = Len(issued) + 1 /\ Len(issued') <= MaxMade
      /\ birth' \in [Index -> 0..MaxMade]
      /\ freeID' = freeID /\ stack' = stack
      /\ \A n \in 2..Len(issued') : issued'[n].index \in 2..m_HandleTail'
      /\ \A j \in Slots : birth'[j] <= Len(issued') /\ m_Handles'[j].clone # 1
      /\ i # 1 /\ h \in Handle_t
  BY <1>0, MadeCommon
<1>2. ~AtLimit /\ birth' = [birth EXCEPT ![i] = Len(issued) + 1]
  BY DEF MakePrimHandle
<1>3. i \in Slots /\ H[i].set = "None"
  BY <1>2, AllocFacts
<1>4. \A j \in Slots : j # i =>
        /\ G[j].set = H[j].set /\ G[j].owner = H[j].owner
        /\ G[j].is_destroying = H[j].is_destroying
        /\ G[j].serial = H[j].serial /\ G[j].clone = H[j].clone
        /\ H[j].set # "Identity" => G[j].refcount = H[j].refcount
  <2> TAKE j \in Slots
  <2> HAVE j # i
  <2>1. /\ SameBody(G[j], H[j])
        /\ G[j].set = H[j].set /\ G[j].owner = H[j].owner
        /\ G[j].is_destroying = H[j].is_destroying
        /\ H[j].set # "Identity" => G[j].refcount = H[j].refcount + IF j = 0 THEN 1 ELSE 0
    BY DEF Made
  <2>2. H[j].refcount \in Int /\ j # 0
    BY TypeFacts, TableFacts, IndexFacts
  <2> QED BY <2>1, <2>2 DEF SameBody
<1>5. G[i].set = "Identity" /\ G[i].owner = Root /\ G[i].serial = NextSerial
  BY DEF Made
<1>6. G[i].ch_next = 0 /\ G[i].ch_prev = 0
  BY <1>3 DEF Made, Attached
<1>7. h.index = i /\ h.serial = NextSerial /\ h # NoHandle
  BY <1>3, IndexFacts DEF NoHandle
<1> HIDE DEF i, h
<1>8. /\ ident' \in [Tokens -> Handle_t] /\ ident'[t] = h
      /\ \A u \in Tokens : u # t => ident'[u] = ident[u]
  BY <1>0, <1>1, TypeFacts DEF h, i
<1>9. ~HasIdentity(t)
  BY <1>0, IdentityFacts
<1>10. tokens' \in SUBSET Tokens
  BY <1>0, TypeFacts
<1>11. TypeOK'
  <2>1. life \in [1..MaxMade -> {"none", "live", "destroyed", "destroyed twice"}]
    BY DEF IInv, TypeOK
  <2> QED BY <1>1, <1>8, <1>10, <2>1, TypeFacts DEF TypeOK, Tables
<1>12. StackOK'
  <2>1. ASSUME NEW k \in 1..Len(stack)
        PROVE  LET f == stack[k] IN
               /\ f.index <= m_HandleTail' /\ G[f.index].is_destroying
               /\ IF f.pc = "ReleaseIdentity"
                  THEN /\ G[f.index].set = "Identity" /\ k = 1 /\ f.token \in Idents
                       /\ ident'[f.token].index = f.index
                  ELSE /\ G[f.index].set \in {"Used", "Freed"} /\ G[f.index].clone = 0
                       /\ G[f.index].refcount = 0
    <3> DEFINE f == stack[k]
    <3>1. /\ f.index \in Slots /\ f.index <= m_HandleTail /\ H[f.index].is_destroying
          /\ IF f.pc = "ReleaseIdentity"
             THEN /\ H[f.index].set = "Identity" /\ k = 1 /\ f.token \in Idents
                  /\ ident[f.token].index = f.index /\ HasIdentity(f.token)
             ELSE Live(f.index) /\ H[f.index].clone = 0 /\ H[f.index].refcount = 0
      BY FrameFacts
    <3>2. f.index # i
      BY <3>1, <1>3 DEF Live
    <3>3. f.pc = "ReleaseIdentity" => ident'[f.token] = ident[f.token]
      BY <3>1, <1>8, <1>9 DEF Tokens
    <3>4. f.index <= m_HandleTail'
      <4>1. f.index \in Nat /\ m_HandleTail <= m_HandleTail' /\ m_HandleTail' \in Nat
        BY <3>1, <1>1 DEF Slots
      <4> HIDE DEF f
      <4> QED BY <4>1, <3>1, NumFacts
    <3> QED BY <3>1, <3>2, <3>3, <3>4, <1>4 DEF Live
  <2>2. \A j, k \in 1..Len(stack) : stack[j].index = stack[k].index => j = k
    BY DEF IInv, StackOK
  <2> QED BY <2>1, <2>2, <1>1 DEF StackOK, Live
<1>13. \A u \in Tokens : ident'[u] # NoHandle => u = t \/ (u # t /\ HasIdentity(u) /\ ident'[u] = ident[u])
  BY <1>8 DEF HasIdentity
<1>14. IdentitiesOK'
  <2>1. ASSUME NEW u \in Tokens, ident'[u] # NoHandle
        PROVE  /\ u \in tokens' /\ ident'[u].index \in 1..m_HandleTail'
               /\ G[ident'[u].index].serial = ident'[u].serial
               /\ G[ident'[u].index].set = IF u = Root THEN "Used" ELSE "Identity"
    <3>1. CASE u = t
      <4>1. i \in 1..m_HandleTail'
        BY <1>1, <1>3 DEF Slots
      <4> QED BY <3>1, <4>1, <1>0, <1>5, <1>7, <1>8
    <3>2. CASE u # t
      <4> DEFINE d == ident[u].index
      <4>1. HasIdentity(u) /\ ident'[u] = ident[u]
        BY <2>1, <3>2, <1>13
      <4>2. /\ d \in Slots /\ d \in 1..m_HandleTail /\ u \in tokens
            /\ H[d].serial = ident[u].serial
            /\ H[d].set = IF u = Root THEN "Used" ELSE "Identity"
        BY <4>1, IdentityFacts
      <4>3. d # i
        BY <4>2, <1>3
      <4>4. d \in 1..m_HandleTail'
        <5>1. m_HandleTail <= m_HandleTail' /\ m_HandleTail' \in Nat
          BY <1>1
        <5> HIDE DEF d
        <5> QED BY <5>1, <4>2, NumFacts
      <4> QED BY <4>1, <4>2, <4>3, <4>4, <1>4
    <3> QED BY <3>1, <3>2
  <2>2. ASSUME NEW u \in Tokens, NEW v \in Tokens, ident'[u] # NoHandle,
               ident'[u].index = ident'[v].index
        PROVE  u = v
    <3>1. CASE u = t /\ v # t
      <4>1. ident[v].index = i
        BY <2>2, <3>1, <1>7, <1>8
      <4>2. HasIdentity(v)
        BY <4>1, <1>3, IndexFacts DEF HasIdentity, NoHandle
      <4>3. H[i].set # "None"
        BY <4>1, <4>2, IdentityFacts
      <4> QED BY <4>3, <1>3
    <3>2. CASE u # t /\ v = t
      <4>1. ident[u].index = i /\ HasIdentity(u)
        BY <2>2, <3>2, <1>7, <1>8, <1>13
      <4>2. H[i].set # "None"
        BY <4>1, IdentityFacts
      <4> QED BY <4>2, <1>3
    <3>3. CASE u # t /\ v # t
      <4>1. HasIdentity(u) /\ ident[u].index = ident[v].index
        BY <2>2, <3>3, <1>8, <1>13
      <4> QED BY <4>1 DEF IInv, IdentitiesOK
    <3> QED BY <3>1, <3>2, <3>3
  <2>3. ident'[Root] # NoHandle /\ ident'[Core] # NoHandle
    <3>1. HasIdentity(Root) /\ HasIdentity(Core) /\ Root \in Tokens /\ Core \in Tokens
      BY DEF IInv, IdentitiesOK, Tokens
    <3> QED BY <3>1, <1>8, <1>9 DEF HasIdentity
  <2> QED BY <2>1, <2>2, <2>3 DEF IdentitiesOK, HasIdentity
<1>15. OwnersAlive'
  <2>1. ASSUME NEW j \in Slots, G[j].set # "None"
        PROVE  /\ G[j].owner # NULL => G[j].owner \in tokens' /\ ident'[G[j].owner] # NoHandle
               /\ G[j].set = "Identity" <=> G[j].owner = Root
               /\ G[j].set = "Freed" => G[j].owner = NULL
    <3>0. HasIdentity(Root) /\ Root \in Tokens /\ ident'[Root] = ident[Root]
      BY <1>0, <1>8 DEF IInv, IdentitiesOK, Tokens
    <3>1. CASE j = i
      <4>1. Root \in tokens
        BY <3>0, IdentityFacts
      <4> QED BY <3>0, <3>1, <4>1, <1>5 DEF HasIdentity
    <3>2. CASE j # i
      <4>1. /\ H[j].owner # NULL => H[j].owner \in tokens /\ HasIdentity(H[j].owner)
            /\ H[j].set = "Identity" <=> H[j].owner = Root
            /\ H[j].set = "Freed" => H[j].owner = NULL
        BY <2>1, <3>2, <1>4 DEF IInv, OwnersAlive, InUse
      <4>2. H[j].owner \in Tokens \cup {NULL}
        BY TypeFacts, TableFacts, IndexFacts
      <4> QED BY <3>2, <4>1, <4>2, <1>4, <1>8, <1>9 DEF HasIdentity
    <3> QED BY <3>1, <3>2
  <2> QED BY <2>1 DEF OwnersAlive, InUse, HasIdentity
<1>16. OwnerChainOK'
  <2>1. ASSUME NEW u \in Tokens \ {Root}, ident'[u] # NoHandle
        PROVE  ChainOK(G, birth', u, ident'[u].index)
    <3>1. CASE u = t
      <4>1. \A j \in Slots : ~Owns(G, t, j)
        <5> SUFFICES ASSUME NEW j \in Slots, Owns(G, t, j) PROVE FALSE
          OBVIOUS
        <5>1. j # i
          BY <1>0, <1>5 DEF Owns
        <5>2. H[j].owner = t /\ H[j].set # "None"
          BY <5>1, <1>4 DEF Owns
        <5>3. t # NULL
          BY <1>0, TableAssumption
        <5> QED BY <5>2, <5>3, <1>9 DEF IInv, OwnersAlive, InUse
      <4> QED BY <3>1, <4>1, <1>6, <1>7, <1>8 DEF ChainOK
    <3>2. CASE u # t
      <4>1. HasIdentity(u) /\ ident'[u] = ident[u]
        BY <2>1, <3>2, <1>13
      <4>2. ChainOK(G, birth', u, ident[u].index)
        BY <4>1, <1>2, <1>3, ChainMade DEF i
      <4> QED BY <4>1, <4>2
    <3> QED BY <3>1, <3>2
  <2> QED BY <2>1 DEF OwnerChainOK, HasIdentity
<1>17. IssuedOK'
  <2>1. /\ Len(issued) >= 2 /\ ident[Root].index = 1 /\ H[1].owner = NULL /\ ~H[1].is_destroying
    BY DEF IInv, IssuedOK
  <2>2. 1 \in Slots /\ 1 # i
    BY <1>1, TableAssumption DEF Slots
  <2>3. G[1].owner = NULL /\ ~G[1].is_destroying
    BY <2>1, <2>2, <1>4
  <2>4. Len(issued') >= 2
    BY <2>1, <1>1, NumFacts
  <2>5. ident'[Root].index = 1
    BY <2>1, <1>0, <1>8 DEF Tokens
  <2> QED BY <1>1, <2>3, <2>4, <2>5 DEF IssuedOK
<1> QED
  BY <1>1, <1>11, <1>12, <1>14, <1>15, <1>16, <1>17 DEF IInv

\* What every step that takes slot i out of its chain has in common.
Left(G, i) ==
  /\ G \in Tables /\ Detached(G, i) /\ G[i].set \in {"None", "Freed"}
  /\ \A j \in Slots :
       /\ SameBody(G[j], m_Handles[j])
       /\ j # i => G[j].set = m_Handles[j].set
  /\ G[1].is_destroying = m_Handles[1].is_destroying

\* Taking a slot out of its chain disturbs no identity and no other chain.
LEMMA LeftCommon ==
  ASSUME IInv, NEW i \in Slots, Live(i), i # 1, Left(m_Handles', i),
         UNCHANGED <<alloc, tokens, ident>>
  PROVE  IdentitiesOK' /\ OwnersAlive' /\ OwnerChainOK' /\ IssuedOK'
<1> DEFINE H == m_Handles
           G == m_Handles'
<1>0. UNCHANGED <<m_HandleTail, m_HSerial, issued, birth, tokens, ident>>
  BY DEF alloc
<1>1. /\ G \in Tables /\ Detached(G, i) /\ G[i].set \in {"None", "Freed"}
      /\ G[1].is_destroying = H[1].is_destroying
  BY DEF Left
<1>2. \A j \in Slots :
        /\ G[j].serial = H[j].serial /\ G[j].clone = H[j].clone
        /\ j # i => G[j].set = H[j].set
  BY DEF Left, SameBody
<1>3. \A j \in Slots : G[j].owner = IF j = i THEN NULL ELSE H[j].owner
  BY <1>1 DEF Detached
<1>4. IdentitiesOK'
  <2>1. ASSUME NEW t \in Tokens, HasIdentity(t)
        PROVE  /\ t \in tokens /\ ident[t].index \in 1..m_HandleTail
               /\ G[ident[t].index].serial = ident[t].serial
               /\ G[ident[t].index].set = IF t = Root THEN "Used" ELSE "Identity"
    <3> DEFINE d == ident[t].index
    <3>1. /\ d \in Slots /\ d \in 1..m_HandleTail /\ t \in tokens
          /\ H[d].serial = ident[t].serial
          /\ H[d].set = IF t = Root THEN "Used" ELSE "Identity"
          /\ d = 1 <=> t = Root
      BY <2>1, IdentityFacts
    <3>2. d # i
      BY <3>1 DEF Live
    <3> QED BY <3>1, <3>2, <1>2
  <2>2. /\ \A t, u \in Tokens : HasIdentity(t) /\ ident[t].index = ident[u].index => t = u
        /\ HasIdentity(Root) /\ HasIdentity(Core)
    BY DEF IInv, IdentitiesOK
  <2> QED BY <1>0, <2>1, <2>2 DEF IdentitiesOK, HasIdentity
<1>5. OwnersAlive'
  <2>1. ASSUME NEW j \in Slots, G[j].set # "None"
        PROVE  /\ G[j].owner # NULL => G[j].owner \in tokens /\ HasIdentity(G[j].owner)
               /\ G[j].set = "Identity" <=> G[j].owner = Root
               /\ G[j].set = "Freed" => G[j].owner = NULL
    <3>1. CASE j = i
      <4>1. Root # NULL
        BY TableAssumption DEF Tokens
      <4> QED BY <3>1, <4>1, <1>1, <1>3
    <3>2. CASE j # i
      BY <2>1, <3>2, <1>2, <1>3 DEF IInv, OwnersAlive, InUse
    <3> QED BY <3>1, <3>2
  <2> QED BY <1>0, <2>1 DEF OwnersAlive, InUse, HasIdentity
<1>6. OwnerChainOK'
  <2>1. \A t \in Tokens \ {Root} : HasIdentity(t) => ChainOK(G, birth, t, ident[t].index)
    BY <1>1, <1>2, ChainDetached
  <2> QED BY <1>0, <2>1 DEF OwnerChainOK, HasIdentity
<1>7. IssuedOK'
  <2>1. /\ Len(issued) >= 2 /\ ident[Root].index = 1 /\ H[1].owner = NULL /\ ~H[1].is_destroying
        /\ \A j \in Slots : birth[j] <= Len(issued) /\ H[j].clone # 1
        /\ \A n \in 2..Len(issued) : issued[n].index \in 2..m_HandleTail
    BY DEF IInv, IssuedOK
  <2>2. 1 \in Slots
    BY TableAssumption DEF Slots
  <2>3. G[1].owner = NULL /\ ~G[1].is_destroying
    BY <2>1, <2>2, <1>1, <1>3
  <2>4. \A j \in Slots : G[j].clone # 1
    BY <2>1, <1>2
  <2> QED BY <1>0, <2>1, <2>3, <2>4 DEF IssuedOK
<1> QED
  BY <1>4, <1>5, <1>6, <1>7

\* What every step has in common that leaves owners and links alone.
Stays(G) ==
  /\ G \in Tables
  /\ \A j \in Slots :
       /\ SameBody(G[j], m_Handles[j])
       /\ G[j].set = m_Handles[j].set /\ G[j].owner = m_Handles[j].owner
       /\ G[j].ch_prev = m_Handles[j].ch_prev /\ G[j].ch_next = m_Handles[j].ch_next
  /\ G[1].is_destroying = m_Handles[1].is_destroying

\* A step that leaves owners and links alone keeps identities and chains.
LEMMA StaysCommon ==
  ASSUME IInv, Stays(m_Handles'), UNCHANGED <<alloc, tokens, ident>>
  PROVE  IdentitiesOK' /\ OwnersAlive' /\ OwnerChainOK' /\ IssuedOK'
<1> DEFINE H == m_Handles
           G == m_Handles'
<1>0. UNCHANGED <<m_HandleTail, m_HSerial, issued, birth, tokens, ident>>
  BY DEF alloc
<1>2. \A j \in Slots :
        /\ G[j].serial = H[j].serial /\ G[j].clone = H[j].clone
        /\ G[j].set = H[j].set /\ G[j].owner = H[j].owner
        /\ G[j].ch_prev = H[j].ch_prev /\ G[j].ch_next = H[j].ch_next
  BY DEF Stays, SameBody
<1>4. IdentitiesOK'
  <2>1. ASSUME NEW t \in Tokens, HasIdentity(t)
        PROVE  /\ t \in tokens /\ ident[t].index \in 1..m_HandleTail
               /\ G[ident[t].index].serial = ident[t].serial
               /\ G[ident[t].index].set = IF t = Root THEN "Used" ELSE "Identity"
    BY <2>1, <1>2, IdentityFacts
  <2>2. /\ \A t, u \in Tokens : HasIdentity(t) /\ ident[t].index = ident[u].index => t = u
        /\ HasIdentity(Root) /\ HasIdentity(Core)
    BY DEF IInv, IdentitiesOK
  <2> QED BY <1>0, <2>1, <2>2 DEF IdentitiesOK, HasIdentity
<1>5. OwnersAlive'
  BY <1>0, <1>2 DEF IInv, OwnersAlive, InUse, HasIdentity
<1>6. OwnerChainOK'
  <2>1. ASSUME NEW t \in Tokens \ {Root}, HasIdentity(t)
        PROVE  ChainOK(G, birth, t, ident[t].index)
    <3>1. \A j \in Slots : Owns(G, t, j) <=> Owns(H, t, j)
      BY <1>2 DEF Owns
    <3>2. \A j \in Slots : j = ident[t].index \/ Owns(H, t, j) =>
            /\ G[j].ch_next = H[j].ch_next /\ G[j].ch_prev = H[j].ch_prev
            /\ j # ident[t].index => birth[j] = birth[j]
      BY <1>2
    <3> QED BY <2>1, <3>1, <3>2, ChainKept
  <2> QED BY <1>0, <2>1 DEF OwnerChainOK, HasIdentity
<1>7. IssuedOK'
  <2>1. /\ Len(issued) >= 2 /\ ident[Root].index = 1 /\ H[1].owner = NULL /\ ~H[1].is_destroying
        /\ \A j \in Slots : birth[j] <= Len(issued) /\ H[j].clone # 1
        /\ \A n \in 2..Len(issued) : issued[n].index \in 2..m_HandleTail
    BY DEF IInv, IssuedOK
  <2>2. 1 \in Slots
    BY TableAssumption DEF Slots
  <2>3. G[1].owner = NULL /\ ~G[1].is_destroying
    BY <2>1, <2>2, <1>2 DEF Stays
  <2>4. \A j \in Slots : G[j].clone # 1
    BY <2>1, <1>2
  <2> QED BY <1>0, <2>1, <2>3, <2>4 DEF IssuedOK
<1> QED
  BY <1>4, <1>5, <1>6, <1>7

\* The slots of unfinished frees are as they were, but for their owner.
FramesKept(G) ==
  \A k \in 1..Len(stack) :
    LET x == stack[k].index IN
    /\ G[x].set = m_Handles[x].set /\ G[x].clone = m_Handles[x].clone
    /\ G[x].is_destroying = m_Handles[x].is_destroying
    /\ m_Handles[x].set # "Identity" => G[x].refcount = m_Handles[x].refcount

\* StackOK survives a step that leaves the stack and its slots alone.
LEMMA StackSame ==
  ASSUME IInv, stack' = stack, FramesKept(m_Handles'),
         UNCHANGED <<alloc, ident>>
  PROVE  StackOK'
<1> DEFINE G == m_Handles'
<1>0. UNCHANGED <<m_HandleTail, ident>>
  BY DEF alloc
<1>1. ASSUME NEW k \in 1..Len(stack)
      PROVE  LET f == stack[k] IN
             /\ f.index <= m_HandleTail /\ G[f.index].is_destroying
             /\ IF f.pc = "ReleaseIdentity"
                THEN /\ G[f.index].set = "Identity" /\ k = 1 /\ f.token \in Idents
                     /\ ident[f.token].index = f.index
                ELSE /\ G[f.index].set \in {"Used", "Freed"} /\ G[f.index].clone = 0
                     /\ G[f.index].refcount = 0
  BY FrameFacts DEF FramesKept, Live
<1>2. \A j, k \in 1..Len(stack) : stack[j].index = stack[k].index => j = k
  BY DEF IInv, StackOK
<1> QED
  BY <1>0, <1>1, <1>2 DEF StackOK, Live

\* StackOK survives entering the destructor of a master that was not dying.
LEMMA StackPushed ==
  ASSUME IInv, NEW x \in Slots, Live(x), ~m_Handles[x].is_destroying, m_Handles[x].clone = 0,
         NEW pc \in {"OnHandleDestroy", "ReleasePrimHandle"},
         stack' = Append(stack, [pc |-> pc, index |-> x, token |-> NULL]),
         FramesKept(m_Handles'),
         m_Handles'[x].set = m_Handles[x].set, m_Handles'[x].clone = 0,
         m_Handles'[x].is_destroying, m_Handles'[x].refcount = 0,
         UNCHANGED <<alloc, ident>>
  PROVE  StackOK' /\ stack' \in Seq(Frame)
<1> DEFINE G == m_Handles'
           n == Len(stack)
           g == [pc |-> pc, index |-> x, token |-> NULL]
<1>0. UNCHANGED <<m_HandleTail, ident>>
  BY DEF alloc
<1>1. stack \in Seq(Frame) /\ n \in Nat
  <2>1. stack \in Seq(Frame)
    BY TypeFacts
  <2> QED BY <2>1
<1>2. g \in Frame /\ g.pc = pc /\ g.index = x
  BY DEF Frame
<1> HIDE DEF g
<1>3. stack' = Append(stack, g)
  BY DEF g
<1>4. /\ stack' \in Seq(Frame) /\ Len(stack') = n + 1 /\ stack'[n + 1] = g
      /\ \A k \in 1..n : stack'[k] = stack[k]
  BY <1>1, <1>2, <1>3
<1>5. \A k \in 1..(n + 1) : k \in 1..n \/ k = n + 1
  BY <1>1
<1>6. ASSUME NEW k \in 1..n
      PROVE  LET f == stack[k] IN
             /\ f.index <= m_HandleTail /\ G[f.index].is_destroying
             /\ IF f.pc = "ReleaseIdentity"
                THEN /\ G[f.index].set = "Identity" /\ k = 1 /\ f.token \in Idents
                     /\ ident[f.token].index = f.index
                ELSE /\ G[f.index].set \in {"Used", "Freed"} /\ G[f.index].clone = 0
                     /\ G[f.index].refcount = 0
  BY FrameFacts DEF FramesKept, Live
<1>7. \A k \in 1..n : stack[k].index # x
  BY FrameFacts
<1>8. x <= m_HandleTail
  <2>1. x \in 1..m_HandleTail
    BY InUseFacts DEF Live, InUse
  <2> QED BY <2>1, NumFacts
<1>9. \A j, k \in 1..n : stack[j].index = stack[k].index => j = k
  BY DEF IInv, StackOK
<1> HIDE DEF n
<1>10. \A j, k \in 1..(n + 1) : stack'[j].index = stack'[k].index => j = k
  BY <1>2, <1>4, <1>5, <1>7, <1>9
<1>11. ASSUME NEW k \in 1..(n + 1)
       PROVE  LET f == stack'[k] IN
             /\ f.index <= m_HandleTail /\ G[f.index].is_destroying
             /\ IF f.pc = "ReleaseIdentity"
                THEN /\ G[f.index].set = "Identity" /\ k = 1 /\ f.token \in Idents
                     /\ ident[f.token].index = f.index
                ELSE /\ G[f.index].set \in {"Used", "Freed"} /\ G[f.index].clone = 0
                     /\ G[f.index].refcount = 0
  <2>1. CASE k \in 1..n
    BY <2>1, <1>4, <1>6
  <2>2. CASE k = n + 1
    <3>1. stack'[k] = g /\ g.pc # "ReleaseIdentity" /\ g.index = x
      BY <2>2, <1>2, <1>4
    <3> QED BY <3>1, <1>8 DEF Live
  <2> QED BY <2>1, <2>2, <1>5
<1>12. StackOK'
  BY <1>0, <1>4, <1>10, <1>11 DEF StackOK, Live
<1> QED
  BY <1>4, <1>12

\* The counter that PushFree lowers stays an integer.
LEMMA PushTypes ==
  ASSUME IInv, NEW i \in Slots, PushFree(i)
  PROVE  opened' \in [AllTypes -> Int]
<1>1. opened' = [opened EXCEPT ![m_Handles[i].type] = @ - 1]
  BY DEF PushFree
<1>2. m_Handles[i].type \in AllTypes
  BY TypeFacts, TableFacts, IndexFacts
<1> QED
  BY <1>1, <1>2, CountFacts

\* num_handles stays a natural number.
LEMMA ForgetTypes ==
  ASSUME IInv, NEW i, ForgetByOwner(i)
  PROVE  num_handles' \in [Tokens -> Nat]
<1>1. \A t \in Tokens : num_handles[t] \in Nat
  BY CountFacts
<1> DEFINE v(t) == IF t = m_Handles[i].owner /\ num_handles[t] > 0
                   THEN num_handles[t] - 1 ELSE num_handles[t]
<1>2. \A t \in Tokens : v(t) \in Nat
  BY <1>1
<1>3. num_handles' = [t \in Tokens |-> v(t)]
  BY DEF ForgetByOwner
<1> QED
  BY <1>2, <1>3

\* Destroy records the object and pushes one frame for its slot.
LEMMA DestroyTypes ==
  ASSUME IInv, NEW x \in Slots, Destroy(x)
  PROVE  /\ life' \in Lives
         /\ \E pc \in {"OnHandleDestroy", "ReleasePrimHandle"} :
              stack' = Append(stack, [pc |-> pc, index |-> x, token |-> NULL])
<1>1. life \in Lives
  BY DEF IInv, TypeOK, Lives
<1>2. life' \in Lives
  BY <1>1 DEF Destroy, Lives
<1> QED
  BY <1>2 DEF Destroy

\* TypeOK of a step that changes neither alloc nor ident.
LEMMA TypeStep ==
  ASSUME IInv, m_Handles' \in Tables, freeID' \in [Index -> Index], m_FreeHandles' \in Index,
         opened' \in [AllTypes -> Int], num_handles' \in [Tokens -> Nat],
         stack' \in Seq(Frame), life' \in Lives, UNCHANGED <<alloc, tokens, ident>>
  PROVE  TypeOK'
<1>1. UNCHANGED <<m_HandleTail, m_HSerial, issued, birth, tokens, ident>>
  BY DEF alloc
<1>2. TypeOK
  BY DEF IInv
<1> QED
  BY <1>1, <1>2 DEF TypeOK, Tables, Lives

\* Freeing a clone.
LEMMA FreeCloneStep ==
  ASSUME IInv, NEW i \in Slots, m_Handles[i].set = "Used", i # 1, ~m_Handles[i].is_destroying,
         ForgetByOwner(i), FreeClone(i), UNCHANGED <<alloc, tokens, ident>>
  PROVE  IInv'
<1> DEFINE H == m_Handles
           G == m_Handles'
           m == m_Handles[i].clone
<1>0. Live(i) /\ InUse(i)
  BY DEF Live, InUse
<1>1. /\ m \in Slots /\ m # i /\ FreedClone(G, i, m)
      /\ IF H[m].refcount = 1 THEN Destroy(m) ELSE UNCHANGED <<stack, life>>
  BY <1>0, FreeCloneFields
<1>2. m # 0 /\ PushFree(i)
  BY DEF FreeClone
<1>3. Live(m) /\ H[m].clone = 0 /\ ~H[m].is_destroying
  BY <1>2, CloneFacts
<1>4. /\ G \in Tables /\ Detached(G, i)
      /\ \A j \in Slots :
           /\ SameBody(G[j], H[j])
           /\ G[j].set = IF j = i THEN "None" ELSE H[j].set
           /\ j \notin {i, m} => G[j].is_destroying = H[j].is_destroying
           /\ H[j].set # "Identity" =>
                G[j].refcount = IF j = m THEN H[m].refcount - 1 ELSE H[j].refcount
      /\ G[m].is_destroying = (H[m].refcount = 1)
  BY <1>1 DEF FreedClone
<1>5. m # 1 /\ 1 \in Slots
  BY TableAssumption DEF IInv, IssuedOK, Slots
<1>6. Left(G, i)
  BY <1>4, <1>5 DEF Left
<1>7. IdentitiesOK' /\ OwnersAlive' /\ OwnerChainOK' /\ IssuedOK'
  BY <1>0, <1>6, LeftCommon
<1>8. FreeListOK' /\ m_FreeHandles' \in Index /\ freeID' \in [Index -> Index]
  <2>1. m_HandleTail' = m_HandleTail
    BY DEF alloc
  <2>2. /\ m_FreeHandles' = m_FreeHandles + 1
        /\ freeID' = [freeID EXCEPT ![m_FreeHandles + 1] = i]
    BY <1>2 DEF PushFree
  <2>3. /\ G[i].set = "None"
        /\ \A j \in Slots : j # i => (G[j].set = "None" <=> H[j].set = "None")
    BY <1>4
  <2> QED BY <1>0, <2>1, <2>2, <2>3, FreePush
<1>9. RefCountOK'
  BY <1>1, RefFreedClone
<1>10. RefIn(H, m) /\ IsFiniteSet(ClonesIn(H, m)) /\ Cardinality(ClonesIn(H, m)) \in Nat
  <2>1. Counted(H[m])
    BY <1>3 DEF Counted, Live
  <2> QED BY <1>1, <2>1, RefCountSplit, ClonesFinite DEF IInv
<1>11. CloneTargetOK'
  <2> SUFFICES ASSUME NEW j \in Slots, G[j].set # "None", G[j].clone # 0
               PROVE  LET c == G[j].clone IN
                      /\ G[j].set = "Used"
                      /\ G[c].set \in {"Used", "Freed"} /\ G[c].clone = 0
                      /\ ~G[c].is_destroying /\ birth'[c] < birth'[j]
                      /\ G[c].type = G[j].type /\ G[c].sec = G[j].sec
    BY DEF CloneTargetOK, InUse, Live
  <2> DEFINE c == H[j].clone
  <2>1. /\ j # i /\ G[j].clone = c /\ G[j].set = H[j].set /\ G[j].type = H[j].type
        /\ G[j].sec = H[j].sec
    BY <1>4 DEF SameBody
  <2>2. /\ H[j].set = "Used" /\ c \in Slots /\ Live(c) /\ H[c].clone = 0
        /\ ~H[c].is_destroying /\ birth[c] < birth[j]
        /\ H[c].type = H[j].type /\ H[c].sec = H[j].sec
    BY <2>1, CloneFacts
  <2>3. c # i
    BY <2>2, <1>2
  <2>4. /\ G[c].set = H[c].set /\ G[c].clone = H[c].clone /\ G[c].type = H[c].type
        /\ G[c].sec = H[c].sec
    BY <2>2, <2>3, <1>4 DEF SameBody
  <2>5. ~G[c].is_destroying
    <3>1. CASE c # m
      BY <2>2, <2>3, <3>1, <1>4
    <3>2. CASE c = m
      <4> DEFINE S == ClonesIn(H, m)
      <4>1. i \in S /\ j \in S \ {i}
        BY <2>1, <2>2, <3>2, <1>0 DEF ClonesIn, InUse
      <4>2. IsFiniteSet(S) /\ Cardinality(S) \in Nat
        BY <1>10
      <4>3. H[m].refcount = Cardinality(S) + SelfRef(H[m])
        BY <1>10 DEF RefIn
      <4> HIDE DEF S
      <4>4. IsFiniteSet(S \ {i}) /\ Cardinality(S \ {i}) = Cardinality(S) - 1
        BY <4>1, <4>2, FS_RemoveElement
      <4>5. Cardinality(S \ {i}) # 0
        BY <4>1, <4>4, FS_EmptySet
      <4>6. SelfRef(H[m]) \in {0, 1}
        BY DEF SelfRef
      <4>7. H[m].refcount # 1
        BY <4>2, <4>3, <4>4, <4>5, <4>6, FS_CardinalityType
      <4> QED BY <3>2, <4>7, <1>4
    <3> QED BY <3>1, <3>2
  <2>6. birth' = birth
    BY DEF alloc
  <2> HIDE DEF c
  <2> QED BY <2>1, <2>2, <2>4, <2>5, <2>6 DEF Live
<1>12. FramesKept(G)
  <2> SUFFICES ASSUME NEW k \in 1..Len(stack)
               PROVE  LET x == stack[k].index IN
                      /\ G[x].set = H[x].set /\ G[x].clone = H[x].clone
                      /\ G[x].is_destroying = H[x].is_destroying
                      /\ H[x].set # "Identity" => G[x].refcount = H[x].refcount
    BY DEF FramesKept
  <2> DEFINE x == stack[k].index
  <2>1. x \in Slots /\ H[x].is_destroying
    BY FrameFacts
  <2>2. x # i /\ x # m
    BY <2>1, <1>3
  <2> HIDE DEF x, m
  <2>3. G[x].clone = H[x].clone
    BY <2>1, <1>4 DEF SameBody
  <2> QED BY <2>1, <2>2, <2>3, <1>4 DEF x
<1>13. G[m].set = H[m].set /\ G[m].clone = 0
  BY <1>1, <1>3, <1>4 DEF SameBody
<1>14. StackOK' /\ stack' \in Seq(Frame) /\ life' \in Lives
  <2>1. CASE H[m].refcount = 1
    <3>1. Destroy(m)
      BY <2>1, <1>1
    <3>2. PICK pc \in {"OnHandleDestroy", "ReleasePrimHandle"} :
            stack' = Append(stack, [pc |-> pc, index |-> m, token |-> NULL])
      BY <3>1, <1>1, DestroyTypes
    <3>3. G[m].is_destroying /\ G[m].refcount = 0
      <4>1. G[m].is_destroying
        BY <2>1, <1>4
      <4>2. H[m].set # "Identity"
        BY <1>3 DEF Live
      <4>3. G[m].refcount = H[m].refcount - 1
        BY <4>2, <1>1, <1>4
      <4> QED BY <4>1, <4>3, <2>1
    <3>4. StackOK' /\ stack' \in Seq(Frame)
      BY <3>2, <3>3, <1>1, <1>3, <1>12, <1>13, StackPushed
    <3> QED BY <3>1, <3>4, <1>1, DestroyTypes
  <2>2. CASE H[m].refcount # 1
    <3>1. stack' = stack /\ life' = life
      BY <2>2, <1>1
    <3>2. StackOK'
      BY <3>1, <1>12, StackSame
    <3>3. life \in Lives
      BY DEF IInv, TypeOK, Lives
    <3> QED BY <3>1, <3>2, <3>3, TypeFacts
  <2> QED BY <2>1, <2>2
<1>15. TypeOK'
  BY <1>2, <1>4, <1>8, <1>14, PushTypes, ForgetTypes, TypeStep
<1> QED
  BY <1>7, <1>8, <1>9, <1>11, <1>14, <1>15 DEF IInv

\* CloneTargetOK of a step that clears or kills no slot but i, which has no
\* clones left if it does.
LEMMA CloneOthers ==
  ASSUME IInv, NEW i \in Slots, m_Handles[i].clone = 0, birth' = birth,
         \A j \in Slots : SameBody(m_Handles'[j], m_Handles[j]),
         \A j \in Slots : j # i =>
           /\ m_Handles'[j].set = m_Handles[j].set
           /\ m_Handles'[j].is_destroying = m_Handles[j].is_destroying,
         \/ ClonesIn(m_Handles, i) = {}
         \/ /\ m_Handles'[i].set \in {"Used", "Freed"}
            /\ m_Handles'[i].is_destroying = m_Handles[i].is_destroying
  PROVE  CloneTargetOK'
<1> DEFINE H == m_Handles
           G == m_Handles'
<1> SUFFICES ASSUME NEW j \in Slots, G[j].set # "None", G[j].clone # 0
             PROVE  LET c == G[j].clone IN
                    /\ G[j].set = "Used"
                    /\ G[c].set \in {"Used", "Freed"} /\ G[c].clone = 0
                    /\ ~G[c].is_destroying /\ birth'[c] < birth'[j]
                    /\ G[c].type = G[j].type /\ G[c].sec = G[j].sec
  BY DEF CloneTargetOK, InUse, Live
<1> DEFINE c == H[j].clone
<1>1. /\ G[j].clone = c /\ G[j].type = H[j].type /\ G[j].sec = H[j].sec
  BY DEF SameBody
<1>2. j # i /\ G[j].set = H[j].set
  BY <1>1
<1>3. /\ H[j].set = "Used" /\ c \in Slots /\ Live(c) /\ H[c].clone = 0
      /\ ~H[c].is_destroying /\ birth[c] < birth[j]
      /\ H[c].type = H[j].type /\ H[c].sec = H[j].sec
  BY <1>1, <1>2, CloneFacts
<1>4. /\ G[c].clone = H[c].clone /\ G[c].type = H[c].type /\ G[c].sec = H[c].sec
  BY <1>3 DEF SameBody
<1>5. G[c].set \in {"Used", "Freed"} /\ ~G[c].is_destroying
  <2>1. CASE c # i
    BY <2>1, <1>3 DEF Live
  <2>2. CASE c = i
    <3>1. j \in ClonesIn(H, i)
      BY <2>2, <1>2 DEF ClonesIn
    <3> QED BY <2>2, <3>1, <1>3
  <2> QED BY <2>1, <2>2
<1> HIDE DEF c
<1> QED
  BY <1>1, <1>2, <1>3, <1>4, <1>5

\* Freeing a master: its object is destroyed, or it lives on for its clones.
LEMMA FreeMasterStep ==
  ASSUME IInv, NEW i \in Slots, m_Handles[i].set = "Used", i # 1, ~m_Handles[i].is_destroying,
         ForgetByOwner(i), FreeMaster(i), UNCHANGED <<alloc, tokens, ident>>
  PROVE  IInv'
<1> DEFINE H == m_Handles
           G == m_Handles'
           S == ClonesIn(H, i)
<1>0. Live(i) /\ InUse(i) /\ H[i].clone = 0 /\ Counted(H[i]) /\ SelfRef(H[i]) = 1
  BY DEF Live, InUse, FreeMaster, Counted, SelfRef
<1>1. /\ opened' = opened /\ m_FreeHandles' = m_FreeHandles /\ freeID' = freeID
  BY DEF FreeMaster
<1>2. /\ H[i].refcount = Cardinality(S) + 1 /\ IsFiniteSet(S) /\ Cardinality(S) \in Nat
  <2>1. RefIn(H, i)
    BY <1>0, RefCountSplit DEF IInv
  <2>2. H[i].refcount = Cardinality(S) + 1
    BY <1>0, <2>1 DEF RefIn
  <2> QED BY <2>2, ClonesFinite
<1>3. 1 \in Slots /\ birth' = birth /\ m_HandleTail' = m_HandleTail
  BY TableAssumption DEF alloc, Slots
<1>4. /\ m_FreeHandles' \in Index /\ freeID' \in [Index -> Index]
      /\ opened' \in [AllTypes -> Int] /\ num_handles' \in [Tokens -> Nat]
  <2>1. m_FreeHandles \in Index
    BY DEF IInv, TypeOK
  <2> QED BY <1>1, <2>1, TypeFacts, CountFacts, ForgetTypes
<1>5. CASE H[i].refcount = 1
  <2>1. Dying(G, i) /\ Destroy(i)
    BY <1>0, <1>5, FreeMasterFields DEF FreeMaster
  <2>2. /\ G \in Tables
        /\ \A j \in Slots :
             /\ SameBody(G[j], H[j])
             /\ G[j].set = H[j].set /\ G[j].owner = H[j].owner
             /\ G[j].ch_prev = H[j].ch_prev /\ G[j].ch_next = H[j].ch_next
             /\ G[j].is_destroying = IF j = i THEN TRUE ELSE H[j].is_destroying
             /\ G[j].refcount = IF j = i THEN 0 ELSE H[j].refcount
    BY <2>1 DEF Dying
  <2>3. Stays(G)
    BY <2>2, <1>3 DEF Stays
  <2>4. IdentitiesOK' /\ OwnersAlive' /\ OwnerChainOK' /\ IssuedOK'
    BY <2>3, StaysCommon
  <2>5. FreeListOK'
    <3>1. \A j \in Slots : G[j].set = "None" <=> H[j].set = "None"
      BY <2>2
    <3> QED BY <3>1, <1>1, <1>3, FreeSame
  <2>6. S = {} /\ Cardinality(S) = 0
    <3>1. Cardinality(S) = 0
      BY <1>2, <1>5
    <3> HIDE DEF S
    <3> QED BY <3>1, <1>2, FS_EmptySet
  <2>7. \A j \in Slots : G[j].clone = H[j].clone
    BY <2>2 DEF SameBody
  <2>8. RefCountOK'
    <3>1. G[i].refcount = 0 /\ SelfRef(G[i]) = 0
      BY <2>2 DEF SelfRef
    <3>2. G[i].refcount = Cardinality(S) + SelfRef(G[i])
      BY <3>1, <2>6
    <3>3. \A j \in Slots :
             /\ G[j].set = H[j].set
             /\ j # i => G[j].is_destroying = H[j].is_destroying /\ G[j].refcount = H[j].refcount
      BY <2>2
    <3> QED BY <3>2, <3>3, <2>7, RefOthers
  <2>9. CloneTargetOK'
    BY <2>2, <2>6, <1>0, <1>3, CloneOthers
  <2>10. FramesKept(G)
    <3> SUFFICES ASSUME NEW k \in 1..Len(stack)
                 PROVE  LET x == stack[k].index IN
                        /\ G[x].set = H[x].set /\ G[x].clone = H[x].clone
                        /\ G[x].is_destroying = H[x].is_destroying
                        /\ H[x].set # "Identity" => G[x].refcount = H[x].refcount
      BY DEF FramesKept
    <3> DEFINE x == stack[k].index
    <3>1. x \in Slots /\ H[x].is_destroying
      BY FrameFacts
    <3>2. x # i
      BY <3>1
    <3> HIDE DEF x
    <3> QED BY <3>1, <3>2, <2>2, <2>7 DEF x
  <2>11. StackOK' /\ stack' \in Seq(Frame) /\ life' \in Lives
    <3>1. PICK pc \in {"OnHandleDestroy", "ReleasePrimHandle"} :
            stack' = Append(stack, [pc |-> pc, index |-> i, token |-> NULL])
      BY <2>1, DestroyTypes
    <3>2. G[i].is_destroying /\ G[i].refcount = 0 /\ G[i].set = H[i].set
      BY <2>2
    <3>3. G[i].clone = 0
      BY <2>7, <1>0
    <3>4. StackOK' /\ stack' \in Seq(Frame)
      BY <3>1, <3>2, <3>3, <2>10, <1>0, StackPushed
    <3> QED BY <3>4, <2>1, DestroyTypes
  <2>12. TypeOK'
    BY <1>4, <2>2, <2>11, TypeStep
  <2> QED BY <2>4, <2>5, <2>8, <2>9, <2>11, <2>12 DEF IInv
<1>6. CASE H[i].refcount # 1
  <2>1. Closed(G, i) /\ UNCHANGED <<stack, life>>
    BY <1>0, <1>6, FreeMasterFields DEF FreeMaster
  <2>2. /\ G \in Tables /\ Detached(G, i)
        /\ \A j \in Slots :
             /\ SameBody(G[j], H[j])
             /\ G[j].set = IF j = i THEN "Freed" ELSE H[j].set
             /\ G[j].is_destroying = H[j].is_destroying
             /\ H[j].set # "Identity" =>
                  G[j].refcount = IF j = i THEN H[i].refcount - 1 ELSE H[j].refcount
    BY <2>1 DEF Closed
  <2>3. Left(G, i)
    BY <2>2, <1>3 DEF Left
  <2>4. IdentitiesOK' /\ OwnersAlive' /\ OwnerChainOK' /\ IssuedOK'
    BY <2>3, <1>0, LeftCommon
  <2>5. FreeListOK'
    <3>1. \A j \in Slots : G[j].set = "None" <=> H[j].set = "None"
      BY <2>2
    <3> QED BY <3>1, <1>1, <1>3, FreeSame
  <2>6. \A j \in Slots : G[j].clone = H[j].clone
    BY <2>2 DEF SameBody
  <2>7. RefCountOK'
    <3>1. G[i].refcount = H[i].refcount - 1 /\ SelfRef(G[i]) = 0
      BY <2>2 DEF SelfRef
    <3>2. G[i].refcount = Cardinality(S) + SelfRef(G[i])
      BY <3>1, <1>2
    <3>3. \A j \in Slots : j # i =>
             /\ G[j].set = H[j].set /\ G[j].is_destroying = H[j].is_destroying
             /\ H[j].set # "Identity" => G[j].refcount = H[j].refcount
      BY <2>2
    <3>4. \A j \in Slots : H[j].clone # 0 => G[j].set = H[j].set
      BY <3>3, <1>0
    <3> QED BY <3>2, <3>3, <3>4, <2>6, RefOthers
  <2>8. CloneTargetOK'
    <3>1. G[i].set \in {"Used", "Freed"} /\ G[i].is_destroying = H[i].is_destroying
      BY <2>2
    <3> QED BY <3>1, <2>2, <1>0, <1>3, CloneOthers
  <2>9. FramesKept(G)
    <3> SUFFICES ASSUME NEW k \in 1..Len(stack)
                 PROVE  LET x == stack[k].index IN
                        /\ G[x].set = H[x].set /\ G[x].clone = H[x].clone
                        /\ G[x].is_destroying = H[x].is_destroying
                        /\ H[x].set # "Identity" => G[x].refcount = H[x].refcount
      BY DEF FramesKept
    <3> DEFINE x == stack[k].index
    <3>1. x \in Slots /\ H[x].is_destroying
      BY FrameFacts
    <3>2. x # i
      BY <3>1
    <3> HIDE DEF x
    <3> QED BY <3>1, <3>2, <2>2, <2>6 DEF x
  <2>10. StackOK'
    BY <2>1, <2>9, StackSame
  <2>11. TypeOK'
    <3>1. life \in Lives
      BY DEF IInv, TypeOK, Lives
    <3> QED BY <1>4, <2>1, <2>2, <3>1, TypeFacts, TypeStep
  <2> QED BY <2>4, <2>5, <2>7, <2>8, <2>10, <2>11 DEF IInv
<1> QED
  BY <1>5, <1>6

\* FreeHandle on a handle that a client may name.
LEMMA FreeSlotStep ==
  ASSUME IInv, NEW i \in Slots, m_Handles[i].set = "Used", i # 1, FreeSlot(i)
  PROVE  IInv'
<1>1. /\ ~m_Handles[i].is_destroying /\ ForgetByOwner(i)
      /\ FreeClone(i) \/ FreeMaster(i)
      /\ UNCHANGED <<alloc, tokens, ident>>
  BY DEF FreeSlot
<1> QED
  BY <1>1, FreeCloneStep, FreeMasterStep

\* The stack without its innermost frame.
LEMMA Popped ==
  ASSUME IInv, stack # <<>>, Pop
  PROVE  /\ Len(stack) \in Nat /\ Len(stack) >= 1 /\ Len(stack) \in 1..Len(stack)
         /\ stack' \in Seq(Frame) /\ Len(stack') = Len(stack) - 1
         /\ \A k \in 1..Len(stack') : k \in 1..Len(stack) /\ k # Len(stack) /\ stack'[k] = stack[k]
<1>1. stack \in Seq(Frame)
  BY TypeFacts
<1>2. stack' = SubSeq(stack, 1, Len(stack) - 1)
  BY DEF Pop
<1> DEFINE n == Len(stack)
<1>3. n \in Nat /\ n # 0
  BY <1>1
<1>4. n >= 1 /\ n \in 1..n /\ n - 1 \in Nat
  BY <1>3
<1>5. stack' \in Seq(Frame) /\ Len(stack') = n - 1
  <2>1. 1 \in 1..(n + 1) /\ n - 1 \in (1 - 1)..n /\ (n - 1) - 1 + 1 = n - 1
    BY <1>3
  <2> HIDE DEF n
  <2> QED BY <2>1, <1>1, <1>2, SubSeqProperties DEF n
<1>6. \A k \in 1..(n - 1) : k \in 1..n /\ k # n /\ stack'[k] = stack[k]
  BY <1>1, <1>2, <1>3
<1> QED
  BY <1>3, <1>4, <1>5, <1>6

\* The destructor returned: the slot is released.
LEMMA FinishReleaseStep ==
  ASSUME IInv, FinishRelease
  PROVE  IInv'
<1> DEFINE H == m_Handles
           G == m_Handles'
           n == Len(stack)
           i == stack[n].index
<1>0. /\ stack # <<>> /\ stack[n].pc \in {"OnHandleDestroy", "ReleasePrimHandle"}
      /\ G = Released(H, i) /\ PushFree(i) /\ Pop
      /\ UNCHANGED <<alloc, num_handles, tokens, ident, life>>
  BY DEF FinishRelease, Top
<1>1. /\ n \in Nat /\ n \in 1..n /\ stack' \in Seq(Frame) /\ Len(stack') = n - 1
      /\ \A k \in 1..Len(stack') : k \in 1..n /\ k # n /\ stack'[k] = stack[k]
  BY <1>0, Popped
<1>2. i \in Slots /\ H[i].is_destroying /\ Live(i) /\ H[i].clone = 0 /\ H[i].refcount = 0 /\ i # 1
  BY <1>0, <1>1, FrameFacts
<1> HIDE DEF i
<1>3. /\ G \in Tables
      /\ \A j \in Slots :
           /\ SameBody(G[j], H[j])
           /\ G[j].set = IF j = i THEN "None" ELSE H[j].set
           /\ j # i => G[j].is_destroying = H[j].is_destroying
           /\ H[j].set # "Identity" => G[j].refcount = H[j].refcount
      /\ Detached(G, i)
  <2>1. SameBody(H[i], H[i])
    BY DEF SameBody
  <2> QED BY <2>1, <1>0, <1>2, TypeFacts, ReleasedFields
<1>4. Left(G, i)
  <2>1. 1 \in Slots
    BY TableAssumption DEF Slots
  <2> QED BY <2>1, <1>2, <1>3 DEF Left
<1>5. IdentitiesOK' /\ OwnersAlive' /\ OwnerChainOK' /\ IssuedOK'
  BY <1>0, <1>2, <1>4, LeftCommon
<1>6. FreeListOK' /\ m_FreeHandles' \in Index /\ freeID' \in [Index -> Index]
  <2>1. m_HandleTail' = m_HandleTail
    BY <1>0 DEF alloc
  <2>2. /\ m_FreeHandles' = m_FreeHandles + 1
        /\ freeID' = [freeID EXCEPT ![m_FreeHandles + 1] = i]
    BY <1>0 DEF PushFree
  <2>3. /\ G[i].set = "None" /\ InUse(i)
        /\ \A j \in Slots : j # i => (G[j].set = "None" <=> H[j].set = "None")
    BY <1>2, <1>3 DEF InUse, Live
  <2> QED BY <1>2, <2>1, <2>2, <2>3, FreePush
<1>7. \A j \in Slots : G[j].clone = H[j].clone
  BY <1>3 DEF SameBody
<1>8. RefCountOK'
  <2>1. ~Counted(G[i])
    BY <1>2, <1>3 DEF Counted
  <2>2. \A j \in Slots : H[j].clone # 0 => G[j].set = H[j].set
    BY <1>2, <1>3
  <2>3. \A j \in Slots : j # i =>
          /\ G[j].set = H[j].set /\ G[j].is_destroying = H[j].is_destroying
          /\ H[j].set # "Identity" => G[j].refcount = H[j].refcount
    BY <1>3
  <2> QED BY <2>1, <2>2, <2>3, <1>2, <1>7, RefOthers
<1>9. ClonesIn(H, i) = {}
  <2> SUFFICES ASSUME NEW j \in Slots, H[j].set # "None", H[j].clone = i PROVE FALSE
    BY DEF ClonesIn
  <2>1. H[j].clone # 0
    BY <1>2, IndexFacts
  <2> QED BY <2>1, <1>2, CloneFacts
<1>10. CloneTargetOK'
  <2>1. birth' = birth
    BY <1>0 DEF alloc
  <2> QED BY <2>1, <1>2, <1>3, <1>9, CloneOthers
<1>11. StackOK'
  <2>0. m_HandleTail' = m_HandleTail /\ ident' = ident
    BY <1>0 DEF alloc
  <2>1. \A j, k \in 1..n : stack[j].index = stack[k].index => j = k
    BY DEF IInv, StackOK
  <2>2. ASSUME NEW k \in 1..Len(stack')
        PROVE  LET f == stack'[k] IN
               /\ f.index <= m_HandleTail /\ G[f.index].is_destroying
               /\ IF f.pc = "ReleaseIdentity"
                  THEN /\ G[f.index].set = "Identity" /\ k = 1 /\ f.token \in Idents
                       /\ ident[f.token].index = f.index
                  ELSE /\ G[f.index].set \in {"Used", "Freed"} /\ G[f.index].clone = 0
                       /\ G[f.index].refcount = 0
    <3> DEFINE f == stack[k]
    <3>1. k \in 1..n /\ k # n /\ stack'[k] = f
      BY <1>1
    <3>2. f.index # i
      BY <3>1, <2>1, <1>1 DEF i
    <3>3. /\ f.index \in Slots /\ f.index <= m_HandleTail /\ H[f.index].is_destroying
          /\ IF f.pc = "ReleaseIdentity"
             THEN /\ H[f.index].set = "Identity" /\ k = 1 /\ f.token \in Idents
                  /\ ident[f.token].index = f.index
             ELSE Live(f.index) /\ H[f.index].clone = 0 /\ H[f.index].refcount = 0
      BY <3>1, FrameFacts
    <3> HIDE DEF f
    <3> QED BY <3>1, <3>2, <3>3, <1>3, <1>7 DEF Live
  <2>3. \A j, k \in 1..Len(stack') : stack'[j].index = stack'[k].index => j = k
    BY <2>1, <1>1
  <2> QED BY <2>0, <2>2, <2>3 DEF StackOK, Live
<1>12. TypeOK'
  <2>1. life' \in Lives /\ num_handles' \in [Tokens -> Nat] /\ opened' \in [AllTypes -> Int]
    <3>1. life \in Lives
      BY DEF IInv, TypeOK, Lives
    <3> QED BY <3>1, <1>0, <1>2, CountFacts, PushTypes
  <2> QED BY <2>1, <1>0, <1>1, <1>3, <1>6, TypeStep
<1> QED
  BY <1>5, <1>6, <1>8, <1>10, <1>11, <1>12 DEF IInv

\* DestroyIdentity begins, or a token without a handle goes.
LEMMA DestroyIdentityStep ==
  ASSUME IInv, NEW t \in Idents, DestroyIdentity(t)
  PROVE  IInv'
<1> DEFINE H == m_Handles
           G == m_Handles'
           d == IdentityHandle(H, m_HandleTail, t)
<1>0. /\ stack = <<>> /\ t \in tokens
      /\ UNCHANGED <<alloc, freeID, m_FreeHandles, opened, ident, life>>
      /\ t \in Tokens \ {Root}
  BY TableAssumption DEF DestroyIdentity, Tokens
<1>00. UNCHANGED <<m_HandleTail, m_HSerial, issued, birth>>
  BY <1>0 DEF alloc
<1>1. CASE d = 0
  <2>1. tokens' = tokens \ {t} /\ UNCHANGED <<H, num_handles, stack>>
    BY <1>1 DEF DestroyIdentity
  <2>2. ~HasIdentity(t)
    <3> SUFFICES ASSUME HasIdentity(t) PROVE FALSE
      OBVIOUS
    <3> DEFINE e == ident[t].index
    <3>1. /\ e \in Slots /\ e \in 1..m_HandleTail
          /\ H[e].serial = ident[t].serial /\ H[e].set = "Identity"
      BY <1>0, IdentityFacts
    <3>2. e # 0 /\ ~(e > m_HandleTail)
      <4> HIDE DEF e
      <4> QED BY <3>1, NumFacts
    <3>3. d = e
      BY <3>1, <3>2 DEF IdentityHandle, GetHandle
    <3> QED BY <1>1, <3>2, <3>3
  <2>3. TypeOK'
    <3>1. TypeOK /\ tokens' \in SUBSET Tokens
      BY <2>1, TypeFacts DEF IInv
    <3> QED BY <3>1, <2>1, <1>0, <1>00 DEF TypeOK
  <2>4. IdentitiesOK'
    <3>1. \A u \in Tokens : HasIdentity(u) => u \in tokens'
      BY <2>1, <2>2, IdentityFacts
    <3>2. IdentitiesOK
      BY DEF IInv
    <3> QED BY <3>1, <3>2, <2>1, <1>0, <1>00 DEF IdentitiesOK, HasIdentity
  <2>5. OwnersAlive'
    <3>1. OwnersAlive
      BY DEF IInv
    <3> QED BY <3>1, <2>1, <2>2, <1>0 DEF OwnersAlive, HasIdentity, InUse
  <2>6. FreeListOK' /\ RefCountOK' /\ CloneTargetOK' /\ StackOK' /\ OwnerChainOK' /\ IssuedOK'
    <3>1. FreeListOK /\ RefCountOK /\ CloneTargetOK /\ StackOK /\ OwnerChainOK /\ IssuedOK
      BY DEF IInv
    <3>2. FreeListOK'
      BY <3>1, <2>1, <1>0, <1>00 DEF FreeListOK
    <3>3. RefCountOK' /\ CloneTargetOK'
      BY <3>1, <2>1, <1>0, <1>00 DEF RefCountOK, CloneTargetOK, Live, InUse, Clones
    <3>4. StackOK'
      BY <3>1, <2>1, <1>0, <1>00 DEF StackOK, Live
    <3>5. OwnerChainOK'
      BY <3>1, <2>1, <1>0, <1>00 DEF OwnerChainOK, HasIdentity
    <3>6. IssuedOK'
      BY <3>1, <2>1, <1>0, <1>00 DEF IssuedOK
    <3> QED BY <3>2, <3>3, <3>4, <3>5, <3>6
  <2> QED BY <2>3, <2>4, <2>5, <2>6 DEF IInv
<1>2. CASE d # 0
  <2> DEFINE f == [pc |-> "ReleaseIdentity", index |-> d, token |-> t]
  <2>1. /\ G = PutDying(H, d, TRUE) /\ ForgetByOwner(d) /\ stack' = <<f>> /\ tokens' = tokens
    BY <1>2 DEF DestroyIdentity, PutDying
  <2>2. /\ HasIdentity(t) /\ d = ident[t].index /\ d \in Slots /\ H[d].set = "Identity"
    BY <1>0, <1>2, SentinelFacts
  <2>3. d # 1 /\ d \in 1..m_HandleTail
    BY <1>0, <2>2, IdentityFacts
  <2> HIDE DEF d
  <2>4. OnlyDying(G, H, d, TRUE)
    BY <2>1, <2>2, TypeFacts, IndexFacts, PutDyingFields
  <2>5. /\ G \in Tables
        /\ \A j \in Slots :
             /\ SameBody(G[j], H[j])
             /\ G[j].set = H[j].set /\ G[j].owner = H[j].owner
             /\ G[j].refcount = H[j].refcount /\ G[j].ch_prev = H[j].ch_prev
             /\ G[j].ch_next = H[j].ch_next
             /\ G[j].is_destroying = IF j = d THEN TRUE ELSE H[j].is_destroying
    BY <2>4, IndexFacts DEF OnlyDying
  <2>6. Stays(G)
    <3>1. 1 \in Slots
      BY TableAssumption DEF Slots
    <3> QED BY <3>1, <2>3, <2>5 DEF Stays
  <2>7. IdentitiesOK' /\ OwnersAlive' /\ OwnerChainOK' /\ IssuedOK'
    BY <2>1, <2>6, <1>0, StaysCommon
  <2>8. FreeListOK'
    <3>1. \A j \in Slots : G[j].set = "None" <=> H[j].set = "None"
      BY <2>5
    <3> QED BY <3>1, <1>0, <1>00, FreeSame
  <2>9. \A j \in Slots : G[j].clone = H[j].clone
    BY <2>5 DEF SameBody
  <2>10. H[d].clone = 0
    BY <2>2, CloneFacts
  <2>11. RefCountOK'
    <3>1. ~Counted(G[d])
      BY <2>2, <2>5 DEF Counted
    <3>2. \A j \in Slots : /\ G[j].set = H[j].set /\ G[j].refcount = H[j].refcount
                           /\ j # d => G[j].is_destroying = H[j].is_destroying
      BY <2>5
    <3> QED BY <3>1, <3>2, <2>2, <2>9, RefOthers
  <2>12. ClonesIn(H, d) = {}
    <3> SUFFICES ASSUME NEW j \in Slots, H[j].set # "None", H[j].clone = d PROVE FALSE
      BY DEF ClonesIn
    <3>1. H[j].clone # 0
      BY <2>2, IndexFacts
    <3>2. Live(d)
      BY <3>1, CloneFacts
    <3> QED BY <3>2, <2>2 DEF Live
  <2>13. CloneTargetOK'
    BY <2>2, <2>5, <2>10, <2>12, <1>00, CloneOthers
  <2>14. f \in Frame /\ f.pc = "ReleaseIdentity" /\ f.index = d /\ f.token = t
    BY <2>2, <1>0 DEF Frame
  <2> HIDE DEF f
  <2>15. stack' \in Seq(Frame) /\ Len(stack') = 1 /\ stack'[1] = f
    BY <2>1, <2>14
  <2>16. StackOK'
    <3>1. d <= m_HandleTail
      BY <2>3, NumFacts
    <3>2. 1..Len(stack') = {1}
      BY <2>15
    <3>3. G[d].is_destroying /\ G[d].set = "Identity"
      BY <2>2, <2>5
    <3> QED BY <3>1, <3>2, <3>3, <2>2, <2>14, <2>15, <1>0, <1>00 DEF StackOK
  <2>17. TypeOK'
    <3>1. life \in Lives /\ m_FreeHandles \in Index
      BY DEF IInv, TypeOK, Lives
    <3> QED BY <3>1, <2>1, <2>5, <2>15, <1>0, TypeFacts, CountFacts, ForgetTypes, TypeStep
  <2> QED BY <2>7, <2>8, <2>11, <2>13, <2>16, <2>17 DEF IInv
<1> QED
  BY <1>1, <1>2

\* A chain without a tail belongs to an identity that owns nothing: from any
\* handle it owned, ch_next would lead to ever younger ones.
LEMMA EmptyChain ==
  ASSUME IInv, NEW t \in Tokens \ {Root}, HasIdentity(t), LastChild(ident[t].index) = 0
  PROVE  \A j \in Slots : ~Owns(m_Handles, t, j)
<1> DEFINE H == m_Handles
           S == {j \in Slots : Owns(H, t, j)}
           T == {MaxMade - birth[j] : j \in S}
           R == OpToRel(<, Nat)
<1>1. ChainOK(H, birth, t, ident[t].index)
  BY DEF IInv, OwnerChainOK
<1>2. ASSUME NEW j \in S
      PROVE  H[j].ch_next \in S /\ birth[j] < birth[H[j].ch_next]
  <2>1. j \in Slots /\ Owns(H, t, j)
    OBVIOUS
  <2>2. /\ H[j].ch_next = 0 => j = H[ident[t].index].ch_next
        /\ H[j].ch_next # 0 => Owns(H, t, H[j].ch_next) /\ birth[j] < birth[H[j].ch_next]
    BY <1>1, <2>1 DEF ChainOK
  <2>3. j # 0 /\ H[j].ch_next \in Index
    BY <2>1, TypeFacts, TableFacts, IndexFacts
  <2>4. H[ident[t].index].ch_next = 0
    BY DEF LastChild
  <2>5. H[j].ch_next # 0
    BY <2>2, <2>3, <2>4
  <2> QED BY <2>2, <2>3, <2>5, IndexFacts
<1>3. \A j \in S : birth[j] \in Nat /\ birth[j] <= MaxMade
  BY BirthFacts
<1>4. MaxMade \in Nat
  BY TableAssumption
<1>5. T \subseteq Nat
  <2> HIDE DEF S
  <2> QED BY <1>3, <1>4
<1>6. ASSUME S # {} PROVE FALSE
  <2> HIDE DEF S
  <2>1. T # {}
    BY <1>6
  <2>2. \E x \in T : \A y \in T : ~(<<y, x>> \in R)
    <3> HIDE DEF T, R
    <3>1. IsWellFoundedOn(R, Nat)
      BY NatLessThanWellFounded DEF R
    <3> QED BY <2>1, <1>5, <3>1, WFMin
  <2>3. PICK j \in S : \A y \in T : ~(<<y, MaxMade - birth[j]>> \in R)
    BY <2>2
  <2> DEFINE k == H[j].ch_next
  <2>4. k \in S /\ birth[j] < birth[k]
    BY <1>2
  <2>5. MaxMade - birth[k] \in T
    BY <2>4
  <2>6. /\ MaxMade - birth[k] < MaxMade - birth[j]
        /\ MaxMade - birth[k] \in Nat /\ MaxMade - birth[j] \in Nat
    <3>1. birth[j] \in Nat /\ birth[k] \in Nat /\ birth[k] <= MaxMade /\ birth[j] <= MaxMade
      BY <1>3, <2>4
    <3> HIDE DEF k
    <3> QED BY <3>1, <2>4, <1>4
  <2>7. <<MaxMade - birth[k], MaxMade - birth[j]>> \in R
    BY <2>6 DEF OpToRel
  <2> QED BY <2>3, <2>5, <2>7
<1> QED
  BY <1>6

\* The identity's own slot goes, with its token.
LEMMA FinishIdentityStep ==
  ASSUME IInv, FinishIdentity
  PROVE  IInv'
<1> DEFINE H == m_Handles
           G == m_Handles'
           n == Len(stack)
           d == stack[n].index
           t == stack[n].token
<1>0. /\ stack # <<>> /\ stack[n].pc = "ReleaseIdentity" /\ LastChild(d) = 0
      /\ G = [H EXCEPT ![d].set = "None"]
      /\ PushFree(d) /\ Pop
      /\ tokens' = tokens \ {t}
      /\ num_handles' = [num_handles EXCEPT ![t] = 0]
      /\ ident' = [ident EXCEPT ![t] = NoHandle]
      /\ UNCHANGED <<alloc, life>>
  BY DEF FinishIdentity, Top
<1>00. UNCHANGED <<m_HandleTail, m_HSerial, issued, birth, life>>
  BY <1>0 DEF alloc
<1>1. /\ n \in Nat /\ n \in 1..n /\ stack' \in Seq(Frame) /\ Len(stack') = n - 1
  BY <1>0, Popped
<1>2. /\ d \in Slots /\ d # 1 /\ H[d].set = "Identity" /\ n = 1 /\ t \in Idents
      /\ ident[t].index = d /\ HasIdentity(t)
  BY <1>0, <1>1, FrameFacts
<1>3. Len(stack') = 0
  BY <1>1, <1>2
<1>4. t \in Tokens \ {Root} /\ t # Core /\ t # NULL
  BY <1>2, TableAssumption DEF Tokens
<1> HIDE DEF d, t, n
<1>5. /\ \A u \in Tokens : ident'[u] = IF u = t THEN NoHandle ELSE ident[u]
      /\ ident' \in [Tokens -> Handle_t]
  <2>1. ident \in [Tokens -> Handle_t]
    BY TypeFacts
  <2>2. NoHandle \in Handle_t
    BY TableAssumption DEF NoHandle, Handle_t, Index
  <2> QED BY <2>1, <2>2, <1>0, <1>4
<1>6. OnlySet(G, H, d, "None")
  <2>1. G = PutSet(H, d, "None") /\ "None" \in HandleSet
    BY <1>0 DEF PutSet, HandleSet
  <2> QED BY <2>1, <1>2, TypeFacts, IndexFacts, PutSetFields
<1>7. /\ G \in Tables
      /\ \A j \in Slots :
           /\ SameBody(G[j], H[j])
           /\ G[j].set = IF j = d THEN "None" ELSE H[j].set
           /\ G[j].owner = H[j].owner /\ G[j].refcount = H[j].refcount
           /\ G[j].ch_prev = H[j].ch_prev /\ G[j].ch_next = H[j].ch_next
           /\ G[j].is_destroying = H[j].is_destroying
  BY <1>6, IndexFacts DEF OnlySet
<1>8. \A j \in Slots : G[j].clone = H[j].clone /\ G[j].serial = H[j].serial
  BY <1>7 DEF SameBody
<1>9. \A j \in Slots : H[j].set # "None" /\ j # d => H[j].owner # t
  <2>1. \A j \in Slots : ~Owns(H, t, j)
    BY <1>0, <1>2, <1>4, EmptyChain
  <2> SUFFICES ASSUME NEW j \in Slots, H[j].set # "None", H[j].owner = t PROVE FALSE
    OBVIOUS
  <2>2. H[j].set = "Identity" => H[j].owner = Root
    BY DEF IInv, OwnersAlive, InUse
  <2>3. H[j].set \in {"Used", "Freed"}
    <3>1. H[j].set \in HandleSet
      BY TypeFacts, TableFacts, IndexFacts
    <3> QED BY <3>1, <2>2, <1>4 DEF HandleSet
  <2> QED BY <2>1, <2>3, IndexFacts DEF Owns
<1>10. FreeListOK' /\ m_FreeHandles' \in Index /\ freeID' \in [Index -> Index]
  <2>2. /\ m_FreeHandles' = m_FreeHandles + 1
        /\ freeID' = [freeID EXCEPT ![m_FreeHandles + 1] = d]
    BY <1>0 DEF PushFree
  <2>3. /\ G[d].set = "None" /\ InUse(d)
        /\ \A j \in Slots : j # d => (G[j].set = "None" <=> H[j].set = "None")
    BY <1>2, <1>7 DEF InUse
  <2> QED BY <1>00, <1>2, <2>2, <2>3, FreePush
<1>11. H[d].clone = 0
  BY <1>2, CloneFacts
<1>12. RefCountOK'
  <2>1. ~Counted(G[d])
    BY <1>2, <1>7 DEF Counted
  <2>2. \A j \in Slots : H[j].clone # 0 => G[j].set = H[j].set
    BY <1>7, <1>11
  <2>3. \A j \in Slots : j # d =>
          /\ G[j].set = H[j].set /\ G[j].is_destroying = H[j].is_destroying
          /\ H[j].set # "Identity" => G[j].refcount = H[j].refcount
    BY <1>7
  <2> QED BY <2>1, <2>2, <2>3, <1>2, <1>8, RefOthers
<1>13. CloneTargetOK'
  <2>1. ClonesIn(H, d) = {}
    <3> SUFFICES ASSUME NEW j \in Slots, H[j].set # "None", H[j].clone = d PROVE FALSE
      BY DEF ClonesIn
    <3>1. H[j].clone # 0
      BY <1>2, IndexFacts
    <3>2. Live(d)
      BY <3>1, CloneFacts
    <3> QED BY <3>2, <1>2 DEF Live
  <2> QED BY <2>1, <1>00, <1>2, <1>7, <1>11, CloneOthers
<1>14. StackOK'
  <2>1. 1..Len(stack') = {}
    BY <1>3
  <2> QED BY <2>1 DEF StackOK
<1>15. \A u \in Tokens : ident'[u] # NoHandle =>
         /\ u # t /\ HasIdentity(u) /\ ident'[u] = ident[u] /\ ident[u].index # d
  <2>1. \A u \in Tokens : HasIdentity(u) /\ ident[u].index = ident[t].index => u = t
    BY <1>4 DEF IInv, IdentitiesOK
  <2> QED BY <2>1, <1>2, <1>5 DEF HasIdentity
<1>16. IdentitiesOK'
  <2>1. ASSUME NEW u \in Tokens, ident'[u] # NoHandle
        PROVE  /\ u \in tokens' /\ ident'[u].index \in 1..m_HandleTail
               /\ G[ident'[u].index].serial = ident'[u].serial
               /\ G[ident'[u].index].set = IF u = Root THEN "Used" ELSE "Identity"
    <3> DEFINE e == ident[u].index
    <3>1. /\ u # t /\ HasIdentity(u) /\ ident'[u] = ident[u] /\ e # d
      BY <2>1, <1>15
    <3>2. /\ e \in Slots /\ e \in 1..m_HandleTail /\ u \in tokens
          /\ H[e].serial = ident[u].serial
          /\ H[e].set = IF u = Root THEN "Used" ELSE "Identity"
      BY <3>1, IdentityFacts
    <3> QED BY <3>1, <3>2, <1>0, <1>7, <1>8
  <2>2. ASSUME NEW u \in Tokens, NEW v \in Tokens, ident'[u] # NoHandle,
               ident'[u].index = ident'[v].index
        PROVE  u = v
    <3>1. /\ u # t /\ HasIdentity(u) /\ ident'[u] = ident[u] /\ ident[u].index # d
      BY <2>2, <1>15
    <3>2. CASE v = t
      <4>1. ident[u].index = 0
        BY <2>2, <3>1, <3>2, <1>5 DEF NoHandle
      <4> QED BY <4>1, <3>1, IdentityFacts, IndexFacts
    <3>3. CASE v # t
      <4>1. ident[u].index = ident[v].index
        BY <2>2, <3>1, <3>3, <1>5
      <4> QED BY <4>1, <3>1 DEF IInv, IdentitiesOK
    <3> QED BY <3>2, <3>3
  <2>3. ident'[Root] # NoHandle /\ ident'[Core] # NoHandle
    <3>1. HasIdentity(Root) /\ HasIdentity(Core) /\ Root \in Tokens /\ Core \in Tokens
      BY DEF IInv, IdentitiesOK, Tokens
    <3> QED BY <3>1, <1>4, <1>5 DEF HasIdentity
  <2> QED BY <2>1, <2>2, <2>3, <1>00 DEF IdentitiesOK, HasIdentity
<1>17. OwnersAlive'
  <2>1. ASSUME NEW j \in Slots, G[j].set # "None"
        PROVE  /\ G[j].owner # NULL => G[j].owner \in tokens' /\ ident'[G[j].owner] # NoHandle
               /\ G[j].set = "Identity" <=> G[j].owner = Root
               /\ G[j].set = "Freed" => G[j].owner = NULL
    <3>1. j # d /\ G[j].set = H[j].set /\ G[j].owner = H[j].owner /\ H[j].owner # t
      BY <2>1, <1>7, <1>9
    <3>2. /\ H[j].owner # NULL => H[j].owner \in tokens /\ HasIdentity(H[j].owner)
          /\ H[j].set = "Identity" <=> H[j].owner = Root
          /\ H[j].set = "Freed" => H[j].owner = NULL
      BY <2>1, <3>1 DEF IInv, OwnersAlive, InUse
    <3>3. H[j].owner \in Tokens \cup {NULL}
      BY TypeFacts, TableFacts, IndexFacts
    <3> QED BY <3>1, <3>2, <3>3, <1>0, <1>5 DEF HasIdentity
  <2> QED BY <2>1 DEF OwnersAlive, InUse, HasIdentity
<1>18. OwnerChainOK'
  <2>1. ASSUME NEW u \in Tokens \ {Root}, ident'[u] # NoHandle
        PROVE  ChainOK(G, birth, u, ident'[u].index)
    <3>1. HasIdentity(u) /\ ident'[u] = ident[u]
      BY <2>1, <1>15
    <3>2. \A j \in Slots : Owns(G, u, j) <=> Owns(H, u, j)
      BY <1>2, <1>7 DEF Owns
    <3>3. \A j \in Slots : j = ident[u].index \/ Owns(H, u, j) =>
            /\ G[j].ch_next = H[j].ch_next /\ G[j].ch_prev = H[j].ch_prev
            /\ j # ident[u].index => birth[j] = birth[j]
      BY <1>7
    <3>4. ChainOK(G, birth, u, ident[u].index)
      BY <3>1, <3>2, <3>3, ChainKept
    <3> QED BY <3>1, <3>4
  <2> QED BY <2>1, <1>00 DEF OwnerChainOK, HasIdentity
<1>19. IssuedOK'
  <2>1. /\ Len(issued) >= 2 /\ ident[Root].index = 1 /\ H[1].owner = NULL /\ ~H[1].is_destroying
        /\ \A j \in Slots : birth[j] <= Len(issued) /\ H[j].clone # 1
        /\ \A k \in 2..Len(issued) : issued[k].index \in 2..m_HandleTail
    BY DEF IInv, IssuedOK
  <2>2. 1 \in Slots
    BY TableAssumption DEF Slots
  <2>3. G[1].owner = NULL /\ ~G[1].is_destroying
    BY <2>1, <2>2, <1>7
  <2>4. ident'[Root].index = 1
    BY <2>1, <1>4, <1>5 DEF Tokens
  <2> QED BY <1>00, <1>8, <2>1, <2>3, <2>4 DEF IssuedOK
<1>20. TypeOK'
  <2>1. tokens' \in SUBSET Tokens
    BY <1>0, TypeFacts
  <2>2. num_handles' \in [Tokens -> Nat] /\ opened' \in [AllTypes -> Int]
    <3>1. opened' \in [AllTypes -> Int]
      BY <1>0, <1>2, PushTypes
    <3> QED BY <3>1, <1>0, CountFacts
  <2>3. TypeOK
    BY DEF IInv
  <2>4. life' = life /\ m_HandleTail' = m_HandleTail /\ m_HSerial' = m_HSerial
        /\ issued' = issued /\ birth' = birth
    BY <1>00
  <2> QED BY <2>1, <2>2, <2>3, <2>4, <1>1, <1>5, <1>7, <1>10 DEF TypeOK, Tables
<1> QED
  BY <1>10, <1>12, <1>13, <1>14, <1>16, <1>17, <1>18, <1>19, <1>20 DEF IInv

-----------------------------------------------------------------------------
(* Every action preserves the invariant.                                   *)

\* A new identity, or a token left without a handle at the limit.
LEMMA CreateIdentityStep ==
  ASSUME IInv, NEW t \in Idents, CreateIdentity(t)
  PROVE  IInv'
<1>0. t \in Idents \ tokens /\ t \in Tokens /\ tokens' = tokens \cup {t}
  BY DEF CreateIdentity, Tokens
<1>1. CASE /\ MakePrimHandle(IdentType, Root)
           /\ m_Handles' = Filled(m_Handles, IdentType, Root, "Identity", 0, 0, NULL)
           /\ ident' = [ident EXCEPT ![t] = [index |-> TryAllocHandle, serial |-> NextSerial]]
           /\ UNCHANGED life
  <2>1. ~AtLimit
    BY <1>1 DEF MakePrimHandle
  <2>2. /\ IdentType \in AllTypes /\ Root \in Tokens \cup {NULL} /\ 0 \in 0..MaxMade
        /\ 0 \in Index /\ NULL \in Access \cup {NULL}
    BY TableAssumption DEF AllTypes, Tokens, Index
  <2>3. Made(m_Handles', TryAllocHandle, IdentType, Root, "Identity", 0, NULL, 0)
    BY <1>1, <2>1, <2>2, FilledFields
  <2> QED BY <1>0, <1>1, <2>3, IdentityMade
<1>2. CASE /\ AtLimit
           /\ ident' = [ident EXCEPT ![t] = NoHandle]
           /\ UNCHANGED <<table, alloc, stack, life>>
  <2>1. UNCHANGED <<m_Handles, freeID, m_FreeHandles, opened, num_handles,
                    m_HandleTail, m_HSerial, issued, birth, stack, life>>
    BY <1>2 DEF table, alloc
  <2>2. ident' = ident
    <3>1. ident \in [Tokens -> Handle_t]
      BY TypeFacts
    <3>2. ident[t] = NoHandle
      BY <1>0, IdentityFacts DEF HasIdentity
    <3> QED BY <3>1, <3>2, <1>0, <1>2
  <2>3. TypeOK'
    <3>1. TypeOK /\ tokens' \in SUBSET Tokens
      BY <1>0, TypeFacts DEF IInv
    <3> QED BY <3>1, <2>1, <2>2 DEF TypeOK
  <2>4. IdentitiesOK' /\ OwnersAlive'
    BY <1>0, <2>1, <2>2 DEF IInv, IdentitiesOK, OwnersAlive, HasIdentity, InUse
  <2>5. FreeListOK' /\ RefCountOK' /\ CloneTargetOK'
    BY <2>1 DEF IInv, FreeListOK, RefCountOK, CloneTargetOK, Live, InUse, Clones
  <2>6. StackOK' /\ OwnerChainOK' /\ IssuedOK'
    BY <2>1, <2>2 DEF IInv, StackOK, OwnerChainOK, IssuedOK, Live, HasIdentity
  <2> QED BY <2>3, <2>4, <2>5, <2>6 DEF IInv
<1> QED
  BY <1>1, <1>2 DEF CreateIdentity

\* What MakePrimHandle's guards say of the owner.
LEMMA OwnerFacts ==
  ASSUME IInv, NEW type, NEW o \in Owners, MakePrimHandle(type, o)
  PROVE  /\ o \in Tokens \cup {NULL} /\ ~AtLimit
         /\ o # NULL => /\ o # Root /\ HasIdentity(o)
                        /\ IdentityHandle(m_Handles, m_HandleTail, o) # 0
<1>1. o \in Tokens \cup {NULL} /\ (o # NULL => o \in Tokens \ {Root})
  BY TypeFacts DEF Owners
<1>2. ~AtLimit /\ (o # NULL => IdentityHandle(m_Handles, m_HandleTail, o) # 0)
  BY DEF MakePrimHandle
<1> QED
  BY <1>1, <1>2, SentinelFacts

\* CreateHandleEx fills a slot for a live owner or for nobody.
LEMMA CreateHandleStep ==
  ASSUME IInv, NEW type \in Types, NEW b \in BOOLEAN, NEW o \in Owners, NEW s,
         NEW sec \in AccessRules \cup {NULL}, CreateHandle(type, b, o, s, sec)
  PROVE  IInv'
<1> DEFINE object == IF b THEN Len(issued) + 1 ELSE 0
<1>1. /\ MakePrimHandle(type, o)
      /\ m_Handles' = Filled(m_Handles, type, o, "Used", object, 0, sec)
      /\ life' = IF b THEN [life EXCEPT ![object] = "live"] ELSE life
      /\ UNCHANGED <<tokens, ident>>
  BY DEF CreateHandle
<1>2. /\ o \in Tokens \cup {NULL} /\ ~AtLimit
      /\ o # NULL => /\ o # Root /\ HasIdentity(o)
                     /\ IdentityHandle(m_Handles, m_HandleTail, o) # 0
  BY <1>1, OwnerFacts
<1>3. /\ type \in AllTypes /\ sec \in Access \cup {NULL} /\ 0 \in Index
  BY SecurityAssumption, TableAssumption DEF AllTypes, Index
<1>4. object \in 0..MaxMade
  <2>1. Len(issued) < MaxMade
    BY <1>1 DEF MakePrimHandle
  <2> QED BY <2>1, NumFacts, TableAssumption
<1>5. life' \in Lives
  <2>1. life \in Lives
    BY DEF IInv, TypeOK, Lives
  <2> HIDE DEF object
  <2> QED BY <2>1, <1>1 DEF Lives
<1> HIDE DEF object
<1>6. Made(m_Handles', TryAllocHandle, type, o, "Used", 0, sec, 0)
  BY <1>1, <1>2, <1>3, <1>4, FilledFields
<1> QED
  BY <1>1, <1>2, <1>3, <1>5, <1>6, HandleMade

\* The slot of a Handle_t that clients hold and that decodes.
LEMMA HeldFacts ==
  ASSUME IInv, NEW h \in Held, NEW id, id # Root,
         GetHandle(m_Handles, m_HandleTail, h, id) = "HandleError_None"
  PROVE  h.index \in Slots /\ h.index # 1 /\ m_Handles[h.index].set = "Used"
<1>1. PICK n \in 2..Len(issued) : h = issued[n]
  BY DEF Held
<1>2. h.index \in 2..m_HandleTail
  BY <1>1 DEF IInv, IssuedOK
<1>3. h.index \in Slots /\ h.index # 1 /\ h.index # 0 /\ ~(h.index > m_HandleTail)
  BY <1>2, NumFacts, TableAssumption DEF Slots
<1>4. m_Handles[h.index].set \in HandleSet
  BY <1>3, TypeFacts, TableFacts, IndexFacts
<1>5. m_Handles[h.index].set \notin {"None", "Freed", "Identity"}
  BY <1>3 DEF GetHandle
<1> QED
  BY <1>3, <1>4, <1>5 DEF HandleSet

\* The slot a clone is made of is a master, not a clone and not the root's.
LEMMA MasterFacts ==
  ASSUME IInv, NEW i \in Slots, i # 1, m_Handles[i].set = "Used",
         Clonable(Master(m_Handles, i))
  PROVE  LET m == Master(m_Handles, i) IN
         /\ m \in Slots /\ m # 0 /\ m \in Index /\ Live(m)
         /\ m_Handles[m].type \in AllTypes
         /\ MayClone(m, m_Handles[m].type, m_Handles[m].sec)
<1> DEFINE m == Master(m_Handles, i)
<1>1. m \in Slots /\ Live(m) /\ m_Handles[m].clone = 0 /\ m # 1
  <2>1. CASE m_Handles[i].clone = 0
    BY <2>1 DEF Master, Live
  <2>2. CASE m_Handles[i].clone # 0
    <3>1. m = m_Handles[i].clone
      BY <2>2 DEF Master
    <3>2. m # 1
      BY <3>1 DEF IInv, IssuedOK
    <3> QED BY <2>2, <3>1, <3>2, CloneFacts
  <2> QED BY <2>1, <2>2
<1>2. ~m_Handles[m].is_destroying
  BY DEF Clonable
<1> HIDE DEF m
<1>3. m # 0 /\ m \in Index /\ m_Handles[m].type \in AllTypes
  BY <1>1, TypeFacts, TableFacts, IndexFacts
<1> QED
  BY <1>1, <1>2, <1>3 DEF MayClone, m

\* CloneHandle and FastCloneHandle, once their Handle_t decoded.
LEMMA CloneStep ==
  ASSUME IInv, NEW i \in Slots, i # 1, m_Handles[i].set = "Used", NEW o \in Owners,
         CloneMaster(Master(m_Handles, i), o)
  PROVE  IInv'
<1> DEFINE m == Master(m_Handles, i)
           type == m_Handles[m].type
           sec == m_Handles[m].sec
<1>1. /\ Clonable(m) /\ MakePrimHandle(type, o)
      /\ m_Handles' = AddRef(Filled(m_Handles, type, o, "Used", 0, m, sec), m)
      /\ UNCHANGED <<tokens, ident, life>>
  BY DEF CloneMaster
<1>2. /\ m \in Slots /\ m # 0 /\ m \in Index /\ Live(m) /\ type \in AllTypes
      /\ MayClone(m, type, sec)
  BY <1>1, MasterFacts
<1>3. /\ o \in Tokens \cup {NULL} /\ ~AtLimit
      /\ o # NULL => /\ o # Root /\ HasIdentity(o)
                     /\ IdentityHandle(m_Handles, m_HandleTail, o) # 0
  BY <1>1, OwnerFacts
<1>4. Made(m_Handles', TryAllocHandle, type, o, "Used", m, sec, m)
  <2> HIDE DEF m
  <2> QED BY <1>1, <1>2, <1>3, ClonedFields
<1>5. life' \in Lives
  BY <1>1 DEF IInv, TypeOK, Lives
<1> HIDE DEF m, type, sec
<1> QED
  BY <1>1, <1>2, <1>3, <1>4, <1>5, HandleMade

\* One round of the child loop frees a handle the identity owns.
LEMMA ReleaseChildStep ==
  ASSUME IInv, ReleaseChild
  PROVE  IInv'
<1> DEFINE n == Len(stack)
           d == stack[n].index
           t == stack[n].token
           i == m_Handles[d].ch_next
<1>1. stack # <<>> /\ stack[n].pc = "ReleaseIdentity" /\ i # 0 /\ FreeSlot(i)
  BY DEF ReleaseChild, Top, LastChild
<1>2. n \in 1..n
  <2>1. stack \in Seq(Frame)
    BY TypeFacts
  <2> QED BY <2>1, <1>1
<1>3. /\ d \in Slots /\ t \in Idents /\ ident[t].index = d /\ HasIdentity(t)
  BY <1>1, <1>2, FrameFacts
<1>4. t \in Tokens \ {Root} /\ t # NULL
  BY <1>3, TableAssumption DEF Tokens
<1> HIDE DEF n, t
<1>5. Owns(m_Handles, t, i)
  BY <1>1, <1>3, <1>4 DEF IInv, OwnerChainOK, ChainOK
<1>6. i \in Slots
  <2>1. i \in Index
    BY <1>3, TypeFacts, TableFacts, IndexFacts
  <2> QED BY <2>1, <1>1, IndexFacts
<1>7. m_Handles[i].set = "Used" /\ i # 1
  BY <1>4, <1>5, <1>6 DEF Owns, IInv, OwnersAlive, InUse, IssuedOK
<1> QED
  BY <1>1, <1>6, <1>7, FreeSlotStep

\* The table after ShareSystem::Initialize and CreateCoreIdentity.
LEMMA InitInv ==
  ASSUME Init
  PROVE  IInv
<1>0. /\ MaxHandles \in Nat /\ MaxHandles >= 2 /\ MaxSerials \in Nat /\ MaxSerials >= 4
      /\ MaxMade \in Nat /\ MaxMade >= 2
      /\ Root # Core /\ Root \in Tokens /\ Core \in Tokens /\ NULL \notin Tokens
  BY TableAssumption DEF Tokens
<1>1. 0 \in Index /\ 1 \in Slots /\ 2 \in Slots /\ 1 \in Index /\ 2 \in Index
      /\ Slots \subseteq Index /\ 0 \notin Slots
  BY <1>0 DEF Index, Slots
<1>20. ASSUME NEW set \in HandleSet, NEW owner \in Tokens \cup {NULL},
              NEW serial \in 0..(MaxSerials - 1), NEW refcount \in Int
       PROVE  BootHandle(set, owner, serial, refcount) \in QHandle
  <2>1. 0 \in 0..MaxMade /\ IdentType \in AllTypes
    BY <1>0 DEF AllTypes
  <2> QED BY <2>1, <1>1 DEF QHandle, BootHandle
<1>2. /\ Blank \in QHandle
      /\ BootHandle("Used", NULL, 1, 1) \in QHandle
      /\ BootHandle("Identity", Root, 2, 1) \in QHandle
  <2>1. {0, 1, 2} \subseteq 0..(MaxSerials - 1)
    BY <1>0
  <2>2. {"None", "Used", "Identity"} \subseteq HandleSet
    BY DEF HandleSet
  <2> QED BY <2>1, <2>2, <1>0, <1>20 DEF Blank
<1>3. \A i \in Slots :
        /\ m_Handles[i] = IF i = 1 THEN BootHandle("Used", NULL, 1, 1)
                          ELSE IF i = 2 THEN BootHandle("Identity", Root, 2, 1) ELSE Blank
  BY <1>1 DEF Init
<1>4. \A i \in Slots :
        /\ m_Handles[i].set = IF i = 1 THEN "Used" ELSE IF i = 2 THEN "Identity" ELSE "None"
        /\ m_Handles[i].owner = IF i = 2 THEN Root ELSE NULL
        /\ m_Handles[i].clone = 0 /\ ~m_Handles[i].is_destroying
        /\ m_Handles[i].ch_prev = 0 /\ m_Handles[i].ch_next = 0
        /\ i = 1 => m_Handles[i].serial = 1 /\ m_Handles[i].refcount = 1
        /\ i = 2 => m_Handles[i].serial = 2
  <2> SUFFICES ASSUME NEW i \in Slots
               PROVE  /\ m_Handles[i].set = IF i = 1 THEN "Used"
                                            ELSE IF i = 2 THEN "Identity" ELSE "None"
                      /\ m_Handles[i].owner = IF i = 2 THEN Root ELSE NULL
                      /\ m_Handles[i].clone = 0 /\ ~m_Handles[i].is_destroying
                      /\ m_Handles[i].ch_prev = 0 /\ m_Handles[i].ch_next = 0
                      /\ i = 1 => m_Handles[i].serial = 1 /\ m_Handles[i].refcount = 1
                      /\ i = 2 => m_Handles[i].serial = 2
    OBVIOUS
  <2>1. CASE i = 1
    BY <2>1, <1>3 DEF BootHandle, Blank
  <2>2. CASE i = 2
    BY <2>2, <1>3 DEF BootHandle, Blank
  <2>3. CASE i # 1 /\ i # 2
    BY <2>3, <1>3 DEF BootHandle, Blank
  <2> QED BY <2>1, <2>2, <2>3
<1>5. /\ issued = <<[index |-> 1, serial |-> 1], [index |-> 2, serial |-> 2]>>
      /\ Len(issued) = 2 /\ issued[1] = [index |-> 1, serial |-> 1]
      /\ issued[2] = [index |-> 2, serial |-> 2]
      /\ issued \in Seq(Handle_t)
  <2>1. [index |-> 1, serial |-> 1] \in Handle_t /\ [index |-> 2, serial |-> 2] \in Handle_t
    BY <1>0, <1>1 DEF Handle_t
  <2>2. issued = <<[index |-> 1, serial |-> 1], [index |-> 2, serial |-> 2]>>
    BY DEF Init
  <2> QED BY <2>1, <2>2
<1>6. /\ \A t \in Tokens : ident[t] = IF t = Root THEN [index |-> 1, serial |-> 1]
                                      ELSE IF t = Core THEN [index |-> 2, serial |-> 2]
                                      ELSE NoHandle
      /\ ident \in [Tokens -> Handle_t]
  <2>1. /\ [index |-> 1, serial |-> 1] \in Handle_t /\ [index |-> 2, serial |-> 2] \in Handle_t
        /\ NoHandle \in Handle_t
    BY <1>0, <1>1 DEF Handle_t, NoHandle
  <2>2. ident = [t \in Tokens |-> IF t = Root THEN issued[1]
                                  ELSE IF t = Core THEN issued[2] ELSE NoHandle]
    BY DEF Init
  <2> QED BY <2>1, <2>2, <1>5
<1>7. /\ freeID = [i \in Index |-> 0] /\ m_FreeHandles = 0 /\ m_HandleTail = 2 /\ m_HSerial = 2
      /\ tokens = {Root, Core} /\ stack = <<>>
      /\ birth = [i \in Index |-> IF i \in {1, 2} THEN i ELSE 0]
  BY DEF Init
<1>8. TypeOK
  <2>1. m_Handles \in [Index -> QHandle]
    BY <1>2 DEF Init
  <2>2. opened \in [AllTypes -> Int]
    BY DEF Init
  <2>3. num_handles \in [Tokens -> Nat]
    BY DEF Init
  <2>4. life \in [1..MaxMade -> {"none", "live", "destroyed", "destroyed twice"}]
    BY DEF Init
  <2>5. birth \in [Index -> 0..MaxMade] /\ freeID \in [Index -> Index]
    BY <1>0, <1>1, <1>7
  <2>6. stack \in Seq(Frame)
    BY <1>7
  <2>7. /\ m_FreeHandles \in Index /\ m_HandleTail \in Index /\ m_HSerial \in 1..(MaxSerials - 1)
        /\ tokens \in SUBSET Tokens /\ Len(issued) <= MaxMade
    BY <1>0, <1>1, <1>5, <1>7
  <2> QED BY <2>1, <2>2, <2>3, <2>4, <2>5, <2>6, <2>7, <1>5, <1>6 DEF TypeOK
<1>9. FreeListOK
  <2>1. \A i \in 1..m_HandleTail : i = 1 \/ i = 2
    BY <1>7
  <2>2. \A i \in Slots : i > m_HandleTail => i # 1 /\ i # 2
    BY <1>7
  <2> QED BY <2>1, <2>2, <1>1, <1>4, <1>7 DEF FreeListOK
<1>10. RefCountOK
  <2>1. ASSUME NEW i \in Slots, Live(i), m_Handles[i].clone = 0
        PROVE  m_Handles[i].refcount = Cardinality(Clones(i)) +
                 IF m_Handles[i].set = "Used" /\ ~m_Handles[i].is_destroying THEN 1 ELSE 0
    <3>1. i = 1
      BY <2>1, <1>4 DEF Live
    <3>2. Clones(i) = {}
      <4>1. \A j \in Slots : m_Handles[j].clone # i
        BY <3>1, <1>4
      <4> QED BY <4>1 DEF Clones
    <3>3. Cardinality(Clones(i)) = 0
      BY <3>2, FS_EmptySet
    <3> QED BY <3>1, <3>3, <1>4
  <2> QED BY <2>1 DEF RefCountOK
<1>11. CloneTargetOK
  BY <1>4 DEF CloneTargetOK
<1>12. StackOK
  BY <1>7 DEF StackOK
<1>13. IdentitiesOK
  BY <1>0, <1>1, <1>4, <1>6, <1>7 DEF IdentitiesOK, HasIdentity, NoHandle
<1>14. OwnersAlive
  BY <1>0, <1>4, <1>6, <1>7 DEF OwnersAlive, HasIdentity, InUse, NoHandle
<1>15. OwnerChainOK
  <2>1. ASSUME NEW t \in Tokens \ {Root}, HasIdentity(t)
        PROVE  ChainOK(m_Handles, birth, t, ident[t].index)
    <3>1. ident[t].index = 2 /\ t # NULL
      BY <2>1, <1>0, <1>6 DEF HasIdentity
    <3>2. \A i \in Slots : ~Owns(m_Handles, t, i)
      BY <1>4, <3>1 DEF Owns
    <3> QED BY <3>1, <3>2, <1>1, <1>4 DEF ChainOK
  <2> QED BY <2>1 DEF OwnerChainOK
<1>16. IssuedOK
  <2>1. \A i \in Slots : birth[i] <= 2
    BY <1>1, <1>7
  <2>2. \A n \in 2..Len(issued) : issued[n].index \in 2..m_HandleTail
    <3>1. \A n \in 2..Len(issued) : n = 2
      BY <1>5
    <3> QED BY <3>1, <1>5, <1>7
  <2> QED BY <2>1, <2>2, <1>0, <1>1, <1>4, <1>5, <1>6 DEF IssuedOK
<1> QED
  BY <1>8, <1>9, <1>10, <1>11, <1>12, <1>13, <1>14, <1>15, <1>16 DEF IInv

\* Every step preserves the invariant: one case per action.
LEMMA NextInv ==
  ASSUME IInv, [Next]_vars
  PROVE  IInv'
<1>1. ASSUME NEW t \in Idents, CreateIdentity(t) PROVE IInv'
  BY <1>1, CreateIdentityStep
<1>2. ASSUME NEW t \in Idents, DestroyIdentity(t) PROVE IInv'
  BY <1>2, DestroyIdentityStep
<1>3. ASSUME NEW type \in Types, NEW b \in BOOLEAN, NEW o \in Owners, NEW s \in ActiveCallers,
             NEW sec \in AccessRules \cup {NULL}, CreateHandle(type, b, o, s, sec)
      PROVE  IInv'
  BY <1>3, CreateHandleStep
<1>4. \A s \in ActiveCallers : s.pIdentity # Root
  BY SecurityAssumption DEF ActiveCallers
<1>5. ASSUME NEW h \in Held, NEW o \in Owners, NEW s \in ActiveCallers, CloneHandle(h, o, s)
      PROVE  IInv'
  <2>1. /\ GetHandle(m_Handles, m_HandleTail, h, s.pIdentity) = "HandleError_None"
        /\ CloneMaster(Master(m_Handles, h.index), o)
    BY <1>5 DEF CloneHandle
  <2>2. h.index \in Slots /\ h.index # 1 /\ m_Handles[h.index].set = "Used"
    BY <2>1, <1>4, HeldFacts
  <2> QED BY <2>1, <2>2, CloneStep
<1>6. ASSUME NEW h \in Held, FastCloneHandle(h) PROVE IInv'
  <2>1. /\ GetHandle(m_Handles, m_HandleTail, h, NULL) = "HandleError_None"
        /\ CloneMaster(Master(m_Handles, h.index), Core)
    BY <1>6 DEF FastCloneHandle
  <2>2. NULL # Root /\ Core \in Owners
    <3>1. Core \in tokens
      BY IdentityFacts DEF IInv, IdentitiesOK, Tokens
    <3> QED BY <3>1, TableAssumption DEF Owners, Tokens
  <2>3. h.index \in Slots /\ h.index # 1 /\ m_Handles[h.index].set = "Used"
    BY <2>1, <2>2, HeldFacts
  <2> QED BY <2>1, <2>2, <2>3, CloneStep
<1>7. ASSUME NEW h \in Held, NEW s \in ActiveCallers, FreeHandle(h, s) PROVE IInv'
  <2>1. /\ GetHandle(m_Handles, m_HandleTail, h, s.pIdentity) = "HandleError_None"
        /\ FreeSlot(h.index)
    BY <1>7 DEF FreeHandle
  <2>2. h.index \in Slots /\ h.index # 1 /\ m_Handles[h.index].set = "Used"
    BY <2>1, <1>4, HeldFacts
  <2> QED BY <2>1, <2>2, FreeSlotStep
<1>8. CASE FinishRelease
  BY <1>8, FinishReleaseStep
<1>9. CASE ReleaseChild
  BY <1>9, ReleaseChildStep
<1>10. CASE FinishIdentity
  BY <1>10, FinishIdentityStep
<1>11. CASE UNCHANGED vars
  <2>1. UNCHANGED <<m_Handles, freeID, m_FreeHandles, opened, num_handles,
                    m_HandleTail, m_HSerial, issued, birth, tokens, ident, stack, life>>
    BY <1>11 DEF vars, table, alloc
  <2>2. TypeOK' /\ FreeListOK' /\ IssuedOK'
    BY <2>1 DEF IInv, TypeOK, FreeListOK, IssuedOK
  <2>3. RefCountOK' /\ CloneTargetOK' /\ StackOK'
    BY <2>1 DEF IInv, RefCountOK, CloneTargetOK, StackOK, Live, InUse, Clones
  <2>4. IdentitiesOK' /\ OwnersAlive' /\ OwnerChainOK'
    BY <2>1 DEF IInv, IdentitiesOK, OwnersAlive, OwnerChainOK, HasIdentity, InUse
  <2> QED BY <2>2, <2>3, <2>4 DEF IInv
<1> QED
  BY <1>1, <1>2, <1>3, <1>5, <1>6, <1>7, <1>8, <1>9, <1>10, <1>11
     DEF Next, ClientCall, Continue

-----------------------------------------------------------------------------
(* The theorems.                                                           *)

\* The conjunction of the invariants is inductive, so it holds for ever.
THEOREM Invariance == Spec => []IInv
<1>1. Init => IInv
  BY InitInv
<1>2. IInv /\ [Next]_vars => IInv'
  BY NextInv
<1> QED
  BY <1>1, <1>2, PTL DEF Spec

\* Every variable keeps its type: no index leaves the table, no serial its
\* bits, num_handles never wraps, whatever the order of calls and frees.
THEOREM TypeCorrect == Spec => []TypeOK
<1>1. IInv => TypeOK
  BY DEF IInv
<1> QED
  BY <1>1, Invariance, PTL

\* TryAllocHandle never hands out a slot in use and never loses one.
THEOREM FreeListCorrect == Spec => []FreeListOK
<1>1. IInv => FreeListOK
  BY DEF IInv
<1> QED
  BY <1>1, Invariance, PTL

\* A master's refcount is its own reference plus one per open clone.
THEOREM RefCountCorrect == Spec => []RefCountOK
<1>1. IInv => RefCountOK
  BY DEF IInv
<1> QED
  BY <1>1, Invariance, PTL

\* A clone never points at a slot that was released, reused or is dying.
THEOREM CloneTargetCorrect == Spec => []CloneTargetOK
<1>1. IInv => CloneTargetOK
  BY DEF IInv
<1> QED
  BY <1>1, Invariance, PTL

\* Nested FreeHandle calls never release the same slot twice, and come back
\* to a slot that is still theirs.
THEOREM StackCorrect == Spec => []StackOK
<1>1. IInv => StackOK
  BY DEF IInv
<1> QED
  BY <1>1, Invariance, PTL

\* UnlinkHandleFromOwner always finds the owner of the handle it unlinks.
THEOREM OwnersCorrect == Spec => []OwnersAlive
<1>1. IInv => OwnersAlive
  BY DEF IInv
<1> QED
  BY <1>1, Invariance, PTL

\* An identity's chain threads exactly the handles it owns, oldest first.
THEOREM OwnerChainCorrect == Spec => []OwnerChainOK
<1>1. IInv => OwnerChainOK
  BY DEF IInv
<1> QED
  BY <1>1, Invariance, PTL

\* The allocator and the calls under way agree on whose each slot is.
THEOREM SlotsCorrect == Spec => []SlotsOK
<1>1. IInv => SlotsOK
  BY DEF IInv, SlotsOK
<1> QED
  BY <1>1, Invariance, PTL

\* Refcounts are exact and clones lead to their master, for ever.
THEOREM ReferencesCorrect == Spec => []ReferencesOK
<1>1. IInv => ReferencesOK
  BY DEF IInv, ReferencesOK
<1> QED
  BY <1>1, Invariance, PTL

\* Each handle's owner is there and reaches it through its chain.
THEOREM OwnershipCorrect == Spec => []OwnersOK
<1>1. IInv => OwnersOK
  BY DEF IInv, OwnersOK
<1> QED
  BY <1>1, Invariance, PTL


(***************************************************************************)
(* What clients see of the table: an object is destroyed once, when the    *)
(* last handle to it is closed (ObjectLifetime), a stale Handle_t is       *)
(* refused (StaleHandleRejected), and the table implements AbstractHandles *)
(* (RefinesAbstract).  StepKinds reduces every action to one of six        *)
(* changes of the table, told without owners, chains and the free stack;   *)
(* each result is then proved over these six.                              *)
(***************************************************************************)


\* Each object belongs to one slot, the one made with it, which is neither a
\* clone nor an identity, and `life' says what that slot says.
ObjectsOK ==
  /\ \A i \in Slots : InUse(i) =>
       LET q == m_Handles[i] IN
       /\ birth[i] \in 1..Len(issued)
       /\ q.object \in {0, birth[i]}
       /\ q.clone # 0 => q.object = 0 /\ ~q.is_destroying
       /\ q.set = "Identity" => q.object = 0
       /\ q.object # 0 => life[q.object] = IF q.is_destroying THEN "destroyed" ELSE "live"
  /\ \A i, j \in Slots : InUse(i) /\ InUse(j) /\ birth[i] = birth[j] => i = j
  /\ \A n \in 1..MaxMade :
       /\ n > Len(issued) => life[n] = "none"
       /\ life[n] # "destroyed twice"
       /\ life[n] = "live" => \E i \in Slots : InUse(i) /\ m_Handles[i].object = n

\* The serial number handed out k handles before the latest.
SerialAgo(k) == IF m_HSerial > k THEN m_HSerial - k ELSE m_HSerial - k + (MaxSerials - 1)

\* A slot in use bears the serial number of the latest Handle_t made for it,
\* and the serial numbers of the last MaxSerials - 1 handles go down one by one.
SerialsOK ==
  /\ \A i \in Slots : InUse(i) =>
       birth[i] \in 1..Len(issued) /\ issued[birth[i]].serial = m_Handles[i].serial
  /\ \A n \in 1..Len(issued) :
       /\ issued[n].index \in Slots /\ n <= birth[issued[n].index]
       /\ Len(issued) - n < MaxSerials - 1 => issued[n].serial = SerialAgo(Len(issued) - n)

-----------------------------------------------------------------------------
(* The kinds of step.                                                      *)

\* Slot j is what it was.
Same(G, j) ==
  /\ SameBody(G[j], m_Handles[j]) /\ G[j].set = m_Handles[j].set
  /\ G[j].is_destroying = m_Handles[j].is_destroying

\* Slot i is filled for the next Handle_t: with object o, or as a clone of m,
\* the master of an open handle.
NewHandle(i, m, o) ==
  LET G == m_Handles'
      n == Len(issued) + 1
  IN  /\ ~InUse(i)
      /\ G[i].set \in {"Used", "Identity"} /\ ~G[i].is_destroying
      /\ G[i].clone = m /\ G[i].object = o /\ G[i].serial = NextSerial
      /\ \A j \in Slots : j # i => Same(G, j)
      /\ o \in {0, n} /\ (m # 0 \/ G[i].set = "Identity" => o = 0)
      /\ m # 0 => \E j \in Slots : /\ m_Handles[j].set = "Used" /\ Master(m_Handles, j) = m
                                   /\ ~m_Handles[m].is_destroying
      /\ n <= MaxMade /\ issued' = Append(issued, [index |-> i, serial |-> NextSerial])
      /\ birth' = [birth EXCEPT ![i] = n] /\ m_HSerial' = NextSerial
      /\ life' = IF o = 0 THEN life ELSE [life EXCEPT ![o] = "live"]

\* The destructor of slot i is called, if it has an object.
Ends(i) ==
  LET o == m_Handles[i].object IN
  life' = IF o = 0 THEN life
          ELSE [life EXCEPT ![o] = IF @ = "live" THEN "destroyed" ELSE "destroyed twice"]

\* An open handle that is not an identity.
Open(i) == m_Handles[i].set = "Used" /\ ~m_Handles[i].is_destroying

CloseClone(i) ==
  LET m == m_Handles[i].clone IN
  /\ Open(i) /\ m # 0 /\ FreedClone(m_Handles', i, m)
  /\ IF m_Handles[m].refcount = 1 THEN Ends(m) ELSE UNCHANGED life

CloseMaster(i) ==
  /\ Open(i) /\ m_Handles[i].clone = 0
  /\ IF m_Handles[i].refcount = 1 THEN Dying(m_Handles', i) /\ Ends(i)
     ELSE Closed(m_Handles', i) /\ UNCHANGED life

\* The slot of a handle closed earlier is released.
Gone(i) ==
  LET G == m_Handles' IN
  /\ m_Handles[i].is_destroying /\ InUse(i) /\ UNCHANGED life
  /\ SameBody(G[i], m_Handles[i]) /\ G[i].set = "None"
  /\ \A j \in Slots : j # i => Same(G, j)

\* An identity starts to release its handles.
CloseIdentity(i) ==
  LET G == m_Handles' IN
  /\ m_Handles[i].set = "Identity" /\ UNCHANGED life
  /\ SameBody(G[i], m_Handles[i]) /\ G[i].set = "Identity" /\ G[i].is_destroying
  /\ \A j \in Slots : j # i => Same(G, j)

Kind ==
  \/ \E i \in Slots, m \in Index, o \in 0..MaxMade : NewHandle(i, m, o)
  \/ UNCHANGED alloc /\ \E i \in Slots : CloseClone(i) \/ CloseMaster(i) \/ Gone(i) \/ CloseIdentity(i)
  \/ UNCHANGED <<alloc, m_Handles, life>>

\* The slot MakePrimHandle fills holds the object it was given.
LEMMA FilledObject ==
  ASSUME IInv, ~AtLimit, NEW type \in AllTypes, NEW o \in Tokens \cup {NULL},
         NEW set \in {"Used", "Identity"}, NEW object \in 0..MaxMade, NEW m \in Index,
         NEW sec \in Access \cup {NULL},
         o # NULL /\ set # "Identity" =>
           o # Root /\ IdentityHandle(m_Handles, m_HandleTail, o) # 0
  PROVE  Filled(m_Handles, type, o, set, object, m, sec)[TryAllocHandle].object = object
<1> DEFINE H == m_Handles
           i == TryAllocHandle
           q == [ set |-> set, type |-> type, owner |-> o,
                  serial |-> NextSerial, refcount |-> 1, clone |-> m,
                  sec |-> sec, is_destroying |-> FALSE, object |-> object,
                  ch_prev |-> 0, ch_next |-> 0 ]
           N == [H EXCEPT ![i] = q]
           G == Filled(H, type, o, set, object, m, sec)
           link == o # NULL /\ set # "Identity"
           d == ident[o].index
<1>0. H \in Tables /\ i \in Slots /\ H[i].set = "None" /\ i \in Index /\ 0 \in Index /\ i # 0
  BY AllocFacts, IndexFacts DEF IInv, TypeOK, Tables
<1>1. NextSerial \in 0..(MaxSerials - 1)
  <2>1. m_HSerial \in 1..(MaxSerials - 1)
    BY DEF IInv, TypeOK
  <2> QED BY <2>1, TableAssumption DEF NextSerial
<1>2. q \in QHandle
  BY <1>0, <1>1 DEF QHandle, HandleSet
<1>3. q.object = object /\ q.ch_prev = 0 /\ q.ch_next = 0
  OBVIOUS
<1>4. G = IF link THEN LinkHandleToOwner(N, i, IdentityHandle(H, m_HandleTail, o)) ELSE N
  BY DEF Filled
<1> HIDE DEF q, G, i
<1>5. N \in Tables /\ N[i] = q /\ \A j \in Slots : j # i => N[j] = H[j]
  BY <1>0, <1>2, IndexFacts DEF Tables
<1> HIDE DEF N
<1>6. CASE ~link
  BY <1>3, <1>4, <1>5, <1>6 DEF G, i
<1>7. CASE link
  <2>1. /\ IdentityHandle(H, m_HandleTail, o) = d
        /\ d \in Slots /\ H[d].set = "Identity"
        /\ H[d].ch_prev = 0 <=> H[d].ch_next = 0
        /\ H[d].ch_next = 0 \/ Owns(H, o, H[d].ch_next)
    BY <1>7, SentinelFacts
  <2>2. d # i /\ H[d].ch_next \notin {i, d} /\ N[d] = H[d]
    BY <1>0, <1>5, <2>1, IndexFacts DEF Owns
  <2>3. N[i].ch_prev = 0 /\ N[i].ch_next = 0
    BY <1>3, <1>5
  <2> HIDE DEF d, link
  <2>4. SameBody(G[i], N[i])
    <3>1. G = LinkHandleToOwner(N, i, d)
      BY <1>4, <1>7, <2>1
    <3> QED BY <3>1, <1>0, <1>5, <2>1, <2>2, <2>3, LinkFields
  <2> QED BY <2>4, <1>3, <1>5 DEF SameBody, G, i
<1> QED
  BY <1>6, <1>7

\* What MakePrimHandle records.
LEMMA PrimFacts ==
  ASSUME IInv, NEW type, NEW o, MakePrimHandle(type, o)
  PROVE  /\ ~AtLimit /\ TryAllocHandle \in Slots /\ ~InUse(TryAllocHandle)
         /\ Len(issued) + 1 <= MaxMade
         /\ issued' = Append(issued, [index |-> TryAllocHandle, serial |-> NextSerial])
         /\ birth' = [birth EXCEPT ![TryAllocHandle] = Len(issued) + 1]
         /\ m_HSerial' = NextSerial
<1>1. ~AtLimit /\ Len(issued) < MaxMade
  BY DEF MakePrimHandle
<1>2. Len(issued) + 1 <= MaxMade
  BY <1>1, NumFacts, TableAssumption
<1> QED
  BY <1>1, <1>2, AllocFacts DEF MakePrimHandle, InUse

\* CreateIdentity is a step of one of the kinds of Kind: a handle without an object, or none.
LEMMA CreateIdentityKind ==
  ASSUME IInv, NEW t \in Idents, CreateIdentity(t)
  PROVE  Kind
<1>1. CASE /\ MakePrimHandle(IdentType, Root) /\ UNCHANGED life
           /\ m_Handles' = Filled(m_Handles, IdentType, Root, "Identity", 0, 0, NULL)
  <2> DEFINE i == TryAllocHandle
  <2>1. /\ ~AtLimit /\ i \in Slots /\ ~InUse(i) /\ Len(issued) + 1 <= MaxMade
        /\ issued' = Append(issued, [index |-> i, serial |-> NextSerial])
        /\ birth' = [birth EXCEPT ![i] = Len(issued) + 1] /\ m_HSerial' = NextSerial
    BY <1>1, PrimFacts
  <2>2. /\ IdentType \in AllTypes /\ Root \in Tokens \cup {NULL} /\ 0 \in 0..MaxMade
        /\ 0 \in Index /\ NULL \in Access \cup {NULL}
    BY TableAssumption DEF AllTypes, Tokens, Index
  <2>3. Made(m_Handles', i, IdentType, Root, "Identity", 0, NULL, 0)
    BY <1>1, <2>1, <2>2, FilledFields
  <2>4. m_Handles'[i].object = 0
    <3>1. /\ ~AtLimit /\ "Identity" \in {"Used", "Identity"}
          /\ Root # NULL /\ "Identity" # "Identity" =>
               Root # Root /\ IdentityHandle(m_Handles, m_HandleTail, Root) # 0
      BY <2>1
    <3>2. Filled(m_Handles, IdentType, Root, "Identity", 0, 0, NULL)[TryAllocHandle].object = 0
      BY <2>2, <3>1, FilledObject
    <3> QED BY <1>1, <3>2
  <2> HIDE DEF i
  <2>5. NewHandle(i, 0, 0)
    BY <1>1, <2>1, <2>3, <2>4 DEF NewHandle, Made, Same
  <2> QED BY <2>1, <2>2, <2>5 DEF Kind
<1>2. CASE UNCHANGED <<table, alloc, stack, life>>
  BY <1>2 DEF Kind, table
<1> QED
  BY <1>1, <1>2 DEF CreateIdentity

\* CreateHandle is: a new handle, of a new object if there is one.
LEMMA CreateHandleKind ==
  ASSUME IInv, NEW type \in Types, NEW b \in BOOLEAN, NEW o \in Owners, NEW s,
         NEW sec \in AccessRules \cup {NULL}, CreateHandle(type, b, o, s, sec)
  PROVE  Kind
<1> DEFINE object == IF b THEN Len(issued) + 1 ELSE 0
           i == TryAllocHandle
<1>1. /\ MakePrimHandle(type, o)
      /\ m_Handles' = Filled(m_Handles, type, o, "Used", object, 0, sec)
      /\ life' = IF b THEN [life EXCEPT ![object] = "live"] ELSE life
  BY DEF CreateHandle
<1>2. /\ o \in Tokens \cup {NULL} /\ ~AtLimit
      /\ o # NULL => o # Root /\ IdentityHandle(m_Handles, m_HandleTail, o) # 0
  BY <1>1, OwnerFacts
<1>3. /\ type \in AllTypes /\ sec \in Access \cup {NULL} /\ 0 \in Index
  BY SecurityAssumption, TableAssumption DEF AllTypes, Index
<1>4. /\ i \in Slots /\ ~InUse(i) /\ Len(issued) + 1 <= MaxMade
      /\ issued' = Append(issued, [index |-> i, serial |-> NextSerial])
      /\ birth' = [birth EXCEPT ![i] = Len(issued) + 1] /\ m_HSerial' = NextSerial
  BY <1>1, PrimFacts
<1>5. /\ object \in 0..MaxMade /\ object \in {0, Len(issued) + 1}
      /\ object = 0 <=> ~b
  BY <1>4, NumFacts, TableAssumption
<1>6. life' = IF object = 0 THEN life ELSE [life EXCEPT ![object] = "live"]
  BY <1>1, <1>5
<1> HIDE DEF object, i
<1>7. Made(m_Handles', i, type, o, "Used", 0, sec, 0)
  BY <1>1, <1>2, <1>3, <1>5, FilledFields DEF i
<1>8. m_Handles'[i].object = object
  <2> DEFINE F == Filled(m_Handles, type, o, "Used", object, 0, sec)
  <2>1. F[i].object = object
    BY <1>2, <1>3, <1>5, FilledObject DEF i
  <2> HIDE DEF F
  <2> QED BY <1>1, <2>1 DEF F
<1>9. NewHandle(i, 0, object)
  BY <1>4, <1>5, <1>6, <1>7, <1>8 DEF NewHandle, Made, Same
<1> QED
  BY <1>3, <1>4, <1>5, <1>9 DEF Kind

\* CloneHandle and FastCloneHandle, once their Handle_t decoded.
LEMMA CloneKind ==
  ASSUME IInv, NEW j \in Slots, j # 1, m_Handles[j].set = "Used", NEW o \in Owners,
         CloneMaster(Master(m_Handles, j), o)
  PROVE  Kind
<1> DEFINE m == Master(m_Handles, j)
           type == m_Handles[m].type
           sec == m_Handles[m].sec
           F == Filled(m_Handles, type, o, "Used", 0, m, sec)
           i == TryAllocHandle
<1>1. /\ Clonable(m) /\ MakePrimHandle(type, o) /\ m_Handles' = AddRef(F, m)
      /\ UNCHANGED <<tokens, ident, life>>
  BY DEF CloneMaster
<1>2. /\ m \in Slots /\ m # 0 /\ m \in Index /\ Live(m) /\ type \in AllTypes
      /\ MayClone(m, type, sec)
  BY <1>1, MasterFacts
<1>3. /\ o \in Tokens \cup {NULL} /\ ~AtLimit
      /\ o # NULL => o # Root /\ IdentityHandle(m_Handles, m_HandleTail, o) # 0
  BY <1>1, OwnerFacts
<1>4. /\ i \in Slots /\ ~InUse(i) /\ Len(issued) + 1 <= MaxMade
      /\ issued' = Append(issued, [index |-> i, serial |-> NextSerial])
      /\ birth' = [birth EXCEPT ![i] = Len(issued) + 1] /\ m_HSerial' = NextSerial
  BY <1>1, PrimFacts
<1>5. /\ sec \in Access \cup {NULL} /\ 0 \in 0..MaxMade
  BY <1>2, TypeFacts, TableFacts, TableAssumption
<1>6. /\ m_Handles[j].set = "Used" /\ Master(m_Handles, j) = m /\ ~m_Handles[m].is_destroying
      /\ m # i
  BY <1>1, <1>2, <1>4 DEF Clonable, Live, InUse
<1>7. Made(m_Handles', i, type, o, "Used", m, sec, m)
  <2> HIDE DEF m
  <2> QED BY <1>1, <1>2, <1>3, ClonedFields
<1>8. m_Handles'[i].object = 0
  <2> HIDE DEF m
  <2>1. F[i].object = 0
    <3> HIDE DEF type, sec
    <3> QED BY <1>2, <1>3, <1>5, FilledObject
  <2>2. F \in Tables
    <3>1. Made(F, i, type, o, "Used", m, sec, 0)
      <4> HIDE DEF type, sec
      <4> QED BY <1>2, <1>3, <1>5, FilledFields
    <3> QED BY <3>1 DEF Made
  <2> HIDE DEF F, i
  <2>3. i \in Index /\ m \in Index
    BY <1>2, <1>4, IndexFacts
  <2>4. [F EXCEPT ![m].refcount = @ + 1][i] = F[i]
    BY <1>6, <2>2, <2>3 DEF Tables
  <2> QED BY <1>1, <2>1, <2>4 DEF AddRef
<1> HIDE DEF m, type, sec, F, i
<1>9. NewHandle(i, m, 0)
  BY <1>1, <1>2, <1>4, <1>6, <1>7, <1>8 DEF NewHandle, Made, Same
<1> QED
  BY <1>2, <1>4, <1>5, <1>9 DEF Kind

\* FreeHandle on an open handle is: a close, of a clone or of a master.
LEMMA FreeSlotKind ==
  ASSUME IInv, NEW i \in Slots, m_Handles[i].set = "Used", FreeSlot(i)
  PROVE  Kind
<1>1. ~m_Handles[i].is_destroying /\ UNCHANGED alloc /\ Live(i) /\ Open(i)
  BY DEF FreeSlot, Live, Open
<1>2. CASE FreeClone(i)
  <2> DEFINE m == m_Handles[i].clone
  <2>1. /\ FreedClone(m_Handles', i, m) /\ m # 0
        /\ IF m_Handles[m].refcount = 1 THEN Destroy(m) ELSE UNCHANGED <<stack, life>>
    BY <1>1, <1>2, FreeCloneFields, IndexFacts
  <2> HIDE DEF m
  <2>2. IF m_Handles[m].refcount = 1 THEN Ends(m) ELSE UNCHANGED life
    BY <2>1 DEF Destroy, Ends
  <2> QED BY <1>1, <2>1, <2>2 DEF CloseClone, Kind, m
<1>3. CASE FreeMaster(i)
  <2>1. m_Handles[i].refcount = 1 => Dying(m_Handles', i) /\ Ends(i)
    BY <1>1, <1>3, FreeMasterFields DEF FreeMaster, Destroy, Ends
  <2>2. m_Handles[i].refcount # 1 => Closed(m_Handles', i) /\ UNCHANGED life
    BY <1>1, <1>3, FreeMasterFields DEF FreeMaster
  <2>3. m_Handles[i].clone = 0
    BY <1>3 DEF FreeMaster
  <2> QED BY <1>1, <2>1, <2>2, <2>3 DEF CloseMaster, Kind
<1> QED
  BY <1>2, <1>3 DEF FreeSlot

\* The end of a destructor is: the handles that are open stay so.
LEMMA FinishReleaseKind ==
  ASSUME IInv, FinishRelease
  PROVE  Kind
<1> DEFINE H == m_Handles
           G == m_Handles'
           n == Len(stack)
           i == stack[n].index
<1>0. /\ stack # <<>> /\ stack[n].pc \in {"OnHandleDestroy", "ReleasePrimHandle"}
      /\ G = Released(H, i) /\ Pop /\ UNCHANGED <<alloc, life>>
  BY DEF FinishRelease, Top
<1>1. n \in 1..n
  BY <1>0, Popped
<1>2. i \in Slots /\ H[i].is_destroying /\ Live(i)
  BY <1>0, <1>1, FrameFacts
<1> HIDE DEF i
<1>3. \A j \in Slots : /\ SameBody(G[j], H[j]) /\ G[j].set = IF j = i THEN "None" ELSE H[j].set
                       /\ j # i => G[j].is_destroying = H[j].is_destroying
  <2>1. SameBody(H[i], H[i])
    BY DEF SameBody
  <2> QED BY <2>1, <1>0, <1>2, TypeFacts, ReleasedFields
<1>4. Gone(i)
  BY <1>0, <1>2, <1>3 DEF Gone, Same, Live, InUse
<1> QED
  BY <1>0, <1>2, <1>4 DEF Kind

\* The end of an identity is: its handle is gone, no object with it.
LEMMA FinishIdentityKind ==
  ASSUME IInv, FinishIdentity
  PROVE  Kind
<1> DEFINE H == m_Handles
           G == m_Handles'
           n == Len(stack)
           d == stack[n].index
<1>0. /\ stack # <<>> /\ stack[n].pc = "ReleaseIdentity"
      /\ G = PutSet(H, d, "None") /\ Pop /\ UNCHANGED <<alloc, life>>
  BY DEF FinishIdentity, Top, PutSet
<1>1. n \in 1..n
  BY <1>0, Popped
<1>2. d \in Slots /\ H[d].is_destroying /\ H[d].set = "Identity"
  BY <1>0, <1>1, FrameFacts
<1> HIDE DEF d
<1>3. OnlySet(G, H, d, "None")
  BY <1>0, <1>2, TypeFacts, IndexFacts, PutSetFields DEF HandleSet
<1>4. Gone(d)
  BY <1>0, <1>2, <1>3, IndexFacts DEF Gone, Same, InUse, OnlySet
<1> QED
  BY <1>0, <1>2, <1>4 DEF Kind

\* DestroyIdentity is: it closes the handle of the identity, if that is there.
LEMMA DestroyIdentityKind ==
  ASSUME IInv, NEW t \in Idents, DestroyIdentity(t)
  PROVE  Kind
<1> DEFINE H == m_Handles
           d == IdentityHandle(H, m_HandleTail, t)
<1>0. UNCHANGED alloc /\ UNCHANGED life /\ t \in Tokens \ {Root}
  BY TableAssumption DEF DestroyIdentity, Tokens
<1>1. CASE d = 0
  BY <1>0, <1>1 DEF DestroyIdentity, Kind
<1>2. CASE d # 0
  <2>1. d \in Slots /\ H[d].set = "Identity"
    BY <1>0, <1>2, SentinelFacts
  <2>2. m_Handles' = PutDying(H, d, TRUE)
    BY <1>2 DEF DestroyIdentity, PutDying
  <2> HIDE DEF d
  <2>3. OnlyDying(m_Handles', H, d, TRUE)
    BY <2>1, <2>2, TypeFacts, IndexFacts, PutDyingFields
  <2>4. CloseIdentity(d)
    BY <1>0, <2>1, <2>3, IndexFacts DEF CloseIdentity, OnlyDying, Same
  <2> QED BY <1>0, <2>1, <2>4 DEF Kind
<1> QED
  BY <1>1, <1>2

\* The child loop of a dying identity is: it closes one child.
LEMMA ReleaseChildKind ==
  ASSUME IInv, ReleaseChild
  PROVE  Kind
<1> DEFINE n == Len(stack)
           d == stack[n].index
           t == stack[n].token
           i == m_Handles[d].ch_next
<1>1. stack # <<>> /\ stack[n].pc = "ReleaseIdentity" /\ i # 0 /\ FreeSlot(i)
  BY DEF ReleaseChild, Top, LastChild
<1>2. n \in 1..n
  <2>1. stack \in Seq(Frame)
    BY TypeFacts
  <2> QED BY <2>1, <1>1
<1>3. /\ d \in Slots /\ t \in Idents /\ ident[t].index = d /\ HasIdentity(t)
  BY <1>1, <1>2, FrameFacts
<1>4. t \in Tokens \ {Root} /\ t # NULL
  BY <1>3, TableAssumption DEF Tokens
<1> HIDE DEF n, t
<1>5. Owns(m_Handles, t, i)
  BY <1>1, <1>3, <1>4 DEF IInv, OwnerChainOK, ChainOK
<1>6. i \in Slots
  <2>1. i \in Index
    BY <1>3, TypeFacts, TableFacts, IndexFacts
  <2> QED BY <2>1, <1>1, IndexFacts
<1>7. m_Handles[i].set = "Used"
  BY <1>4, <1>5, <1>6 DEF Owns, IInv, OwnersAlive, InUse
<1> QED
  BY <1>1, <1>6, <1>7, FreeSlotKind

\* Every step of the table is of one of the kinds.
LEMMA StepKinds ==
  ASSUME IInv, [Next]_vars
  PROVE  Kind
<1>1. ASSUME NEW h \in Held, NEW s \in ActiveCallers,
             GetHandle(m_Handles, m_HandleTail, h, s.pIdentity) = "HandleError_None"
      PROVE  h.index \in Slots /\ h.index # 1 /\ m_Handles[h.index].set = "Used"
  BY <1>1, HeldFacts, SecurityAssumption DEF ActiveCallers
<1>2. ASSUME NEW h \in Held, NEW o \in Owners, NEW s \in ActiveCallers, CloneHandle(h, o, s)
      PROVE  Kind
  BY <1>1, <1>2, CloneKind DEF CloneHandle
<1>3. ASSUME NEW h \in Held, FastCloneHandle(h) PROVE Kind
  <2>1. /\ GetHandle(m_Handles, m_HandleTail, h, NULL) = "HandleError_None"
        /\ CloneMaster(Master(m_Handles, h.index), Core)
    BY <1>3 DEF FastCloneHandle
  <2>2. NULL # Root /\ Core \in Owners
    BY TableAssumption DEF Owners, Tokens, IInv, IdentitiesOK
  <2>3. h.index \in Slots /\ h.index # 1 /\ m_Handles[h.index].set = "Used"
    BY <2>1, <2>2, HeldFacts
  <2> QED BY <2>1, <2>2, <2>3, CloneKind
<1>4. ASSUME NEW h \in Held, NEW s \in ActiveCallers, FreeHandle(h, s) PROVE Kind
  BY <1>1, <1>4, FreeSlotKind DEF FreeHandle
<1>5. CASE UNCHANGED vars
  BY <1>5 DEF vars, table, alloc, Kind
<1> QED
  BY <1>2, <1>3, <1>4, <1>5, CreateIdentityKind, CreateHandleKind, DestroyIdentityKind,
     FinishReleaseKind, ReleaseChildKind, FinishIdentityKind
     DEF Next, ClientCall, Continue

-----------------------------------------------------------------------------
(* Objects and serial numbers.                                             *)

ObjectInv == IInv /\ ObjectsOK /\ SerialsOK

\* What a step that makes no handle leaves alone.
LEMMA AllocSame ==
  ASSUME UNCHANGED alloc
  PROVE  UNCHANGED <<issued, birth, m_HSerial>>
  BY DEF alloc

\* A new handle: the object it is made with, if any, is its own.
LEMMA ObjectsNew ==
  ASSUME ObjectInv, NEW i \in Slots, NEW m \in Index, NEW o \in 0..MaxMade, NewHandle(i, m, o)
  PROVE  ObjectsOK'
<1> DEFINE H == m_Handles
           G == m_Handles'
           n == Len(issued) + 1
<1>1. /\ H[i].set = "None" /\ G[i].set \in {"Used", "Identity"} /\ ~G[i].is_destroying
      /\ G[i].clone = m /\ G[i].object = o
      /\ \A j \in Slots : j # i => Same(G, j)
      /\ o \in {0, n} /\ (m # 0 \/ G[i].set = "Identity" => o = 0)
      /\ n <= MaxMade
      /\ birth' = [birth EXCEPT ![i] = n]
      /\ life' = IF o = 0 THEN life ELSE [life EXCEPT ![o] = "live"]
  BY DEF NewHandle, InUse
<1>2. /\ issued \in Seq(Handle_t) /\ Len(issued) \in Nat /\ n \in 1..MaxMade /\ n # 0
      /\ birth \in [Index -> 0..MaxMade] /\ life \in Lives
  <2>1. Len(issued) \in Nat /\ issued \in Seq(Handle_t) /\ birth \in [Index -> 0..MaxMade]
    BY NumFacts, TypeFacts DEF ObjectInv
  <2>2. n \in 1..MaxMade /\ n # 0
    BY <1>1, <2>1, TableAssumption
  <2>3. life \in Lives
    BY DEF ObjectInv, IInv, TypeOK, Lives
  <2> QED BY <2>1, <2>2, <2>3
<1>3. Len(issued') = n
  BY <1>2 DEF NewHandle
<1>4. /\ birth'[i] = n /\ \A j \in Slots : j # i => birth'[j] = birth[j]
  BY <1>1, <1>2, IndexFacts
<1>5. /\ o # 0 => o = n /\ life'[n] = "live"
      /\ \A k \in 1..MaxMade : k # o => life'[k] = life[k]
  BY <1>1, <1>2 DEF Lives
<1>6. \A j \in Slots : birth[j] \in Nat /\ birth[j] < n
  BY <1>2, BirthFacts DEF ObjectInv
<1>7. \A j \in Slots : j # i =>
        /\ G[j].set = H[j].set /\ G[j].is_destroying = H[j].is_destroying
        /\ G[j].clone = H[j].clone /\ G[j].object = H[j].object
  BY <1>1 DEF Same, SameBody
<1> HIDE DEF n
<1>8. ASSUME NEW j \in Slots, G[j].set # "None"
      PROVE  /\ birth'[j] \in 1..Len(issued')
             /\ G[j].object \in {0, birth'[j]}
             /\ G[j].clone # 0 => G[j].object = 0 /\ ~G[j].is_destroying
             /\ G[j].set = "Identity" => G[j].object = 0
             /\ G[j].object # 0 => life'[G[j].object] = IF G[j].is_destroying THEN "destroyed" ELSE "live"
  <2>1. CASE j = i
    BY <2>1, <1>1, <1>2, <1>3, <1>4, <1>5
  <2>2. CASE j # i
    <3>1. H[j].set # "None" /\ birth[j] \in 1..Len(issued) /\ H[j].object \in {0, birth[j]}
      BY <1>7, <1>8, <2>2 DEF ObjectInv, ObjectsOK, InUse
    <3>2. birth'[j] \in 1..Len(issued') /\ birth[j] \in 1..MaxMade /\ birth[j] # o
      <4>1. birth[j] \in Nat /\ birth[j] >= 1 /\ birth[j] < n
        BY <3>1, <1>2, <1>6
      <4>2. birth[j] \in 1..n /\ birth[j] \in 1..MaxMade /\ birth[j] # 0 /\ birth[j] # n
        BY <4>1, <1>1, <1>2, TableAssumption
      <4> QED BY <4>2, <2>2, <1>1, <1>3, <1>4
    <3>3. H[j].object # 0 => life'[H[j].object] = life[H[j].object]
      BY <3>1, <3>2, <1>5
    <3>4. /\ H[j].clone # 0 => H[j].object = 0 /\ ~H[j].is_destroying
          /\ H[j].set = "Identity" => H[j].object = 0
          /\ H[j].object # 0 => life[H[j].object] = IF H[j].is_destroying THEN "destroyed" ELSE "live"
      BY <3>1 DEF ObjectInv, ObjectsOK, InUse
    <3> QED BY <3>1, <3>2, <3>3, <3>4, <2>2, <1>4, <1>7
  <2> QED BY <2>1, <2>2
<1>9. ASSUME NEW j \in Slots, NEW k \in Slots, G[j].set # "None", G[k].set # "None",
             birth'[j] = birth'[k]
      PROVE  j = k
  <2>1. CASE j # i /\ k # i
    <3>1. birth[j] = birth[k] /\ H[j].set # "None" /\ H[k].set # "None"
      BY <2>1, <1>4, <1>7, <1>9
    <3> QED BY <3>1 DEF ObjectInv, ObjectsOK, InUse
  <2>2. CASE j = i /\ k # i
    BY <2>2, <1>2, <1>4, <1>6, <1>9
  <2>3. CASE j # i /\ k = i
    BY <2>3, <1>2, <1>4, <1>6, <1>9
  <2> QED BY <2>1, <2>2, <2>3
<1>10. ASSUME NEW k \in 1..MaxMade
       PROVE  /\ k > Len(issued') => life'[k] = "none"
              /\ life'[k] # "destroyed twice"
              /\ life'[k] = "live" => \E j \in Slots : G[j].set # "None" /\ G[j].object = k
  <2>0. k \in Nat /\ k >= 1
    OBVIOUS
  <2>1. CASE k = o
    <3>1. k = n /\ life'[k] = "live" /\ G[i].set # "None" /\ G[i].object = k
      BY <2>0, <2>1, <1>1, <1>5
    <3>2. ~(k > Len(issued'))
      BY <3>1, <2>0, <1>3
    <3> QED BY <3>1, <3>2
  <2>2. CASE k # o
    <3>1. life'[k] = life[k] /\ (k > Len(issued') => k > Len(issued))
      BY <2>0, <2>2, <1>2, <1>3, <1>5 DEF n
    <3>2. /\ k > Len(issued) => life[k] = "none"
          /\ life[k] # "destroyed twice"
          /\ life[k] = "live" => \E j \in Slots : H[j].set # "None" /\ H[j].object = k
      BY DEF ObjectInv, ObjectsOK, InUse
    <3> QED BY <3>1, <3>2, <1>1, <1>7
  <2> QED BY <2>1, <2>2
<1> QED
  BY <1>8, <1>9, <1>10 DEF ObjectsOK, InUse

\* A step that makes no handle, releases no object and destroys at most the one
\* of slot x, which starts to die with it.
LEMMA ObjectsKept ==
  ASSUME ObjectInv, UNCHANGED alloc, NEW x \in Index,
         \A j \in Slots : SameBody(m_Handles'[j], m_Handles[j]),
         \A j \in Slots : m_Handles'[j].set # "None" => InUse(j),
         \A j \in Slots : m_Handles'[j].set = "Identity" => m_Handles[j].set = "Identity",
         \A j \in Slots : InUse(j) /\ m_Handles'[j].set = "None" =>
           m_Handles[j].object = 0 \/ m_Handles[j].is_destroying,
         \A j \in Slots : j # x /\ m_Handles'[j].set # "None" /\ m_Handles[j].set # "Identity" =>
           m_Handles'[j].is_destroying = m_Handles[j].is_destroying,
         x # 0 => /\ InUse(x) /\ m_Handles[x].clone = 0 /\ ~m_Handles[x].is_destroying
                  /\ m_Handles'[x].set # "None" /\ m_Handles'[x].is_destroying
                  /\ Ends(x),
         x = 0 => UNCHANGED life
  PROVE  ObjectsOK'
<1> DEFINE H == m_Handles
           G == m_Handles'
           e == IF x = 0 THEN 0 ELSE H[x].object
<1>1. issued' = issued /\ birth' = birth /\ Len(issued) \in Nat
  BY AllocSame, NumFacts DEF ObjectInv
<1>2. \A j \in Slots :
        /\ G[j].clone = H[j].clone /\ G[j].object = H[j].object
        /\ G[j].set # "None" => H[j].set # "None"
        /\ G[j].set = "Identity" => H[j].set = "Identity"
  BY DEF SameBody, InUse
<1>3. \A j \in Slots : H[j].set # "None" =>
        /\ birth[j] \in 1..Len(issued) /\ H[j].object \in {0, birth[j]}
        /\ H[j].clone # 0 => H[j].object = 0 /\ ~H[j].is_destroying
        /\ H[j].set = "Identity" => H[j].object = 0
        /\ H[j].object # 0 => life[H[j].object] = IF H[j].is_destroying THEN "destroyed" ELSE "live"
  BY DEF ObjectInv, ObjectsOK, InUse
<1>4. \A j, k \in Slots : H[j].set # "None" /\ H[k].set # "None" /\ birth[j] = birth[k] => j = k
  BY DEF ObjectInv, ObjectsOK, InUse
<1>5. x # 0 => x \in Slots /\ H[x].set # "None"
  BY IndexFacts DEF InUse
<1>6. /\ e # 0 => e \in 1..MaxMade /\ e = birth[x] /\ life[e] = "live" /\ x # 0
      /\ e # 0 => e <= Len(issued)
  <2>1. Len(issued) <= MaxMade /\ MaxMade \in Nat
    BY NumFacts, TableAssumption DEF ObjectInv
  <2> QED BY <2>1, <1>1, <1>3, <1>5
<1>7. /\ e # 0 => life'[e] = "destroyed"
      /\ \A k \in 1..MaxMade : k # e => life'[k] = life[k]
  <2>1. life \in Lives
    BY DEF ObjectInv, IInv, TypeOK, Lives
  <2>2. CASE e = 0
    BY <2>2 DEF Ends
  <2>3. CASE e # 0
    <3>1. life' = [life EXCEPT ![e] = IF @ = "live" THEN "destroyed" ELSE "destroyed twice"]
      BY <2>3, <1>6 DEF Ends
    <3> QED BY <3>1, <2>1, <2>3, <1>6 DEF Lives
  <2> QED BY <2>2, <2>3
<1>8. \A j \in Slots : H[j].set # "None" /\ H[j].object # 0 /\ H[j].object = e => j = x
  BY <1>3, <1>4, <1>5, <1>6
<1> HIDE DEF e
<1>9. ASSUME NEW j \in Slots, G[j].set # "None"
      PROVE  /\ G[j].object \in {0, birth[j]} /\ birth[j] \in 1..Len(issued)
             /\ G[j].clone # 0 => G[j].object = 0 /\ ~G[j].is_destroying
             /\ G[j].set = "Identity" => G[j].object = 0
             /\ G[j].object # 0 => life'[G[j].object] = IF G[j].is_destroying THEN "destroyed" ELSE "live"
  <2>1. CASE j = x
    <3>1. x # 0
      BY <2>1, IndexFacts
    <3>2. e = H[x].object
      BY <3>1 DEF e
    <3> QED BY <3>1, <3>2, <2>1, <1>2, <1>3, <1>7, <1>9
  <2>2. CASE j # x
    <3>1. H[j].set # "None" /\ (H[j].object # 0 => H[j].set # "Identity" /\ H[j].object # e)
      BY <1>2, <1>3, <1>8, <1>9, <2>2
    <3>2. H[j].object # 0 => H[j].object \in 1..MaxMade
      <4>1. Len(issued) <= MaxMade /\ MaxMade \in Nat
        BY NumFacts, TableAssumption DEF ObjectInv
      <4> QED BY <4>1, <3>1, <1>1, <1>3
    <3>3. H[j].object # 0 => life'[H[j].object] = life[H[j].object]
      BY <3>1, <3>2, <1>7
    <3>4. G[j].object # 0 => life'[G[j].object] = IF G[j].is_destroying THEN "destroyed" ELSE "live"
      BY <3>1, <3>3, <1>2, <1>3, <1>9, <2>2
    <3>5. G[j].clone # 0 => H[j].set # "Identity"
      BY <3>1, <1>2, CloneFacts DEF ObjectInv
    <3>6. G[j].clone # 0 => G[j].object = 0 /\ ~G[j].is_destroying
      BY <3>1, <3>5, <1>2, <1>3, <1>9, <2>2
    <3> QED BY <3>1, <3>4, <3>6, <1>2, <1>3, <1>9
  <2> QED BY <2>1, <2>2
<1>10. ASSUME NEW k \in 1..MaxMade
       PROVE  /\ k > Len(issued) => life'[k] = "none"
              /\ life'[k] # "destroyed twice"
              /\ life'[k] = "live" => \E j \in Slots : G[j].set # "None" /\ G[j].object = k
  <2>1. /\ k > Len(issued) => life[k] = "none"
        /\ life[k] # "destroyed twice"
        /\ life[k] = "live" => \E j \in Slots : H[j].set # "None" /\ H[j].object = k
    BY DEF ObjectInv, ObjectsOK, InUse
  <2>2. CASE k = e
    <3>1. k # 0 /\ k \in Nat
      OBVIOUS
    <3>2. life'[k] = "destroyed" /\ k <= Len(issued)
      BY <3>1, <2>2, <1>6, <1>7
    <3>3. ~(k > Len(issued))
      BY <3>1, <3>2, <1>1
    <3> QED BY <3>2, <3>3
  <2>3. CASE k # e
    <3>1. life'[k] = life[k] /\ k # 0
      BY <2>3, <1>7
    <3>2. ASSUME life[k] = "live" PROVE \E j \in Slots : G[j].set # "None" /\ G[j].object = k
      <4>1. PICK j \in Slots : H[j].set # "None" /\ H[j].object = k
        BY <3>2, <2>1
      <4>2. ~H[j].is_destroying
        BY <4>1, <3>1, <3>2, <1>3
      <4>3. G[j].set # "None"
        BY <4>1, <4>2, <3>1 DEF InUse
      <4> QED BY <4>1, <4>3, <1>2
    <3> QED BY <3>1, <3>2, <2>1
  <2> QED BY <2>2, <2>3
<1>11. \A j, k \in Slots : G[j].set # "None" /\ G[k].set # "None" /\ birth[j] = birth[k] => j = k
  BY <1>2, <1>4
<1> QED
  BY <1>1, <1>9, <1>10, <1>11 DEF ObjectsOK, InUse

\* Every kind of step keeps ObjectsOK.
LEMMA ObjectsStep ==
  ASSUME ObjectInv, Kind
  PROVE  ObjectsOK'
<1> DEFINE H == m_Handles
           G == m_Handles'
<1>0. 0 \in Index /\ 0 \notin Slots
  BY IndexFacts
<1>1. ASSUME NEW i \in Slots, UNCHANGED alloc, CloseClone(i) PROVE ObjectsOK'
  <2> DEFINE m == H[i].clone
             x == IF H[m].refcount = 1 THEN m ELSE 0
  <2>1. /\ H[i].set = "Used" /\ m # 0 /\ FreedClone(G, i, m)
        /\ IF H[m].refcount = 1 THEN Ends(m) ELSE UNCHANGED life
    BY <1>1 DEF CloseClone, Open
  <2>2. m \in Slots /\ Live(m) /\ H[m].clone = 0 /\ ~H[m].is_destroying /\ m # i
    BY <2>1, CloneFacts DEF ObjectInv
  <2>3. H[i].object = 0 /\ InUse(i) /\ InUse(m)
    BY <2>1, <2>2 DEF ObjectInv, ObjectsOK, InUse, Live
  <2>4. x \in Index /\ x # i /\ (x # 0 => x = m /\ H[m].refcount = 1) /\ (x = 0 => H[m].refcount # 1)
    BY <1>0, <2>1, <2>2, IndexFacts
  <2>5. H[m].is_destroying = FALSE
    BY <2>2, TypeFacts, TableFacts, IndexFacts DEF ObjectInv
  <2> HIDE DEF m, x
  <2>6. /\ \A j \in Slots : SameBody(G[j], H[j])
        /\ \A j \in Slots : G[j].set = IF j = i THEN "None" ELSE H[j].set
        /\ \A j \in Slots : j \notin {i, m} => G[j].is_destroying = H[j].is_destroying
        /\ G[m].is_destroying = (H[m].refcount = 1)
    BY <2>1 DEF FreedClone
  <2>7. x # 0 => /\ InUse(x) /\ H[x].clone = 0 /\ ~H[x].is_destroying
                 /\ G[x].set # "None" /\ G[x].is_destroying /\ Ends(x)
    BY <2>1, <2>2, <2>3, <2>4, <2>6 DEF InUse
  <2>8. x = 0 => UNCHANGED life
    BY <2>1, <2>4
  <2>9. \A j \in Slots : j # x /\ G[j].set # "None" => G[j].is_destroying = H[j].is_destroying
    BY <2>4, <2>5, <2>6
  <2> QED BY <1>1, <2>3, <2>4, <2>6, <2>7, <2>8, <2>9, ObjectsKept DEF InUse
<1>2. ASSUME NEW i \in Slots, UNCHANGED alloc, CloseMaster(i) PROVE ObjectsOK'
  <2>1. H[i].set = "Used" /\ ~H[i].is_destroying /\ H[i].clone = 0 /\ InUse(i)
    BY <1>2 DEF CloseMaster, Open, InUse
  <2>2. CASE H[i].refcount = 1
    <3>1. Dying(G, i) /\ Ends(i)
      BY <1>2, <2>2 DEF CloseMaster
    <3>2. /\ \A j \in Slots : SameBody(G[j], H[j]) /\ G[j].set = H[j].set
          /\ \A j \in Slots : j # i => G[j].is_destroying = H[j].is_destroying
          /\ G[i].is_destroying
      BY <3>1 DEF Dying
    <3>3. i \in Index /\ i # 0
      BY IndexFacts
    <3> QED BY <1>2, <2>1, <3>1, <3>2, <3>3, ObjectsKept DEF InUse
  <2>3. CASE H[i].refcount # 1
    <3>1. Closed(G, i) /\ UNCHANGED life
      BY <1>2, <2>3 DEF CloseMaster
    <3>2. \A j \in Slots : /\ SameBody(G[j], H[j]) /\ G[j].set = IF j = i THEN "Freed" ELSE H[j].set
                           /\ G[j].is_destroying = H[j].is_destroying
      BY <3>1 DEF Closed
    <3> QED BY <1>0, <1>2, <2>1, <3>1, <3>2, ObjectsKept DEF InUse
  <2> QED BY <2>2, <2>3
<1>3. ASSUME NEW i \in Slots, UNCHANGED alloc, Gone(i) PROVE ObjectsOK'
  <2>1. /\ H[i].is_destroying /\ InUse(i) /\ UNCHANGED life
        /\ SameBody(G[i], H[i]) /\ G[i].set = "None"
        /\ \A j \in Slots : j # i => Same(G, j)
    BY <1>3 DEF Gone
  <2>2. \A j \in Slots : /\ SameBody(G[j], H[j])
                         /\ j # i => G[j].set = H[j].set /\ G[j].is_destroying = H[j].is_destroying
    BY <2>1 DEF Same
  <2> QED BY <1>0, <1>3, <2>1, <2>2, ObjectsKept DEF InUse
<1>4. ASSUME NEW i \in Slots, UNCHANGED alloc, CloseIdentity(i) PROVE ObjectsOK'
  <2>1. /\ H[i].set = "Identity" /\ UNCHANGED life
        /\ SameBody(G[i], H[i]) /\ G[i].set = "Identity"
        /\ \A j \in Slots : j # i => Same(G, j)
    BY <1>4 DEF CloseIdentity
  <2>2. \A j \in Slots : /\ SameBody(G[j], H[j])
                         /\ G[j].set = H[j].set
                         /\ j # i => G[j].is_destroying = H[j].is_destroying
    BY <2>1 DEF Same
  <2> QED BY <1>0, <1>4, <2>1, <2>2, ObjectsKept DEF InUse
<1>5. CASE UNCHANGED <<alloc, m_Handles, life>>
  <2>1. UNCHANGED <<issued, birth, m_Handles, life>>
    BY <1>5, AllocSame
  <2> QED BY <2>1 DEF ObjectInv, ObjectsOK, InUse
<1> QED
  BY <1>1, <1>2, <1>3, <1>4, <1>5, ObjectsNew DEF Kind

\* What was k handles ago is k + 1 handles ago once one more was made, across
\* the wrap to 1.
LEMMA SerialShift ==
  ASSUME IInv, m_HSerial' = NextSerial
  PROVE  /\ SerialAgo(0)' = NextSerial
         /\ \A k \in Nat : k + 1 < MaxSerials - 1 => SerialAgo(k + 1)' = SerialAgo(k)
<1>1. m_HSerial \in 1..(MaxSerials - 1) /\ MaxSerials \in Nat /\ MaxSerials >= 4
  BY NumFacts, TableAssumption
<1>2. CASE m_HSerial + 1 >= MaxSerials
  <2>1. m_HSerial = MaxSerials - 1 /\ m_HSerial' = 1
    BY <1>1, <1>2 DEF NextSerial
  <2> QED BY <1>1, <2>1 DEF SerialAgo
<1>3. CASE ~(m_HSerial + 1 >= MaxSerials)
  <2>1. m_HSerial' = m_HSerial + 1
    BY <1>3 DEF NextSerial
  <2> QED BY <1>1, <2>1 DEF SerialAgo
<1> QED
  BY <1>2, <1>3

\* A handle that is made gets a serial that differs from what closed ones of its slot had.
LEMMA SerialsNew ==
  ASSUME ObjectInv, NEW i \in Slots, NEW m \in Index, NEW o \in 0..MaxMade, NewHandle(i, m, o)
  PROVE  SerialsOK'
<1> DEFINE H == m_Handles
           G == m_Handles'
           new == [index |-> i, serial |-> NextSerial]
<1>0. PICK len \in Nat : len = Len(issued)
  BY NumFacts, TypeFacts DEF ObjectInv
<1>1. /\ G[i].serial = NextSerial /\ m_HSerial' = NextSerial
      /\ issued' = Append(issued, new) /\ birth' = [birth EXCEPT ![i] = len + 1]
      /\ \A j \in Slots : j # i => G[j].set = H[j].set /\ G[j].serial = H[j].serial
  BY <1>0 DEF NewHandle, Same, SameBody
<1>2. /\ issued \in Seq(Handle_t) /\ len \in Nat /\ birth \in [Index -> 0..MaxMade]
      /\ MaxSerials \in Nat
  BY <1>0, NumFacts, TypeFacts, TableAssumption DEF ObjectInv
<1>3. new.index = i /\ new.serial = NextSerial
  OBVIOUS
<1> HIDE DEF new
<1>4. /\ Len(issued') = len + 1 /\ issued'[len + 1] = new
      /\ \A k \in 1..len : issued'[k] = issued[k]
  BY <1>0, <1>1, <1>2
<1>5. /\ birth'[i] = len + 1 /\ \A j \in Slots : j # i => birth'[j] = birth[j]
  BY <1>1, <1>2, IndexFacts
<1>6. /\ SerialAgo(0)' = NextSerial
      /\ \A k \in Nat : k + 1 < MaxSerials - 1 => SerialAgo(k + 1)' = SerialAgo(k)
  BY <1>1, SerialShift DEF ObjectInv
<1>7. /\ \A j \in Slots : H[j].set # "None" =>
           birth[j] \in 1..len /\ issued[birth[j]].serial = H[j].serial
      /\ \A k \in 1..len :
           /\ issued[k].index \in Slots /\ k <= birth[issued[k].index]
           /\ len - k < MaxSerials - 1 => issued[k].serial = SerialAgo(len - k)
  BY <1>0 DEF ObjectInv, SerialsOK, InUse
<1>8. ASSUME NEW j \in Slots, G[j].set # "None"
      PROVE  birth'[j] \in 1..(len + 1) /\ issued'[birth'[j]].serial = G[j].serial
  <2>1. CASE j = i
    BY <2>1, <1>1, <1>2, <1>3, <1>4, <1>5
  <2>2. CASE j # i
    <3>1. birth'[j] = birth[j] /\ birth[j] \in 1..len /\ issued[birth[j]].serial = H[j].serial
      BY <2>2, <1>1, <1>5, <1>7, <1>8
    <3>2. birth[j] \in 1..(len + 1)
      BY <3>1, <1>2
    <3> QED BY <2>2, <3>1, <3>2, <1>1, <1>4
  <2> QED BY <2>1, <2>2
<1>9. ASSUME NEW k \in 1..(len + 1)
      PROVE  /\ issued'[k].index \in Slots /\ k <= birth'[issued'[k].index]
             /\ (len + 1) - k < MaxSerials - 1 => issued'[k].serial = SerialAgo((len + 1) - k)'
  <2>1. CASE k = len + 1
    <3>1. (len + 1) - k = 0
      BY <2>1, <1>2
    <3>2. issued'[k] = new /\ k <= len + 1
      BY <2>1, <1>2, <1>4
    <3> QED BY <3>1, <3>2, <1>3, <1>5, <1>6
  <2>2. CASE k # len + 1
    <3>1. k \in 1..len /\ issued'[k] = issued[k] /\ k <= len + 1
      BY <2>2, <1>2, <1>4
    <3>2. issued[k].index \in Slots /\ k <= birth[issued[k].index]
      BY <3>1, <1>7
    <3>3. k <= birth'[issued[k].index]
      BY <3>1, <3>2, <1>5
    <3>4. ASSUME (len + 1) - k < MaxSerials - 1
          PROVE  issued[k].serial = SerialAgo((len + 1) - k)'
      <4>1. /\ len - k \in Nat /\ (len - k) + 1 = (len + 1) - k
            /\ (len - k) + 1 < MaxSerials - 1 /\ len - k < MaxSerials - 1
        BY <3>1, <3>4, <1>2
      <4>2. issued[k].serial = SerialAgo(len - k)
        BY <4>1, <3>1, <1>7
      <4>3. SerialAgo((len - k) + 1)' = SerialAgo(len - k)
        BY <4>1, <1>6
      <4> QED BY <4>1, <4>2, <4>3
    <3> QED BY <3>1, <3>2, <3>3, <3>4
  <2> QED BY <2>1, <2>2
<1> QED
  BY <1>4, <1>8, <1>9 DEF SerialsOK, InUse

\* Every kind of step keeps the serials right.
LEMMA SerialsStep ==
  ASSUME ObjectInv, Kind
  PROVE  SerialsOK'
<1>1. CASE \E i \in Slots, m \in Index, o \in 0..MaxMade : NewHandle(i, m, o)
  BY <1>1, SerialsNew
<1>2. ASSUME UNCHANGED alloc,
             \A j \in Slots : m_Handles'[j].serial = m_Handles[j].serial,
             \A j \in Slots : m_Handles'[j].set # "None" => m_Handles[j].set # "None"
      PROVE  SerialsOK'
  <2>1. UNCHANGED <<issued, birth, m_HSerial>>
    BY <1>2, AllocSame
  <2> QED BY <1>2, <2>1 DEF ObjectInv, SerialsOK, InUse, SerialAgo
<1>3. ASSUME NEW i \in Slots, UNCHANGED alloc, CloseClone(i) PROVE SerialsOK'
  BY <1>2, <1>3 DEF CloseClone, FreedClone, SameBody
<1>4. ASSUME NEW i \in Slots, UNCHANGED alloc, CloseMaster(i) PROVE SerialsOK'
  <2>1. \A j \in Slots : /\ SameBody(m_Handles'[j], m_Handles[j])
                         /\ m_Handles'[j].set # "None" => m_Handles[j].set # "None"
    BY <1>4 DEF CloseMaster, Closed, Dying, Open
  <2> QED BY <1>2, <1>4, <2>1 DEF SameBody
<1>5. ASSUME NEW i \in Slots, UNCHANGED alloc, Gone(i) PROVE SerialsOK'
  BY <1>2, <1>5 DEF Gone, Same, SameBody
<1>6. ASSUME NEW i \in Slots, UNCHANGED alloc, CloseIdentity(i) PROVE SerialsOK'
  BY <1>2, <1>6 DEF CloseIdentity, Same, SameBody
<1>7. CASE UNCHANGED <<alloc, m_Handles, life>>
  BY <1>2, <1>7
<1> QED
  BY <1>1, <1>3, <1>4, <1>5, <1>6, <1>7 DEF Kind

\* After ShareSystem::Initialize and CreateCoreIdentity there are two handles
\* and no object.
LEMMA ObjectInit ==
  ASSUME Init
  PROVE  ObjectInv
<1>0. /\ MaxHandles \in Nat /\ MaxHandles >= 2 /\ MaxSerials \in Nat /\ MaxSerials >= 4
      /\ MaxMade \in Nat /\ MaxMade >= 2
  BY TableAssumption
<1>1. 1 \in Slots /\ 2 \in Slots /\ Slots \subseteq Index
  BY <1>0 DEF Index, Slots
<1>2. /\ issued = <<[index |-> 1, serial |-> 1], [index |-> 2, serial |-> 2]>>
      /\ birth = [i \in Index |-> IF i \in {1, 2} THEN i ELSE 0]
      /\ m_HSerial = 2 /\ life = [n \in 1..MaxMade |-> "none"]
  BY DEF Init
<1>3. Len(issued) = 2 /\ issued[1] = [index |-> 1, serial |-> 1] /\ issued[2] = [index |-> 2, serial |-> 2]
  BY <1>2
<1>4. \A i \in Slots :
        /\ m_Handles[i].object = 0 /\ m_Handles[i].clone = 0
        /\ m_Handles[i].set # "None" => i \in {1, 2} /\ m_Handles[i].serial = i
  <2>1. \A i \in Slots : m_Handles[i] = IF i = 1 THEN BootHandle("Used", NULL, 1, 1)
                                        ELSE IF i = 2 THEN BootHandle("Identity", Root, 2, 1) ELSE Blank
    BY <1>1 DEF Init
  <2> QED BY <2>1 DEF BootHandle, Blank
<1>5. \A i \in Slots : birth[i] = IF i \in {1, 2} THEN i ELSE 0
  BY <1>1, <1>2
<1>6. ObjectsOK
  <2>1. \A n \in 1..MaxMade : life[n] = "none"
    BY <1>2
  <2>2. \A i \in Slots : InUse(i) => birth[i] \in 1..Len(issued) /\ i \in {1, 2} /\ birth[i] = i
    BY <1>3, <1>4, <1>5 DEF InUse
  <2>3. \A i, j \in Slots : InUse(i) /\ InUse(j) /\ birth[i] = birth[j] => i = j
    BY <2>2
  <2>4. \A n \in 1..MaxMade : life[n] # "destroyed twice" /\ life[n] # "live"
    BY <2>1
  <2>5. \A i \in Slots : m_Handles[i].object = 0 /\ m_Handles[i].clone = 0
    BY <1>4
  <2> QED BY <2>1, <2>2, <2>3, <2>4, <2>5 DEF ObjectsOK
<1>7. SerialsOK
  <2>1. \A i \in Slots : InUse(i) =>
          birth[i] \in 1..Len(issued) /\ issued[birth[i]].serial = m_Handles[i].serial
    BY <1>3, <1>4, <1>5 DEF InUse
  <2>2. \A n \in 1..Len(issued) : n = 1 \/ n = 2
    BY <1>3
  <2>3. SerialAgo(0) = 2 /\ SerialAgo(1) = 1
    BY <1>0, <1>2 DEF SerialAgo
  <2>4. \A n \in 1..Len(issued) :
          /\ issued[n].index \in Slots /\ n <= birth[issued[n].index]
          /\ issued[n].serial = SerialAgo(Len(issued) - n)
    BY <2>2, <2>3, <1>1, <1>3, <1>5
  <2> QED BY <2>1, <2>4 DEF SerialsOK
<1> QED
  BY <1>6, <1>7, InitInv DEF ObjectInv

\* Every step preserves the object invariant.
LEMMA ObjectNext ==
  ASSUME ObjectInv, [Next]_vars
  PROVE  ObjectInv'
<1>1. IInv' /\ Kind
  BY NextInv, StepKinds DEF ObjectInv
<1> QED
  BY <1>1, ObjectsStep, SerialsStep DEF ObjectInv

\* Objects and serial numbers agree with the table in every reachable state.
THEOREM ObjectInvariance == Spec => []ObjectInv
<1>1. Init => ObjectInv
  BY ObjectInit
<1>2. ObjectInv /\ [Next]_vars => ObjectInv'
  BY ObjectNext
<1> QED
  BY <1>1, <1>2, PTL DEF Spec

\* OnHandleDestroy is called once per object: never while an open handle leads
\* to it, and before its slot is released.
THEOREM ObjectsDieOnce == Spec => []ObjectLifetime
<1>1. ObjectInv => ObjectLifetime
  <2> SUFFICES ASSUME ObjectInv, NEW n \in 1..MaxMade
               PROVE  /\ life[n] # "destroyed twice"
                      /\ life[n] = "live" <=>
                           \E i \in Slots : Live(i) /\ ~m_Handles[i].is_destroying /\ m_Handles[i].object = n
    BY DEF ObjectLifetime
  <2>0. n # 0
    OBVIOUS
  <2>1. life[n] # "destroyed twice"
    BY DEF ObjectInv, ObjectsOK
  <2>2. ASSUME life[n] = "live"
        PROVE  \E i \in Slots : Live(i) /\ ~m_Handles[i].is_destroying /\ m_Handles[i].object = n
    <3>1. PICK i \in Slots : InUse(i) /\ m_Handles[i].object = n
      BY <2>2 DEF ObjectInv, ObjectsOK
    <3>2. ~m_Handles[i].is_destroying /\ m_Handles[i].set # "Identity"
      BY <2>0, <2>2, <3>1 DEF ObjectInv, ObjectsOK
    <3>3. m_Handles[i].set \in HandleSet
      BY TypeFacts, TableFacts, IndexFacts DEF ObjectInv
    <3> QED BY <3>1, <3>2, <3>3 DEF Live, InUse, HandleSet
  <2>3. ASSUME NEW i \in Slots, Live(i), ~m_Handles[i].is_destroying, m_Handles[i].object = n
        PROVE  life[n] = "live"
    BY <2>0, <2>3 DEF ObjectInv, ObjectsOK, Live, InUse
  <2> QED BY <2>1, <2>2, <2>3
<1> QED
  BY <1>1, ObjectInvariance, PTL

\* GetHandle refuses a Handle_t whose slot was released and given out again,
\* as long as fewer than MaxSerials - 1 handles were made since.
THEOREM StaleHandlesRefused == Spec => []StaleHandleRejected
<1>1. ObjectInv => StaleHandleRejected
  <2> SUFFICES ASSUME ObjectInv, NEW n \in 1..Len(issued),
                      GetHandle(m_Handles, m_HandleTail, issued[n], Root) = "HandleError_None",
                      Len(issued) - n < MaxSerials - 1
               PROVE  birth[issued[n].index] = n
    BY DEF StaleHandleRejected
  <2> DEFINE i == issued[n].index
             b == birth[i]
             len == Len(issued)
  <2>1. i \in Slots /\ n <= b /\ issued[n].serial = SerialAgo(len - n)
    BY DEF ObjectInv, SerialsOK
  <2>2. InUse(i) /\ m_Handles[i].serial = issued[n].serial
    BY DEF GetHandle, InUse
  <2>3. b \in 1..len /\ issued[b].serial = m_Handles[i].serial
    BY <2>1, <2>2 DEF ObjectInv, SerialsOK
  <2>4. len \in Nat /\ m_HSerial \in 1..(MaxSerials - 1) /\ MaxSerials \in Nat
    BY NumFacts, TableAssumption DEF ObjectInv
  <2>5. len - b < MaxSerials - 1
    <3> HIDE DEF b, len
    <3> QED BY <2>1, <2>3, <2>4 DEF len
  <2>6. issued[b].serial = SerialAgo(len - b)
    BY <2>3, <2>5 DEF ObjectInv, SerialsOK
  <2>7. SerialAgo(len - b) = SerialAgo(len - n)
    BY <2>1, <2>2, <2>3, <2>6
  <2> HIDE DEF b, len
  <2>8. len - n < MaxSerials - 1 /\ n \in 1..len
    BY DEF len
  <2> QED BY <2>1, <2>3, <2>4, <2>5, <2>7, <2>8 DEF SerialAgo, b
<1> QED
  BY <1>1, ObjectInvariance, PTL


-----------------------------------------------------------------------------
(* The refinement of AbstractHandles.                                      *)

\* The refinement mapping of a table H, its births b and the objects' lives L.
OpenIn(H, i) == H[i].set \in {"Used", "Identity"} /\ ~H[i].is_destroying
OpenFor(H, b, n) == {i \in Slots : b[i] = n /\ OpenIn(H, i)}
ObjIn(H, i) == H[Master(H, i)].object
HandlesIn(H, b) == {b[i] : i \in {j \in Slots : OpenIn(H, j)}}
ObjectsIn(H, b) ==
  [n \in 1..MaxMade |-> IF OpenFor(H, b, n) = {} THEN 0
                        ELSE ObjIn(H, CHOOSE i \in OpenFor(H, b, n) : TRUE)]
DestroyedIn(L) == {n \in 1..MaxMade : L[n] \in {"destroyed", "destroyed twice"}}

\* The state AbstractHandles sees.
NewMade == Len(issued) + 1
OldHandles == HandlesIn(m_Handles, birth)
OldObjects == ObjectsIn(m_Handles, birth)
NewHandles == HandlesIn(m_Handles', birth')
NewObjects == ObjectsIn(m_Handles', birth')

\* The actions of AbstractHandles under the mapping.
LEMMA AbstractMake ==
  ASSUME NEW o, o = 0 \/ o = NewMade, NewMade \in 1..MaxMade, Len(issued') = NewMade,
         NewHandles = OldHandles \cup {NewMade},
         NewObjects = [OldObjects EXCEPT ![NewMade] = o],
         DestroyedIn(life') = DestroyedIn(life)
  PROVE  Abstract!AMake
  BY DEF Abstract!AMake, Abstract!ANew, NewMade, OldHandles, NewHandles, OldObjects, NewObjects,
         HandlesIn, ObjectsIn, DestroyedIn, OpenFor, OpenIn, ObjIn, OpenSlot, SlotOf

\* A clone maps to Clone of AbstractHandles.
LEMMA AbstractClone ==
  ASSUME NEW o, NEW h \in OldHandles, OldObjects[h] = o, NewMade \in 1..MaxMade,
         Len(issued') = NewMade, NewHandles = OldHandles \cup {NewMade},
         NewObjects = [OldObjects EXCEPT ![NewMade] = o],
         DestroyedIn(life') = DestroyedIn(life)
  PROVE  Abstract!AClone(h)
  BY DEF Abstract!AClone, Abstract!ANew, NewMade, OldHandles, NewHandles, OldObjects, NewObjects,
         HandlesIn, ObjectsIn, DestroyedIn, OpenFor, OpenIn, ObjIn, OpenSlot, SlotOf

\* A close maps to Close of AbstractHandles.
LEMMA AbstractClose ==
  ASSUME NEW h \in OldHandles, Len(issued') = Len(issued),
         NewHandles = OldHandles \ {h},
         NewObjects = [OldObjects EXCEPT ![h] = 0],
         DestroyedIn(life') =
           IF OldObjects[h] = 0 \/ \E g \in OldHandles \ {h} : OldObjects[g] = OldObjects[h]
           THEN DestroyedIn(life) ELSE DestroyedIn(life) \cup {OldObjects[h]}
  PROVE  Abstract!AClose(h)
  BY DEF Abstract!AClose, OldHandles, NewHandles, OldObjects, NewObjects,
         HandlesIn, ObjectsIn, DestroyedIn, OpenFor, OpenIn, ObjIn, OpenSlot, SlotOf

\* A step that opens and closes nothing maps to a stutter.
LEMMA AbstractStutter ==
  ASSUME Len(issued') = Len(issued), NewHandles = OldHandles, NewObjects = OldObjects,
         DestroyedIn(life') = DestroyedIn(life)
  PROVE  UNCHANGED Abstract!avars
  BY DEF Abstract!avars, OldHandles, NewHandles, OldObjects, NewObjects,
         HandlesIn, ObjectsIn, DestroyedIn, OpenFor, OpenIn, ObjIn, OpenSlot, SlotOf

\* The handles and objects of a table whose open slots have births of their own.
LEMMA MapFacts ==
  ASSUME NEW H, NEW b,
         \A i \in Slots : OpenIn(H, i) => b[i] \in 1..MaxMade,
         \A i, j \in Slots : OpenIn(H, i) /\ OpenIn(H, j) /\ b[i] = b[j] => i = j
  PROVE  /\ HandlesIn(H, b) \subseteq 1..MaxMade
         /\ \A n : n \in HandlesIn(H, b) <=> \E i \in Slots : OpenIn(H, i) /\ b[i] = n
         /\ \A i \in Slots : OpenIn(H, i) => ObjectsIn(H, b)[b[i]] = ObjIn(H, i)
         /\ \A n \in 1..MaxMade : n \notin HandlesIn(H, b) => ObjectsIn(H, b)[n] = 0
<1>1. \A n : n \in HandlesIn(H, b) <=> \E i \in Slots : OpenIn(H, i) /\ b[i] = n
  BY DEF HandlesIn
<1>2. HandlesIn(H, b) \subseteq 1..MaxMade
  BY <1>1
<1>3. ASSUME NEW i \in Slots, OpenIn(H, i) PROVE ObjectsIn(H, b)[b[i]] = ObjIn(H, i)
  <2>1. OpenFor(H, b, b[i]) = {i}
    BY <1>3 DEF OpenFor
  <2>2. (CHOOSE j \in OpenFor(H, b, b[i]) : TRUE) = i
    BY <2>1
  <2>3. b[i] \in 1..MaxMade /\ OpenFor(H, b, b[i]) # {}
    BY <1>3, <2>1
  <2> QED BY <2>2, <2>3 DEF ObjectsIn
<1>4. ASSUME NEW n \in 1..MaxMade, n \notin HandlesIn(H, b) PROVE ObjectsIn(H, b)[n] = 0
  <2>1. OpenFor(H, b, n) = {}
    BY <1>1, <1>4 DEF OpenFor
  <2> QED BY <2>1 DEF ObjectsIn
<1> QED
  BY <1>1, <1>2, <1>3, <1>4

\* What ObjectInv says of the open slots.
LEMMA OpenFacts ==
  ASSUME ObjectInv
  PROVE  /\ \A i \in Slots : OpenIn(m_Handles, i) =>
              /\ birth[i] \in 1..MaxMade /\ birth[i] <= Len(issued) /\ InUse(i)
              /\ Master(m_Handles, i) \in Slots /\ InUse(Master(m_Handles, i))
              /\ ~m_Handles[Master(m_Handles, i)].is_destroying
         /\ \A i, j \in Slots : InUse(i) /\ InUse(j) /\ birth[i] = birth[j] => i = j
         /\ \A i, j \in Slots : OpenIn(m_Handles, i) /\ OpenIn(m_Handles, j) /\ birth[i] = birth[j] => i = j
<1>1. Len(issued) \in Nat /\ Len(issued) <= MaxMade /\ MaxMade \in Nat
  BY NumFacts, TableAssumption DEF ObjectInv
<1>2. ASSUME NEW i \in Slots, OpenIn(m_Handles, i)
      PROVE  /\ birth[i] \in 1..MaxMade /\ birth[i] <= Len(issued) /\ InUse(i)
             /\ Master(m_Handles, i) \in Slots /\ InUse(Master(m_Handles, i))
             /\ ~m_Handles[Master(m_Handles, i)].is_destroying
  <2>1. InUse(i) /\ ~m_Handles[i].is_destroying
    BY <1>2 DEF OpenIn, InUse
  <2>2. birth[i] \in 1..Len(issued)
    BY <2>1 DEF ObjectInv, ObjectsOK
  <2>3. birth[i] \in 1..MaxMade /\ birth[i] <= Len(issued)
    BY <1>1, <2>2
  <2>4. CASE m_Handles[i].clone # 0
    BY <2>1, <2>3, <2>4, CloneFacts DEF ObjectInv, Master, InUse, Live
  <2>5. CASE m_Handles[i].clone = 0
    BY <2>1, <2>3, <2>5 DEF Master
  <2> QED BY <2>4, <2>5
<1>3. \A i, j \in Slots : InUse(i) /\ InUse(j) /\ birth[i] = birth[j] => i = j
  BY DEF ObjectInv, ObjectsOK
<1> QED
  BY <1>2, <1>3

\* Objects are a function of the handles.
LEMMA ObjectsDomain ==
  /\ OldObjects = [k \in 1..MaxMade |-> OldObjects[k]]
  /\ NewObjects = [k \in 1..MaxMade |-> NewObjects[k]]
  BY DEF OldObjects, NewObjects, ObjectsIn

\* A slot is filled: a new handle for an object of its own, for none, or for
\* the object of the open handle it was cloned from.
LEMMA NewRefines ==
  ASSUME ObjectInv, ObjectInv', NEW i \in Slots, NEW m \in Index, NEW o \in 0..MaxMade,
         NewHandle(i, m, o)
  PROVE  Abstract!ANext
<1> DEFINE H == m_Handles
           G == m_Handles'
<1> PICK new : new = IF m # 0 THEN H[m].object ELSE o
  OBVIOUS
<1>0. PICK n \in Nat : n = NewMade
  BY NumFacts DEF ObjectInv, NewMade
<1>1. /\ ~InUse(i) /\ G[i].set \in {"Used", "Identity"} /\ ~G[i].is_destroying
      /\ G[i].clone = m /\ G[i].object = o /\ \A j \in Slots : j # i => Same(G, j)
      /\ o \in {0, n} /\ (m # 0 => o = 0) /\ n <= MaxMade
      /\ birth' = [birth EXCEPT ![i] = n]
      /\ life' = IF o = 0 THEN life ELSE [life EXCEPT ![o] = "live"]
  BY <1>0 DEF NewHandle, NewMade
<1>2. Len(issued') = n
  <2>1. issued \in Seq(Handle_t)
    BY TypeFacts DEF ObjectInv
  <2> QED BY <2>1, <1>0 DEF NewHandle, NewMade
<1>3. n \in 1..MaxMade /\ n > Len(issued) /\ ~(n <= Len(issued))
  BY <1>0, <1>1, NumFacts, TableAssumption DEF ObjectInv, NewMade
<1>4. birth'[i] = n /\ \A j \in Slots : j # i => birth'[j] = birth[j]
  BY <1>1, TypeFacts, IndexFacts DEF ObjectInv
<1>5. /\ \A j \in Slots : j # i => /\ OpenIn(G, j) <=> OpenIn(H, j)
                                   /\ G[j].clone = H[j].clone /\ G[j].object = H[j].object
      /\ OpenIn(G, i) /\ ~OpenIn(H, i)
  BY <1>1 DEF OpenIn, Same, SameBody, InUse
<1>6. \A j \in Slots : OpenIn(H, j) => birth[j] \in 1..MaxMade /\ birth[j] # n
  BY <1>3, OpenFacts
<1>7. ASSUME NEW j \in Slots, OpenIn(H, j) PROVE j # i /\ ObjIn(G, j) = ObjIn(H, j)
  <2>1. j # i /\ Master(H, j) \in Slots /\ Master(H, j) # i
    BY <1>1, <1>5, <1>7, OpenFacts
  <2> QED BY <2>1, <1>5 DEF ObjIn, Master
<1>8. m # 0 => /\ \E j \in Slots : OpenIn(H, j) /\ ObjIn(H, j) = H[m].object
               /\ m \in Slots /\ m # i
  <2> SUFFICES ASSUME m # 0
               PROVE  /\ \E j \in Slots : OpenIn(H, j) /\ ObjIn(H, j) = H[m].object
                      /\ m \in Slots /\ m # i
    OBVIOUS
  <2>1. PICK j \in Slots : H[j].set = "Used" /\ Master(H, j) = m /\ ~H[m].is_destroying
    BY DEF NewHandle
  <2>2. InUse(j) /\ (H[j].clone # 0 => ~H[j].is_destroying)
    BY <2>1 DEF ObjectInv, ObjectsOK, InUse
  <2>3. OpenIn(H, j) /\ ObjIn(H, j) = H[m].object
    BY <2>1, <2>2 DEF OpenIn, Master, ObjIn
  <2> QED BY <2>1, <2>3, <1>1, OpenFacts
<1>9. ObjIn(G, i) = new
  BY <1>1, <1>5, <1>8 DEF ObjIn, Master
<1>10. /\ \A k : k \in OldHandles <=> \E j \in Slots : OpenIn(H, j) /\ birth[j] = k
       /\ \A j \in Slots : OpenIn(H, j) => OldObjects[birth[j]] = ObjIn(H, j)
       /\ \A k \in 1..MaxMade : k \notin OldHandles => OldObjects[k] = 0
  BY OpenFacts, MapFacts DEF OldHandles, OldObjects
<1>11. /\ \A k : k \in NewHandles <=> \E j \in Slots : OpenIn(G, j) /\ birth'[j] = k
       /\ \A j \in Slots : OpenIn(G, j) => NewObjects[birth'[j]] = ObjIn(G, j)
       /\ \A k \in 1..MaxMade : k \notin NewHandles => NewObjects[k] = 0
  <2>1. \A j \in Slots : OpenIn(G, j) => birth'[j] \in 1..MaxMade
    BY <1>3, <1>4, <1>5, <1>6
  <2>2. \A j, k \in Slots : OpenIn(G, j) /\ OpenIn(G, k) /\ birth'[j] = birth'[k] => j = k
    BY <1>4, <1>5, <1>6, OpenFacts
  <2> QED BY <2>1, <2>2, MapFacts DEF NewHandles, NewObjects
<1>12. NewHandles = OldHandles \cup {n}
  BY <1>4, <1>5, <1>10, <1>11
<1>13. NewObjects = [OldObjects EXCEPT ![n] = new]
  <2>1. NewObjects[n] = new
    BY <1>4, <1>5, <1>9, <1>11
  <2>2. ASSUME NEW k \in 1..MaxMade, k # n PROVE NewObjects[k] = OldObjects[k]
    <3>1. CASE k \in OldHandles
      <4>1. PICK j \in Slots : OpenIn(H, j) /\ birth[j] = k
        BY <3>1, <1>10
      <4>2. j # i /\ OpenIn(G, j) /\ birth'[j] = k /\ ObjIn(G, j) = ObjIn(H, j)
        BY <4>1, <1>4, <1>5, <1>7
      <4> QED BY <4>1, <4>2, <1>10, <1>11
    <3>2. CASE k \notin OldHandles
      BY <2>2, <3>2, <1>10, <1>11, <1>12
    <3> QED BY <3>1, <3>2
  <2> QED BY <2>1, <2>2, <1>3, ObjectsDomain
<1>14. DestroyedIn(life') = DestroyedIn(life)
  <2>1. life \in Lives
    BY DEF ObjectInv, IInv, TypeOK, Lives
  <2>2. life[n] = "none"
    BY <1>3 DEF ObjectInv, ObjectsOK
  <2> QED BY <2>1, <2>2, <1>1, <1>3 DEF DestroyedIn, Lives
<1>15. CASE m = 0
  <2>1. new = 0 \/ new = NewMade
    BY <1>0, <1>1, <1>15
  <2>2. Abstract!AMake
    BY <2>1, <1>0, <1>2, <1>3, <1>12, <1>13, <1>14, AbstractMake
  <2> QED BY <2>2 DEF Abstract!ANext
<1>16. CASE m # 0
  <2>1. PICK j \in Slots : OpenIn(H, j) /\ ObjIn(H, j) = new
    BY <1>8, <1>16
  <2>2. PICK h \in 1..MaxMade : h = birth[j]
    BY <2>1, <1>6
  <2>3. h \in OldHandles /\ OldObjects[h] = new
    BY <2>1, <2>2, <1>10
  <2>4. Abstract!AClone(h)
    BY <2>3, <1>0, <1>2, <1>3, <1>12, <1>13, <1>14, AbstractClone
  <2> QED BY <2>4 DEF Abstract!ANext
<1> QED
  BY <1>15, <1>16

\* Two handles stand for one object only if they have one master.
LEMMA OneMaster ==
  ASSUME ObjectInv, NEW i \in Slots, NEW j \in Slots,
         OpenIn(m_Handles, i), OpenIn(m_Handles, j),
         ObjIn(m_Handles, i) # 0, ObjIn(m_Handles, i) = ObjIn(m_Handles, j)
  PROVE  Master(m_Handles, i) = Master(m_Handles, j)
<1>1. PICK p \in Slots, q \in Slots : p = Master(m_Handles, i) /\ q = Master(m_Handles, j)
  BY OpenFacts
<1>2. InUse(p) /\ InUse(q) /\ m_Handles[p].object # 0 /\ m_Handles[p].object = m_Handles[q].object
  BY <1>1, OpenFacts DEF ObjIn
<1>3. birth[p] = birth[q]
  BY <1>2 DEF ObjectInv, ObjectsOK
<1> QED
  BY <1>1, <1>2, <1>3, OpenFacts

\* The handles and the objects after a step that makes no handle and changes
\* no slot but for closing the slots in X.
LEMMA KeptMap ==
  ASSUME ObjectInv, UNCHANGED alloc, NEW X \in SUBSET Slots,
         \A j \in Slots : SameBody(m_Handles'[j], m_Handles[j]),
         \A j \in Slots \ X : OpenIn(m_Handles', j) <=> OpenIn(m_Handles, j),
         \A j \in X : OpenIn(m_Handles, j) /\ ~OpenIn(m_Handles', j)
  PROVE  /\ Len(issued') = Len(issued)
         /\ NewHandles = OldHandles \ {birth[j] : j \in X}
         /\ \A n \in 1..MaxMade :
              NewObjects[n] = IF n \in {birth[j] : j \in X} THEN 0 ELSE OldObjects[n]
<1> DEFINE H == m_Handles
           G == m_Handles'
           B == {birth[j] : j \in X}
<1>1. birth' = birth /\ issued' = issued
  BY AllocSame
<1>2. \A j \in Slots : OpenIn(H, j) => birth[j] \in 1..MaxMade
  BY OpenFacts
<1>3. \A j, k \in Slots : OpenIn(H, j) /\ OpenIn(H, k) /\ birth[j] = birth[k] => j = k
  BY OpenFacts
<1>4. /\ \A k : k \in OldHandles <=> \E j \in Slots : OpenIn(H, j) /\ birth[j] = k
      /\ \A j \in Slots : OpenIn(H, j) => OldObjects[birth[j]] = ObjIn(H, j)
      /\ \A k \in 1..MaxMade : k \notin OldHandles => OldObjects[k] = 0
  BY <1>2, <1>3, MapFacts DEF OldHandles, OldObjects
<1>5. \A j \in Slots : OpenIn(G, j) => OpenIn(H, j)
  OBVIOUS
<1>6. /\ \A k : k \in NewHandles <=> \E j \in Slots : OpenIn(G, j) /\ birth[j] = k
      /\ \A j \in Slots : OpenIn(G, j) => NewObjects[birth[j]] = ObjIn(G, j)
      /\ \A k \in 1..MaxMade : k \notin NewHandles => NewObjects[k] = 0
  BY <1>1, <1>2, <1>3, <1>5, MapFacts DEF NewHandles, NewObjects
<1>7. ASSUME NEW k, k \in OldHandles, k \notin B PROVE k \in NewHandles
  <2>1. PICK j \in Slots : OpenIn(H, j) /\ birth[j] = k
    BY <1>4, <1>7
  <2>2. j \notin X
    BY <1>7, <2>1
  <2> QED BY <2>1, <2>2, <1>6
<1>8. ASSUME NEW k, k \in NewHandles PROVE k \in OldHandles /\ k \notin B
  <2>1. PICK j \in Slots : OpenIn(G, j) /\ birth[j] = k
    BY <1>6, <1>8
  <2>2. OpenIn(H, j) /\ j \notin X
    BY <2>1, <1>5
  <2>3. \A x \in X : birth[x] # k
    BY <2>1, <2>2, <1>3
  <2> QED BY <2>1, <2>2, <2>3, <1>4
<1>9. ASSUME NEW n \in 1..MaxMade PROVE NewObjects[n] = IF n \in B THEN 0 ELSE OldObjects[n]
  <2>1. CASE n \in NewHandles
    <3>1. PICK j \in Slots : OpenIn(G, j) /\ birth[j] = n
      BY <1>6, <2>1
    <3>2. OpenIn(H, j) /\ Master(H, j) \in Slots
      BY <3>1, <1>5, OpenFacts
    <3>3. ObjIn(G, j) = ObjIn(H, j)
      BY <3>2 DEF ObjIn, Master, SameBody
    <3> QED BY <3>1, <3>2, <3>3, <1>4, <1>6, <1>8, <2>1
  <2>2. CASE n \notin NewHandles
    BY <2>2, <1>4, <1>6, <1>7
  <2> QED BY <2>1, <2>2
<1> QED
  BY <1>1, <1>7, <1>8, <1>9

\* Closing the handle of slot i alone, with the object if no open handle has
\* the same master.
LEMMA CloseRefines ==
  ASSUME ObjectInv, UNCHANGED alloc, NEW i \in Slots, OpenIn(m_Handles, i), ~OpenIn(m_Handles', i),
         \A j \in Slots : SameBody(m_Handles'[j], m_Handles[j]),
         \A j \in Slots : j # i => (OpenIn(m_Handles', j) <=> OpenIn(m_Handles, j)),
         NEW shared \in BOOLEAN,
         ObjIn(m_Handles, i) # 0 =>
           (shared <=> \E j \in Slots : /\ j # i /\ OpenIn(m_Handles, j)
                                        /\ Master(m_Handles, j) = Master(m_Handles, i)),
         DestroyedIn(life') = IF ObjIn(m_Handles, i) = 0 \/ shared THEN DestroyedIn(life)
                              ELSE DestroyedIn(life) \cup {ObjIn(m_Handles, i)}
  PROVE  Abstract!ANext
<1> DEFINE H == m_Handles
<1>1. PICK h \in 1..MaxMade : h = birth[i]
  BY OpenFacts
<1>2. /\ Len(issued') = Len(issued) /\ NewHandles = OldHandles \ {h}
      /\ \A n \in 1..MaxMade : NewObjects[n] = IF n = h THEN 0 ELSE OldObjects[n]
  <2>1. PICK X \in SUBSET Slots : X = {i}
    OBVIOUS
  <2>2. {birth[j] : j \in X} = {h}
    BY <1>1, <2>1
  <2>3. /\ \A j \in Slots \ X : OpenIn(m_Handles', j) <=> OpenIn(m_Handles, j)
        /\ \A j \in X : OpenIn(m_Handles, j) /\ ~OpenIn(m_Handles', j)
    BY <2>1
  <2>4. /\ Len(issued') = Len(issued) /\ NewHandles = OldHandles \ {birth[j] : j \in X}
        /\ \A n \in 1..MaxMade :
             NewObjects[n] = IF n \in {birth[j] : j \in X} THEN 0 ELSE OldObjects[n]
    BY <2>3, KeptMap
  <2> QED BY <2>2, <2>4
<1>3. NewObjects = [OldObjects EXCEPT ![h] = 0]
  BY <1>2, ObjectsDomain
<1>4. /\ \A k : k \in OldHandles <=> \E j \in Slots : OpenIn(H, j) /\ birth[j] = k
      /\ \A j \in Slots : OpenIn(H, j) => OldObjects[birth[j]] = ObjIn(H, j)
  BY OpenFacts, MapFacts DEF OldHandles, OldObjects
<1>5. h \in OldHandles /\ OldObjects[h] = ObjIn(H, i)
  BY <1>1, <1>4
<1>6. ASSUME ObjIn(H, i) # 0
      PROVE  shared <=> \E g \in OldHandles \ {h} : OldObjects[g] = OldObjects[h]
  <2>1. ASSUME shared PROVE \E g \in OldHandles \ {h} : OldObjects[g] = OldObjects[h]
    <3>1. PICK j \in Slots : j # i /\ OpenIn(H, j) /\ Master(H, j) = Master(H, i)
      BY <1>6, <2>1
    <3>2. birth[j] \in OldHandles /\ birth[j] # h /\ OldObjects[birth[j]] = ObjIn(H, i)
      BY <3>1, <1>1, <1>4, OpenFacts DEF ObjIn
    <3> QED BY <3>2, <1>5
  <2>2. ASSUME NEW g \in OldHandles \ {h}, OldObjects[g] = OldObjects[h] PROVE shared
    <3>1. PICK j \in Slots : OpenIn(H, j) /\ birth[j] = g
      BY <1>4, <2>2
    <3>2. j # i /\ ObjIn(H, j) = ObjIn(H, i)
      BY <3>1, <2>2, <1>1, <1>4, <1>5
    <3> QED BY <3>1, <3>2, <1>6, OneMaster
  <2> QED BY <2>1, <2>2
<1>7. Abstract!AClose(h)
  BY <1>2, <1>3, <1>5, <1>6, AbstractClose
<1> QED
  BY <1>7 DEF Abstract!ANext

\* A step that closes nothing.
LEMMA StutterRefines ==
  ASSUME ObjectInv, UNCHANGED alloc, UNCHANGED life,
         \A j \in Slots : SameBody(m_Handles'[j], m_Handles[j]),
         \A j \in Slots : OpenIn(m_Handles', j) <=> OpenIn(m_Handles, j)
  PROVE  UNCHANGED Abstract!avars
<1>1. PICK X \in SUBSET Slots : X = {}
  OBVIOUS
<1>2. /\ Len(issued') = Len(issued) /\ NewHandles = OldHandles \ {birth[j] : j \in X}
      /\ \A n \in 1..MaxMade :
           NewObjects[n] = IF n \in {birth[j] : j \in X} THEN 0 ELSE OldObjects[n]
  BY <1>1, KeptMap
<1>3. NewHandles = OldHandles /\ \A n \in 1..MaxMade : NewObjects[n] = OldObjects[n]
  BY <1>1, <1>2
<1>4. NewObjects = OldObjects
  BY <1>3, ObjectsDomain
<1> QED
  BY <1>2, <1>3, <1>4, AbstractStutter

\* The destructor call of Ends: the object, which was live, is destroyed.
LEMMA EndsDestroys ==
  ASSUME ObjectInv, NEW m \in Slots, InUse(m), ~m_Handles[m].is_destroying, Ends(m)
  PROVE  DestroyedIn(life') = IF m_Handles[m].object = 0 THEN DestroyedIn(life)
                              ELSE DestroyedIn(life) \cup {m_Handles[m].object}
<1> DEFINE o == m_Handles[m].object
<1>1. life \in Lives
  BY DEF ObjectInv, IInv, TypeOK, Lives
<1>2. o \in 0..MaxMade
  BY TypeFacts, TableFacts, IndexFacts DEF ObjectInv
<1>3. o # 0 => life[o] = "live"
  BY DEF ObjectInv, ObjectsOK
<1>4. life' = IF o = 0 THEN life
              ELSE [life EXCEPT ![o] = IF @ = "live" THEN "destroyed" ELSE "destroyed twice"]
  BY DEF Ends
<1> HIDE DEF o
<1>5. CASE o = 0
  BY <1>4, <1>5 DEF DestroyedIn, o
<1>6. CASE o # 0
  <2>1. o \in 1..MaxMade
    BY <1>2, <1>6, TableAssumption
  <2>2. life'[o] = "destroyed" /\ \A n \in 1..MaxMade : n # o => life'[n] = life[n]
    BY <1>1, <1>3, <1>4, <1>6, <2>1 DEF Lives
  <2>3. DestroyedIn(life') = DestroyedIn(life) \cup {o}
    BY <2>1, <2>2 DEF DestroyedIn
  <2> QED BY <2>3, <1>6 DEF o
<1> QED
  BY <1>5, <1>6

\* RefCountOK, from the side of the clients: the reference count of a master
\* is 1 just when the handle that is being closed is the last one to it.
LEMMA LastReference ==
  ASSUME ObjectInv, NEW i \in Slots, m_Handles[i].set = "Used", ~m_Handles[i].is_destroying,
         NEW m \in Slots, m = Master(m_Handles, i)
  PROVE  m_Handles[m].refcount # 1 <=>
           \E j \in Slots : j # i /\ OpenIn(m_Handles, j) /\ Master(m_Handles, j) = m
<1> DEFINE H == m_Handles
           C == ClonesIn(H, m)
           self == SelfRef(H[m])
<1>0. \A j \in Slots : H[j].clone = 0 \/ H[j].clone \in Slots
  BY TypeFacts, TableFacts, IndexFacts DEF ObjectInv
<1>1. Counted(H[m])
  <2>1. CASE H[i].clone = 0
    BY <2>1 DEF Master, Counted
  <2>2. CASE H[i].clone # 0
    BY <2>2, CloneFacts DEF Master, Counted, ObjectInv, Live
  <2> QED BY <2>1, <2>2
<1>2. H[m].refcount = Cardinality(C) + self
  BY <1>1, RefCountSplit DEF ObjectInv, IInv, RefIn
<1>3. IsFiniteSet(C) /\ Cardinality(C) \in Nat /\ self \in {0, 1}
  BY ClonesFinite DEF SelfRef
<1>4. \A j \in Slots : OpenIn(H, j) /\ Master(H, j) = m <=> j \in C \/ (j = m /\ self = 1)
  <2>1. ASSUME NEW j \in Slots, OpenIn(H, j), Master(H, j) = m
        PROVE  j \in C \/ (j = m /\ self = 1)
    <3>1. CASE H[j].clone # 0
      BY <2>1, <3>1 DEF ClonesIn, Master, OpenIn
    <3>2. CASE H[j].clone = 0
      BY <2>1, <3>2, <1>1 DEF Master, OpenIn, SelfRef, Counted
    <3> QED BY <3>1, <3>2
  <2>2. ASSUME NEW j \in C PROVE OpenIn(H, j) /\ Master(H, j) = m
    <3>1. j \in Slots /\ H[j].set # "None" /\ H[j].clone = m /\ m # 0
      BY IndexFacts DEF ClonesIn
    <3>2. H[j].set = "Used"
      BY <3>1, CloneFacts DEF ObjectInv
    <3>3. ~H[j].is_destroying
      BY <3>1 DEF ObjectInv, ObjectsOK, InUse
    <3> QED BY <3>1, <3>2, <3>3 DEF OpenIn, Master
  <2>3. ASSUME self = 1 PROVE OpenIn(H, m) /\ Master(H, m) = m
    BY <2>3, <1>1 DEF SelfRef, OpenIn, Master, Counted
  <2> QED BY <2>1, <2>2, <2>3
<1>5. m \notin C
  BY <1>1, IndexFacts DEF ClonesIn, Counted
<1>6. i \in C \/ (i = m /\ self = 1)
  BY <1>4 DEF OpenIn
<1> HIDE DEF C, self
<1>7. CASE i \in C
  <2>1. IsFiniteSet(C \ {i}) /\ Cardinality(C \ {i}) = Cardinality(C) - 1
    BY <1>3, <1>7, FS_RemoveElement
  <2>2. Cardinality(C) - 1 = 0 <=> C \ {i} = {}
    BY <2>1, FS_EmptySet
  <2>3. H[m].refcount # 1 <=> self = 1 \/ C \ {i} # {}
    <3>1. Cardinality(C \ {i}) \in Nat
      BY <2>1, FS_CardinalityType
    <3> QED BY <3>1, <2>1, <2>2, <1>2, <1>3
  <2>4. C \subseteq Slots
    BY DEF C, ClonesIn
  <2> QED BY <2>3, <2>4, <1>4, <1>5, <1>7
<1>8. CASE i = m /\ self = 1
  <2>1. Cardinality(C) = 0 <=> C = {}
    BY <1>3, FS_EmptySet
  <2>2. H[m].refcount # 1 <=> C # {}
    BY <2>1, <1>2, <1>3, <1>8
  <2>3. C \subseteq Slots
    BY DEF C, ClonesIn
  <2> QED BY <2>2, <2>3, <1>4, <1>5, <1>8
<1> QED
  BY <1>6, <1>7, <1>8

\* Each kind of step is a step of AbstractHandles.
LEMMA KindRefines ==
  ASSUME ObjectInv, ObjectInv', Kind
  PROVE  [Abstract!ANext]_(Abstract!avars)
<1> DEFINE H == m_Handles
           G == m_Handles'
<1>1. ASSUME NEW i \in Slots, UNCHANGED alloc, CloseClone(i) PROVE Abstract!ANext
  <2>1. PICK m \in Slots : m = H[i].clone /\ m = Master(H, i)
    BY <1>1, CloneFacts DEF CloseClone, Open, Master, ObjectInv
  <2>2. /\ H[i].set = "Used" /\ ~H[i].is_destroying /\ FreedClone(G, i, m) /\ m # i
        /\ InUse(m) /\ ~H[m].is_destroying /\ H[m].is_destroying = FALSE
        /\ IF H[m].refcount = 1 THEN Ends(m) ELSE UNCHANGED life
    <3>1. /\ H[i].set = "Used" /\ ~H[i].is_destroying /\ FreedClone(G, i, m) /\ m # 0
          /\ IF H[m].refcount = 1 THEN Ends(m) ELSE UNCHANGED life
      BY <1>1, <2>1 DEF CloseClone, Open
    <3>2. m # i /\ InUse(m) /\ ~H[m].is_destroying
      BY <2>1, <3>1, CloneFacts DEF ObjectInv, Live, InUse
    <3>3. H[m].is_destroying \in BOOLEAN
      BY TypeFacts, TableFacts, IndexFacts DEF ObjectInv
    <3> QED BY <3>1, <3>2, <3>3
  <2>3. /\ \A j \in Slots : SameBody(G[j], H[j])
        /\ \A j \in Slots : G[j].set = IF j = i THEN "None" ELSE H[j].set
        /\ \A j \in Slots : j \notin {i, m} => G[j].is_destroying = H[j].is_destroying
        /\ G[m].is_destroying = (H[m].refcount = 1)
    BY <2>2 DEF FreedClone
  <2>4. PICK shared \in BOOLEAN : shared <=> H[m].refcount # 1
    OBVIOUS
  <2>5. shared <=> \E j \in Slots : j # i /\ OpenIn(H, j) /\ Master(H, j) = m
    BY <2>1, <2>2, <2>4, LastReference
  <2>6. OpenIn(H, i) /\ ~OpenIn(G, i) /\ ObjIn(H, i) = H[m].object
    BY <2>1, <2>2, <2>3 DEF OpenIn, ObjIn
  <2>7. OpenIn(H, m) => Master(H, m) = m
    BY <2>1, <2>2, CloneFacts DEF Master, ObjectInv
  <2>8. \A j \in Slots : j # i => (OpenIn(G, j) <=> OpenIn(H, j))
    <3>1. ~shared => ~OpenIn(H, m)
      BY <2>2, <2>5, <2>7
    <3> QED BY <2>2, <2>3, <2>4, <3>1 DEF OpenIn
  <2>9. DestroyedIn(life') = IF ObjIn(H, i) = 0 \/ shared THEN DestroyedIn(life)
                             ELSE DestroyedIn(life) \cup {ObjIn(H, i)}
    <3>1. CASE shared
      BY <3>1, <2>2, <2>4 DEF DestroyedIn
    <3>2. CASE ~shared
      BY <3>2, <2>2, <2>4, <2>6, EndsDestroys
    <3> QED BY <3>1, <3>2
  <2> QED BY <1>1, <2>1, <2>3, <2>5, <2>6, <2>8, <2>9, CloseRefines
<1>2. ASSUME NEW i \in Slots, UNCHANGED alloc, CloseMaster(i) PROVE Abstract!ANext
  <2>1. /\ H[i].set = "Used" /\ ~H[i].is_destroying /\ InUse(i) /\ Master(H, i) = i
        /\ IF H[i].refcount = 1 THEN Dying(G, i) /\ Ends(i) ELSE Closed(G, i) /\ UNCHANGED life
    BY <1>2 DEF CloseMaster, Open, InUse, Master
  <2>2. PICK shared \in BOOLEAN : shared <=> H[i].refcount # 1
    OBVIOUS
  <2>3. shared <=> \E j \in Slots : j # i /\ OpenIn(H, j) /\ Master(H, j) = i
    BY <2>1, <2>2, LastReference
  <2>4. /\ \A j \in Slots : SameBody(G[j], H[j])
        /\ \A j \in Slots : j # i => G[j].set = H[j].set /\ G[j].is_destroying = H[j].is_destroying
        /\ ~OpenIn(G, i)
    <3>1. CASE shared
      BY <3>1, <2>1, <2>2 DEF Closed, OpenIn
    <3>2. CASE ~shared
      BY <3>2, <2>1, <2>2 DEF Dying, OpenIn
    <3> QED BY <3>1, <3>2
  <2>5. OpenIn(H, i) /\ ObjIn(H, i) = H[i].object
    BY <2>1 DEF OpenIn, ObjIn
  <2>6. \A j \in Slots : j # i => (OpenIn(G, j) <=> OpenIn(H, j))
    BY <2>4 DEF OpenIn
  <2>7. DestroyedIn(life') = IF ObjIn(H, i) = 0 \/ shared THEN DestroyedIn(life)
                             ELSE DestroyedIn(life) \cup {ObjIn(H, i)}
    <3>1. CASE shared
      BY <3>1, <2>1, <2>2 DEF DestroyedIn
    <3>2. CASE ~shared
      BY <3>2, <2>1, <2>2, <2>5, EndsDestroys
    <3> QED BY <3>1, <3>2
  <2> QED BY <1>2, <2>1, <2>3, <2>4, <2>5, <2>6, <2>7, CloseRefines
<1>3. ASSUME NEW i \in Slots, UNCHANGED alloc, Gone(i) PROVE UNCHANGED Abstract!avars
  <2>1. /\ \A j \in Slots : SameBody(G[j], H[j])
        /\ \A j \in Slots : OpenIn(G, j) <=> OpenIn(H, j)
    BY <1>3 DEF Gone, Same, OpenIn
  <2> QED BY <1>3, <2>1, StutterRefines DEF Gone
<1>4. ASSUME NEW i \in Slots, UNCHANGED alloc, CloseIdentity(i)
      PROVE  [Abstract!ANext]_(Abstract!avars)
  <2>1. /\ \A j \in Slots : SameBody(G[j], H[j])
        /\ \A j \in Slots : j # i => (OpenIn(G, j) <=> OpenIn(H, j))
        /\ ~OpenIn(G, i) /\ UNCHANGED life /\ H[i].set = "Identity"
    BY <1>4 DEF CloseIdentity, Same, OpenIn
  <2>2. CASE OpenIn(H, i)
    <3>1. H[i].clone = 0 /\ H[i].object = 0
      BY <2>1, CloneFacts DEF ObjectInv, ObjectsOK, InUse
    <3>2. ObjIn(H, i) = 0
      BY <3>1 DEF ObjIn, Master
    <3>3. PICK shared \in BOOLEAN : shared = TRUE
      OBVIOUS
    <3> QED BY <1>4, <2>1, <2>2, <3>2, CloseRefines DEF DestroyedIn
  <2>3. CASE ~OpenIn(H, i)
    BY <1>4, <2>1, <2>3, StutterRefines
  <2> QED BY <2>2, <2>3
<1>5. CASE UNCHANGED <<alloc, m_Handles, life>>
  <2>1. /\ \A j \in Slots : SameBody(G[j], H[j])
        /\ \A j \in Slots : OpenIn(G, j) <=> OpenIn(H, j)
    BY <1>5 DEF SameBody
  <2> QED BY <1>5, <2>1, StutterRefines
<1> QED
  BY <1>1, <1>2, <1>3, <1>4, <1>5, NewRefines DEF Kind

\* HandleSys.cpp keeps the promise of AbstractHandles, for every size of the
\* table and every order of calls and destructors: RefinesAbstract.
THEOREM Refinement == Spec => RefinesAbstract
<1>1. Init => Abstract!AInit
  <2> SUFFICES ASSUME Init PROVE Abstract!AInit
    OBVIOUS
  <2>1. ObjectInv
    BY ObjectInit
  <2>2. /\ issued = <<[index |-> 1, serial |-> 1], [index |-> 2, serial |-> 2]>>
        /\ birth = [i \in Index |-> IF i \in {1, 2} THEN i ELSE 0]
        /\ life = [n \in 1..MaxMade |-> "none"]
    BY DEF Init
  <2>3. MaxMade \in Nat /\ MaxMade >= 2 /\ 1 \in Slots /\ 2 \in Slots /\ Slots \subseteq Index
    BY TableAssumption DEF Slots, Index
  <2>4. \A i \in Slots : m_Handles[i] = IF i = 1 THEN BootHandle("Used", NULL, 1, 1)
                                        ELSE IF i = 2 THEN BootHandle("Identity", Root, 2, 1) ELSE Blank
    BY <2>3 DEF Init
  <2>5. \A i \in Slots :
          /\ OpenIn(m_Handles, i) <=> i \in {1, 2}
          /\ m_Handles[i].clone = 0 /\ m_Handles[i].object = 0
    BY <2>4 DEF OpenIn, BootHandle, Blank
  <2>6. birth[1] = 1 /\ birth[2] = 2
    BY <2>2, <2>3
  <2>7. OldHandles = {1, 2}
    BY <2>3, <2>5, <2>6 DEF OldHandles, HandlesIn
  <2>8. /\ \A j \in Slots : OpenIn(m_Handles, j) => OldObjects[birth[j]] = ObjIn(m_Handles, j)
        /\ \A k \in 1..MaxMade : k \notin OldHandles => OldObjects[k] = 0
    BY <2>1, OpenFacts, MapFacts DEF OldHandles, OldObjects
  <2>9. OldObjects = [n \in 1..MaxMade |-> 0]
    <3>1. ObjIn(m_Handles, 1) = 0 /\ ObjIn(m_Handles, 2) = 0
      BY <2>3, <2>5 DEF ObjIn, Master
    <3>2. OldObjects[1] = 0 /\ OldObjects[2] = 0
      BY <3>1, <2>3, <2>5, <2>6, <2>8
    <3>3. \A k \in 1..MaxMade : OldObjects[k] = 0
      BY <3>2, <2>7, <2>8
    <3> QED BY <3>3, ObjectsDomain
  <2>10. DestroyedIn(life) = {}
    BY <2>2 DEF DestroyedIn
  <2>11. Len(issued) = 2
    BY <2>2
  <2> QED BY <2>7, <2>9, <2>10, <2>11
          DEF Abstract!AInit, OldHandles, OldObjects, HandlesIn, ObjectsIn, DestroyedIn,
              OpenFor, OpenIn, ObjIn, OpenSlot, SlotOf
<1>2. ObjectInv /\ ObjectInv' /\ [Next]_vars => [Abstract!ANext]_(Abstract!avars)
  <2> SUFFICES ASSUME ObjectInv, ObjectInv', [Next]_vars
               PROVE  [Abstract!ANext]_(Abstract!avars)
    OBVIOUS
  <2>1. Kind
    BY StepKinds DEF ObjectInv
  <2> QED BY <2>1, KindRefines
<1> QED
  BY <1>1, <1>2, ObjectInvariance, PTL DEF Spec, RefinesAbstract, Abstract!ASpec

(***************************************************************************)
(* The type indices of CreateType and RemoveType (HandleTypes).  A parent  *)
(* is a multiple of Stride, and its children are the indices up to the     *)
(* next one.  TypesInv says how far the tail can be and what an unfinished *)
(* RemoveType has still to do; it leaves the table aside.                  *)
(***************************************************************************)

\* No two parents are closer than Stride.
LEMMA Multiples ==
  ASSUME NEW S \in Nat \ {0}, NEW a \in Nat, NEW b \in Nat, a * S < b * S
  PROVE  a * S + S <= b * S
<1>1. a < b
  BY SMT
<1> QED BY <1>1, SMT

LEMMA Distribute ==
  ASSUME NEW S \in Nat \ {0}, NEW a \in Nat
  PROVE  (a + 1) * S = a * S + S /\ a * S \in Nat
BY SMT

LEMMA Division ==
  ASSUME NEW S \in Nat \ {0}, NEW a \in Nat
  PROVE  a % S \in 0..(S - 1) /\ \E k \in Nat : a = k * S + (a % S)
<1>1. a % S \in 0..(S - 1)
  BY SMT
<1>2. a \div S \in Nat
  BY SMT
<1>3. a = S * (a \div S) + (a % S)
  BY SMT
<1>4. a = (a \div S) * S + (a % S)
  BY <1>2, <1>3, SMT
<1> QED BY <1>1, <1>2, <1>4

LEMMA Multiple ==
  ASSUME NEW S \in Nat \ {0}, NEW k \in Nat, NEW r \in 0..(S - 1)
  PROVE  (k * S + r) % S = r
BY SMT

LEMMA StrideType == Stride \in Nat \ {0} /\ MaxSubtypes = Stride - 1
BY TypesAssumption DEF Stride

\* The parents are the multiples of Stride.
LEMMA ParentIs ==
  ASSUME NEW t \in Nat
  PROVE  IsParent(t) <=> \E k \in Nat : t = k * Stride
<1>1. ASSUME IsParent(t) PROVE \E k \in Nat : t = k * Stride
  <2>1. PICK k \in Nat : t = k * Stride + (t % Stride)
    BY StrideType, Division
  <2>2. k * Stride \in Nat /\ t % Stride = 0
    BY <1>1, StrideType, Distribute DEF IsParent
  <2>3. t = k * Stride
    BY <2>1, <2>2
  <2> QED BY <2>3
<1>2. ASSUME NEW k \in Nat, t = k * Stride PROVE IsParent(t)
  <2>1. 0 \in 0..(Stride - 1) /\ k * Stride \in Nat /\ (k * Stride + 0) % Stride = 0
    BY StrideType, Multiple, Distribute
  <2>2. k * Stride + 0 = k * Stride
    BY <2>1
  <2> QED BY <1>2, <2>1, <2>2 DEF IsParent
<1> QED BY <1>1, <1>2

LEMMA ParentsApart ==
  ASSUME NEW p \in Nat, NEW q \in Nat, IsParent(p), IsParent(q), p < q
  PROVE  p + Stride <= q
<1>1. PICK a \in Nat, b \in Nat : p = a * Stride /\ q = b * Stride
  BY ParentIs
<1> QED BY <1>1, Multiples, StrideType

LEMMA NextParent ==
  /\ IsParent(Stride)
  /\ \A p \in Nat : IsParent(p) => IsParent(p + Stride)
<1>1. IsParent(Stride)
  <2>1. Stride = 1 * Stride
    BY StrideType
  <2> QED BY <2>1, ParentIs, StrideType
<1>2. ASSUME NEW p \in Nat, IsParent(p) PROVE IsParent(p + Stride)
  <2>1. PICK k \in Nat : p = k * Stride
    BY <1>2, ParentIs
  <2>2. p + Stride = (k + 1) * Stride /\ p + Stride \in Nat /\ k + 1 \in Nat
    BY <2>1, Distribute, StrideType
  <2> HIDE DEF Stride
  <2> QED BY <2>2, ParentIs
<1> QED BY <1>1, <1>2

\* The parent of a child.
Base(t) == t - (t % Stride)

LEMMA ChildBase ==
  ASSUME NEW c \in Nat
  PROVE  /\ IsParent(Base(c)) /\ Base(c) \in Nat
         /\ ~IsParent(c) => Base(c) < c /\ c < Base(c) + Stride
         /\ \A p \in Nat : IsParent(p) /\ p < c /\ c < p + Stride => ~IsParent(c) /\ Base(c) = p
<1>1. PICK k \in Nat : c = k * Stride + (c % Stride)
  BY StrideType, Division
<1>2. PICK b, r : b = k * Stride /\ r = c % Stride
  OBVIOUS
<1>3. b \in Nat /\ r \in 0..(Stride - 1) /\ c = b + r /\ Base(c) = c - r
  BY <1>1, <1>2, StrideType, Division, Distribute DEF Base
<1>4. IsParent(Base(c)) /\ Base(c) \in Nat
  <2>1. Base(c) = b
    BY <1>3, StrideType
  <2> QED BY <1>2, <1>3, <2>1, ParentIs
<1>5. Base(c) <= c /\ c < Base(c) + Stride
  BY <1>3, StrideType
<1>6. ~IsParent(c) => Base(c) < c
  BY <1>4, <1>5
<1>7. ASSUME NEW p \in Nat, IsParent(p), p < c, c < p + Stride PROVE ~IsParent(c) /\ Base(c) = p
  <2>1. ~IsParent(c)
    BY <1>7, ParentsApart, StrideType
  <2>2. ~(p < Base(c))
    <3>1. p < Base(c) => p + Stride <= Base(c)
      BY <1>4, <1>7, ParentsApart
    <3> QED BY <1>4, <1>5, <1>7, <3>1, StrideType
  <2>3. ~(Base(c) < p)
    <3>1. Base(c) < p => Base(c) + Stride <= p
      BY <1>4, <1>7, ParentsApart
    <3> QED BY <1>4, <1>5, <1>7, <3>1, StrideType
  <2> QED BY <1>4, <2>1, <2>2, <2>3
<1> QED BY <1>4, <1>5, <1>6, <1>7

\* The tail is a parent no bigger than the calls made so far allow, and no
\* type lies behind the children it has room for.
TailOK ==
  /\ typesMade <= MaxTypesMade
  /\ IsParent(m_TypeTail) /\ Stride <= m_TypeTail /\ m_TypeTail <= (typesMade + 1) * Stride
  /\ \A t \in dispatch : t < m_TypeTail + Stride

Kids(t) == IF IsParent(t) THEN ChildrenOf(t) ELSE {}

\* No child lies behind the index the child loop of the call r has reached.
Ahead(r, c) == r.type + r.i <= c

\* RemoveType calls itself for the children, passes none that is registered,
\* and has none left when it comes to the handles.
RemovingOK ==
  /\ Len(removing) <= 2
  /\ \A k \in 1..Len(removing) :
       /\ removing[k].type \in dispatch
       /\ removing[k].pc = "handles" => Kids(removing[k].type) = {}
  /\ Len(removing) = 1 /\ removing[1].pc = "children" =>
       \A c \in Kids(removing[1].type) : Ahead(removing[1], c)
  /\ Len(removing) = 2 => /\ removing[1].pc = "children"
                          /\ removing[2].type \in Kids(removing[1].type)
                          /\ \A c \in Kids(removing[1].type) : c = removing[2].type \/ Ahead(removing[1], c)

TypesInv == TypeIndexOK /\ TailOK /\ RemovingOK

-----------------------------------------------------------------------------
(* What the parts of TypeIndexOK say.                                      *)

\* A child is registered only while its parent is.
FamilyOK == \A t \in dispatch : ~IsParent(t) => Base(t) \in dispatch

\* A name leads to the registered type that has it.
NamesOK ==
  \A nm \in Names : m_TypeLookup[nm] # 0 => m_TypeLookup[nm] \in dispatch /\ name[m_TypeLookup[nm]] = nm

\* The index t is for CreateType to take.
Vacant(t) ==
  /\ t \in Types /\ IsParent(t) /\ t <= m_TypeTail
  /\ t \notin dispatch \/ \E k \in 1..Len(removing) : removing[k].type = t /\ removing[k].pc = "handles"

OnChain(t) == \E k \in 1..Len(freeTypes) : freeTypes[k] = t

LEMMA Parts ==
  /\ TypeIndexOK <=> TypesTypeOK /\ Distinct(freeTypes) /\ (\A t : OnChain(t) <=> Vacant(t)) /\ FamilyOK /\ NamesOK
  /\ TypeIndexOK' <=> /\ TypesTypeOK' /\ Distinct(freeTypes)' /\ (\A t : OnChain(t)' <=> Vacant(t)')
                      /\ FamilyOK' /\ NamesOK'
BY DEF TypeIndexOK, TypeChainOK, LookupOK, Distinct, OnChain, Vacant, FamilyOK, NamesOK, Base

LEMMA TypeNumbers ==
  /\ AllTypes \subseteq Nat \ {0} /\ Types \subseteq AllTypes /\ IdentType = Stride /\ IdentType \in AllTypes
  /\ \A t \in Nat : 2 * Stride <= t /\ t < (MaxTypesMade + 2) * Stride => t \in Types
  /\ \A t \in Types : 2 * Stride <= t
<1>1. PICK n : n = (MaxTypesMade + 2) * Stride
  OBVIOUS
<1>2. n \in Nat /\ Types = (2 * Stride)..(n - 1)
  <2>1. MaxTypesMade + 2 \in Nat /\ Stride \in Nat
    BY StrideType, TypesAssumption
  <2>2. Stride * (MaxTypesMade + 2) = n /\ Stride * 2 = 2 * Stride /\ n \in Nat
    BY <1>1, <2>1, SMT
  <2> QED BY <2>2, TypesAssumption
<1> QED BY <1>1, <1>2, StrideType, TypesAssumption DEF AllTypes

\* The room the counter leaves.
LEMMA TailRoom ==
  ASSUME TypesInv, typesMade < MaxTypesMade
  PROVE  /\ m_TypeTail \in Nat /\ m_TypeTail + 2 * Stride <= (MaxTypesMade + 2) * Stride
         /\ m_TypeTail + Stride <= (typesMade + 1 + 1) * Stride
<1>1. /\ m_TypeTail \in Nat /\ typesMade \in Nat /\ MaxTypesMade \in Nat /\ m_TypeTail <= (typesMade + 1) * Stride
  BY TypesAssumption DEF TypesInv, TypeIndexOK, TypesTypeOK, TailOK
<1>2. PICK a, b, c, d : /\ a = (typesMade + 1) * Stride /\ b = (typesMade + 1 + 1) * Stride
                        /\ c = MaxTypesMade * Stride /\ d = (MaxTypesMade + 2) * Stride
  OBVIOUS
<1>3. b = a + Stride /\ a \in Nat
  BY <1>1, <1>2, StrideType, Distribute
<1>4. d = c + 2 * Stride /\ c \in Nat
  BY <1>1, <1>2, StrideType, SMT
<1>5. a <= c
  <2>1. a = c \/ a < c
    BY <1>1, <1>2, StrideType, SMT
  <2> QED BY <1>3, <1>4, <2>1
<1> QED BY <1>1, <1>2, <1>3, <1>4, <1>5, StrideType

\* The search for an index takes the least.
LEMMA LeastChosen ==
  ASSUME NEW B, B \subseteq Nat, B # {}
  PROVE  (CHOOSE c \in B : \A d \in B : c <= d) \in B
<1>1. PICK x \in B : \A y \in B : ~(y < x)
  BY LeastNumber
<1>2. \A y \in B : x <= y
  BY <1>1
<1> QED BY <1>2

-----------------------------------------------------------------------------
(* CreateType.                                                             *)

\* Registering an index that no type has.
LEMMA RegisterStep ==
  ASSUME TypesInv, NEW t \in Types \ dispatch, NEW nm \in Names \cup {NULL}, Register(t, nm), removing = <<>>
  PROVE  /\ dispatch' = dispatch \cup {t} /\ dispatch' \subseteq AllTypes /\ IdentType \in dispatch'
         /\ name' \in [AllTypes -> Names \cup {NULL}] /\ m_TypeLookup' \in [Names -> AllTypes \cup {0}]
         /\ NamesOK' /\ RemovingOK' /\ removing' = <<>>
         /\ typesMade' = typesMade + 1 /\ typesMade \in Nat
         /\ removing' \in Seq([pc : {"children", "handles"}, type : Types, i : Nat \ {0}])
<1>1. /\ dispatch \subseteq AllTypes /\ IdentType \in dispatch
      /\ name \in [AllTypes -> Names \cup {NULL}] /\ m_TypeLookup \in [Names -> AllTypes \cup {0}]
      /\ typesMade \in Nat
      /\ removing \in Seq([pc : {"children", "handles"}, type : Types, i : Nat \ {0}])
  BY DEF TypesInv, TypeIndexOK, TypesTypeOK
<1>2. NamesOK /\ t \in AllTypes /\ t # 0 /\ NULL \notin Names
  BY Parts, TypeNumbers, TypesAssumption DEF TypesInv
<1>3. /\ dispatch' = dispatch \cup {t} /\ typesMade' = typesMade + 1 /\ removing' = <<>>
      /\ name' = IF nm = NULL THEN name ELSE [name EXCEPT ![t] = nm]
      /\ m_TypeLookup' = IF nm = NULL THEN m_TypeLookup ELSE [m_TypeLookup EXCEPT ![nm] = t]
  BY DEF Register
<1>4. name' \in [AllTypes -> Names \cup {NULL}] /\ m_TypeLookup' \in [Names -> AllTypes \cup {0}]
  BY <1>1, <1>2, <1>3
<1>5. NamesOK'
  <2>1. SUFFICES ASSUME NEW x \in Names, m_TypeLookup'[x] # 0
                 PROVE  m_TypeLookup'[x] \in dispatch' /\ name'[m_TypeLookup'[x]] = x
    BY DEF NamesOK
  <2>2. CASE m_TypeLookup'[x] = m_TypeLookup[x]
    <3>1. m_TypeLookup[x] \in dispatch /\ name[m_TypeLookup[x]] = x
      BY <1>2, <2>1, <2>2 DEF NamesOK
    <3>2. m_TypeLookup[x] # t
      BY <3>1
    <3> QED BY <1>1, <1>3, <2>2, <3>1, <3>2
  <2>3. CASE m_TypeLookup'[x] # m_TypeLookup[x]
    BY <1>1, <1>2, <1>3, <2>3
  <2> QED BY <2>2, <2>3
<1>6. RemovingOK'
  BY <1>3 DEF RemovingOK
<1>7. dispatch' \subseteq AllTypes /\ IdentType \in dispatch'
  BY <1>1, <1>2, <1>3
<1>8. removing' = removing
  BY <1>3
<1> QED BY <1>1, <1>3, <1>4, <1>5, <1>6, <1>7, <1>8

LEMMA CreateParentStep ==
  ASSUME TypesInv, NEW nm \in Names \cup {NULL}, CreateParentType(nm)
  PROVE  TypesInv'
<1>1. /\ dispatch \subseteq AllTypes /\ children \in [AllTypes -> 0..MaxSubtypes] /\ freeTypes \in Seq(Types)
      /\ m_TypeTail \in Nat /\ typesMade \in Nat
  BY DEF TypesInv, TypeIndexOK, TypesTypeOK
<1>2. /\ Distinct(freeTypes) /\ (\A t : OnChain(t) <=> Vacant(t)) /\ FamilyOK /\ TailOK
  BY Parts DEF TypesInv
<1>3. removing = <<>> /\ typesMade < MaxTypesMade
  BY DEF CreateParentType, Quiet
<1>4. Stride \in Nat \ {0} /\ MaxSubtypes = Stride - 1 /\ AllTypes \subseteq Nat \ {0} /\ Types \subseteq AllTypes
  BY StrideType, TypeNumbers
<1>5. m_TypeTail + 2 * Stride <= (MaxTypesMade + 2) * Stride /\ m_TypeTail + Stride <= (typesMade + 1 + 1) * Stride
  BY <1>3, TailRoom
<1>6. \A t : Vacant(t) <=> t \in Types /\ IsParent(t) /\ t <= m_TypeTail /\ t \notin dispatch
  BY <1>3 DEF Vacant
<1>7. CASE freeTypes = <<>>
  <2> DEFINE n == m_TypeTail + Stride
  <2>1. /\ m_TypeTail' = n /\ Register(n, nm) /\ children' = [children EXCEPT ![n] = 0] /\ freeTypes' = freeTypes
    BY <1>7 DEF CreateParentType
  <2>2. n \in Nat /\ IsParent(n) /\ 2 * Stride <= n /\ n \notin dispatch
    BY <1>1, <1>2, <1>4, NextParent DEF TailOK
  <2>3. n \in Types
    <3>1. PICK b : b = (MaxTypesMade + 2) * Stride
      OBVIOUS
    <3>2. b \in Nat /\ m_TypeTail + 2 * Stride <= b
      BY <1>5, <3>1, <1>4, TypesAssumption, SMT
    <3>3. n < b
      BY <1>1, <1>4, <3>2
    <3> QED BY <2>2, <3>1, <3>3, TypeNumbers
  <2> HIDE DEF n
  <2>4. /\ dispatch' = dispatch \cup {n} /\ dispatch' \subseteq AllTypes /\ IdentType \in dispatch'
        /\ name' \in [AllTypes -> Names \cup {NULL}] /\ m_TypeLookup' \in [Names -> AllTypes \cup {0}]
        /\ NamesOK' /\ RemovingOK' /\ removing' = <<>>
        /\ typesMade' = typesMade + 1
        /\ removing' \in Seq([pc : {"children", "handles"}, type : Types, i : Nat \ {0}])
    BY <1>3, <2>1, <2>2, <2>3, RegisterStep
  <2>5. TypesTypeOK'
    <3>1. children' \in [AllTypes -> 0..MaxSubtypes]
      BY <1>1, <1>4, <2>1, <2>3
    <3>2. m_TypeTail' \in Nat /\ typesMade' \in Nat
      BY <1>1, <2>1, <2>2, <2>4
    <3> QED BY <1>1, <2>1, <2>4, <3>1, <3>2 DEF TypesTypeOK
  <2>6. TailOK'
    <3>1. \A t \in dispatch : t < n + Stride
      BY <1>1, <1>2, <1>4 DEF TailOK, n
    <3>2. m_TypeTail' <= (typesMade' + 1) * Stride
      BY <1>5, <2>1, <2>4 DEF n
    <3>3. typesMade' <= MaxTypesMade /\ Stride <= m_TypeTail'
      BY <1>1, <1>3, <1>4, <2>1, <2>2, <2>4, TypesAssumption
    <3> QED BY <1>4, <2>1, <2>2, <2>4, <3>1, <3>2, <3>3 DEF TailOK
  <2>7. FamilyOK'
    BY <1>2, <2>2, <2>4 DEF FamilyOK
  <2>8. ASSUME NEW t PROVE OnChain(t)' <=> Vacant(t)'
    <3>1. ~OnChain(t) /\ ~OnChain(t)'
      BY <1>7, <2>1 DEF OnChain
    <3>2. ASSUME Vacant(t)' PROVE FALSE
      <4>1. t \in Types /\ IsParent(t) /\ t <= n /\ t \notin dispatch /\ t # n
        BY <2>1, <2>4, <3>2 DEF Vacant
      <4>2. t \in Nat /\ t < m_TypeTail + Stride
        BY <1>1, <1>4, <4>1 DEF n
      <4>3. t <= m_TypeTail
        BY <1>1, <1>2, <1>4, <4>1, <4>2, ParentsApart DEF TailOK
      <4> QED BY <1>2, <1>6, <3>1, <4>1, <4>3
    <3> QED BY <3>1, <3>2
  <2>9. Distinct(freeTypes)'
    BY <1>2, <2>1
  <2> QED BY <2>4, <2>5, <2>6, <2>7, <2>8, <2>9, Parts DEF TypesInv
<1>8. CASE freeTypes # <<>>
  <2> DEFINE l == Len(freeTypes)
             n == freeTypes[l]
  <2>1. /\ m_TypeTail' = m_TypeTail /\ Register(n, nm) /\ children' = [children EXCEPT ![n] = 0]
        /\ freeTypes' = SubSeq(freeTypes, 1, l - 1)
    BY <1>8 DEF CreateParentType
  <2>2. l \in Nat \ {0} /\ n \in Types /\ OnChain(n)
    BY <1>1, <1>8 DEF OnChain
  <2>3. freeTypes' \in Seq(Types) /\ Len(freeTypes') = l - 1 /\ \A k \in 1..(l - 1) : freeTypes'[k] = freeTypes[k]
    BY <1>1, <1>8, <2>1, FrontList DEF Front
  <2>4. IsParent(n) /\ n <= m_TypeTail /\ n \notin dispatch
    BY <1>2, <1>6, <2>2
  <2> HIDE DEF n
  <2>5. /\ dispatch' = dispatch \cup {n} /\ dispatch' \subseteq AllTypes /\ IdentType \in dispatch'
        /\ name' \in [AllTypes -> Names \cup {NULL}] /\ m_TypeLookup' \in [Names -> AllTypes \cup {0}]
        /\ NamesOK' /\ RemovingOK' /\ removing' = <<>>
        /\ typesMade' = typesMade + 1
        /\ removing' \in Seq([pc : {"children", "handles"}, type : Types, i : Nat \ {0}])
    BY <1>3, <2>1, <2>2, <2>4, RegisterStep
  <2>6. TypesTypeOK'
    <3>1. children' \in [AllTypes -> 0..MaxSubtypes]
      BY <1>1, <1>4, <2>1, <2>2
    <3>2. m_TypeTail' \in Nat /\ typesMade' \in Nat
      BY <1>1, <2>1, <2>5
    <3> QED BY <2>3, <2>5, <3>1, <3>2 DEF TypesTypeOK
  <2>7. TailOK'
    <3>1. n < m_TypeTail + Stride
      BY <1>1, <1>4, <2>2, <2>4
    <3>2. m_TypeTail' <= (typesMade' + 1) * Stride
      <4>1. PICK b : b = (typesMade + 1 + 1) * Stride
        OBVIOUS
      <4>2. b \in Nat /\ m_TypeTail + Stride <= b
        BY <1>1, <1>4, <1>5, <4>1, SMT
      <4>3. m_TypeTail <= b
        BY <1>1, <1>4, <4>2
      <4> QED BY <2>1, <2>5, <4>1, <4>3
    <3>3. typesMade' <= MaxTypesMade /\ Stride <= m_TypeTail' /\ IsParent(m_TypeTail')
      BY <1>1, <1>2, <1>3, <2>1, <2>5, TypesAssumption DEF TailOK
    <3>4. \A t \in dispatch : t < m_TypeTail + Stride
      BY <1>2 DEF TailOK
    <3> QED BY <2>1, <2>5, <3>1, <3>2, <3>3, <3>4 DEF TailOK
  <2>8. FamilyOK'
    BY <1>2, <2>4, <2>5 DEF FamilyOK
  <2>9. Distinct(freeTypes)'
    BY <1>2, <2>2, <2>3 DEF Distinct
  <2>10. ASSUME NEW t PROVE OnChain(t)' <=> Vacant(t)'
    <3>1. OnChain(t)' <=> OnChain(t) /\ t # n
      <4>1. \A k \in 1..l : k = l \/ k \in 1..(l - 1)
        BY <2>2
      <4>2. \A k \in 1..(l - 1) : k \in 1..l /\ k # l /\ freeTypes[k] # n
        BY <1>2, <2>2 DEF Distinct, n
      <4>3. OnChain(t)' <=> \E k \in 1..(l - 1) : freeTypes[k] = t
        BY <2>3 DEF OnChain
      <4> QED BY <4>1, <4>2, <4>3 DEF OnChain, n
    <3>2. Vacant(t)' <=> Vacant(t) /\ t # n
      <4>1. Vacant(t)' <=> t \in Types /\ IsParent(t) /\ t <= m_TypeTail /\ t \notin dispatch \cup {n}
        BY <2>1, <2>5 DEF Vacant
      <4> QED BY <1>6, <4>1
    <3> QED BY <1>2, <3>1, <3>2
  <2> QED BY <2>5, <2>6, <2>7, <2>8, <2>9, <2>10, Parts DEF TypesInv
<1> QED BY <1>7, <1>8

LEMMA CreateChildStep ==
  ASSUME TypesInv, NEW nm \in Names \cup {NULL}, NEW p \in Types, NEW id, CreateChildType(p, nm, id)
  PROVE  TypesInv'
<1>1. /\ dispatch \subseteq AllTypes /\ children \in [AllTypes -> 0..MaxSubtypes] /\ freeTypes \in Seq(Types)
      /\ m_TypeTail \in Nat /\ typesMade \in Nat
  BY DEF TypesInv, TypeIndexOK, TypesTypeOK
<1>2. /\ Distinct(freeTypes) /\ (\A t : OnChain(t) <=> Vacant(t)) /\ FamilyOK /\ TailOK
  BY Parts DEF TypesInv
<1>3. removing = <<>> /\ typesMade < MaxTypesMade /\ IsParent(p) /\ p \in dispatch
  BY DEF CreateChildType, Quiet
<1>4. Stride \in Nat \ {0} /\ MaxSubtypes = Stride - 1 /\ AllTypes \subseteq Nat \ {0} /\ Types \subseteq AllTypes
  BY StrideType, TypeNumbers
<1>5. m_TypeTail + 2 * Stride <= (MaxTypesMade + 2) * Stride /\ m_TypeTail + Stride <= (typesMade + 1 + 1) * Stride
  BY <1>3, TailRoom
<1>6. PICK c \in FreeChildren(p) : Register(c, nm)
  <2>1. FreeChildren(p) \subseteq Nat
    BY <1>4 DEF FreeChildren
  <2>2. FreeChildren(p) # {}
    BY DEF CreateChildType
  <2>3. (CHOOSE c \in FreeChildren(p) : \A d \in FreeChildren(p) : c <= d) \in FreeChildren(p)
    BY <2>1, <2>2, LeastChosen
  <2> QED BY <2>3 DEF CreateChildType
<1>7. /\ children[p] < MaxSubtypes /\ children' = [children EXCEPT ![p] = @ + 1]
      /\ freeTypes' = freeTypes /\ m_TypeTail' = m_TypeTail
  BY DEF CreateChildType, ChildRoom
<1>8. c \in Nat /\ p < c /\ c < p + Stride /\ c \notin dispatch /\ p \in Nat
  BY <1>4, <1>6 DEF FreeChildren
<1>9. ~IsParent(c) /\ Base(c) = p
  BY <1>3, <1>8, ChildBase
<1>10. p <= m_TypeTail
  <2>1. p < m_TypeTail + Stride /\ IsParent(m_TypeTail)
    BY <1>2, <1>3 DEF TailOK
  <2> QED BY <1>1, <1>3, <1>4, <1>8, <2>1, ParentsApart
<1>11. c \in Types
  <2>1. PICK b : b = (MaxTypesMade + 2) * Stride
    OBVIOUS
  <2>2. b \in Nat /\ m_TypeTail + 2 * Stride <= b
    BY <1>4, <1>5, <2>1, TypesAssumption, SMT
  <2>3. c < b /\ 2 * Stride <= c
    BY <1>1, <1>4, <1>8, <1>10, <2>2, TypeNumbers
  <2> QED BY <1>8, <2>1, <2>3, TypeNumbers
<1>12. /\ dispatch' = dispatch \cup {c} /\ dispatch' \subseteq AllTypes /\ IdentType \in dispatch'
       /\ name' \in [AllTypes -> Names \cup {NULL}] /\ m_TypeLookup' \in [Names -> AllTypes \cup {0}]
       /\ NamesOK' /\ RemovingOK' /\ removing' = <<>>
       /\ typesMade' = typesMade + 1
       /\ removing' \in Seq([pc : {"children", "handles"}, type : Types, i : Nat \ {0}])
  BY <1>3, <1>6, <1>8, <1>11, RegisterStep
<1>13. TypesTypeOK'
  <2>1. children' \in [AllTypes -> 0..MaxSubtypes]
    BY <1>1, <1>3, <1>4, <1>7
  <2>2. typesMade' \in Nat
    BY <1>1, <1>12
  <2> QED BY <1>1, <1>7, <1>12, <2>1, <2>2 DEF TypesTypeOK
<1>14. TailOK'
  <2>1. c < m_TypeTail + Stride
    BY <1>1, <1>4, <1>8, <1>10
  <2>2. m_TypeTail' <= (typesMade' + 1) * Stride
    <3>1. PICK b : b = (typesMade + 1 + 1) * Stride
      OBVIOUS
    <3>2. b \in Nat /\ m_TypeTail + Stride <= b
      BY <1>1, <1>4, <1>5, <3>1, SMT
    <3>3. m_TypeTail <= b
      BY <1>1, <1>4, <3>2
    <3> QED BY <1>7, <1>12, <3>1, <3>3
  <2>3. typesMade' <= MaxTypesMade /\ Stride <= m_TypeTail' /\ IsParent(m_TypeTail')
    BY <1>1, <1>2, <1>3, <1>7, <1>12, TypesAssumption DEF TailOK
  <2>4. \A t \in dispatch : t < m_TypeTail + Stride
    BY <1>2 DEF TailOK
  <2> QED BY <1>7, <1>12, <2>1, <2>2, <2>3, <2>4 DEF TailOK
<1>15. FamilyOK'
  BY <1>2, <1>3, <1>9, <1>12 DEF FamilyOK
<1>16. ASSUME NEW t PROVE OnChain(t)' <=> Vacant(t)'
  <2>1. OnChain(t)' <=> OnChain(t)
    BY <1>7 DEF OnChain
  <2>2. Vacant(t)' <=> Vacant(t)
    BY <1>3, <1>7, <1>9, <1>12 DEF Vacant
  <2> QED BY <1>2, <2>1, <2>2
<1>17. Distinct(freeTypes)'
  BY <1>2, <1>7
<1> QED BY <1>12, <1>13, <1>14, <1>15, <1>16, <1>17, Parts DEF TypesInv

-----------------------------------------------------------------------------
(* RemoveType.                                                             *)

LEMMA RemoveTypeStep ==
  ASSUME TypesInv, NEW t \in Types, NEW id, RemoveType(t, id)
  PROVE  TypesInv'
<1> DEFINE r == [pc |-> "children", type |-> t, i |-> 1]
<1>1. /\ removing = <<>> /\ removing' = <<r>> /\ t \in dispatch
      /\ UNCHANGED <<dispatch, children, name, m_TypeLookup, freeTypes, m_TypeTail, typesMade>>
  BY DEF RemoveType, Quiet
<1>2. r \in [pc : {"children", "handles"}, type : Types, i : Nat \ {0}]
  OBVIOUS
<1>3. r.pc = "children" /\ r.type = t /\ r.i = 1
  OBVIOUS
<1> HIDE DEF r
<1>4. Len(removing') = 1 /\ removing'[1] = r
  BY <1>1
<1>5. TypesTypeOK'
  BY <1>1, <1>2 DEF TypesInv, TypeIndexOK, TypesTypeOK
<1>6. RemovingOK'
  <2>1. ASSUME NEW c \in Kids(t) PROVE Ahead(r, c)
    <3>1. c \in Nat /\ t \in Nat /\ t < c
      BY TypeNumbers DEF Kids, ChildrenOf, TypesInv, TypeIndexOK, TypesTypeOK
    <3> QED BY <1>3, <3>1 DEF Ahead
  <2>2. Kids(t)' = Kids(t)
    BY <1>1 DEF Kids, ChildrenOf
  <2> QED BY <1>1, <1>3, <1>4, <2>1, <2>2 DEF RemovingOK, Ahead
<1>7. \A u : OnChain(u)' <=> Vacant(u)'
  <2>1. SUFFICES ASSUME NEW u PROVE OnChain(u)' <=> Vacant(u)'
    OBVIOUS
  <2>2. OnChain(u)' <=> OnChain(u)
    BY <1>1 DEF OnChain
  <2>3. Vacant(u)' <=> Vacant(u)
    BY <1>1, <1>3, <1>4 DEF Vacant
  <2> QED BY <2>2, <2>3, Parts DEF TypesInv
<1>8. TailOK' /\ Distinct(freeTypes)' /\ FamilyOK' /\ NamesOK'
  BY <1>1, Parts DEF TypesInv, TailOK, FamilyOK, NamesOK
<1> QED BY <1>5, <1>6, <1>7, <1>8, Parts DEF TypesInv

Removals == [pc : {"children", "handles"}, type : Types, i : Nat \ {0}]

\* The unfinished call of RemoveType that goes on.
LEMMA RemovalFacts ==
  ASSUME TypesInv, removing # <<>>, NEW n, n = Len(removing)
  PROVE  /\ removing \in Seq(Removals) /\ n \in {1, 2} /\ Removal = removing[n] /\ Removal \in Removals
         /\ Removal.type \in Types /\ Removal.type \in dispatch /\ Removal.type \in Nat /\ removing[1] \in Removals
         /\ n = 2 => /\ removing[1].pc = "children" /\ IsParent(removing[1].type)
                     /\ Removal.type \in Kids(removing[1].type)
                     /\ ~IsParent(Removal.type) /\ Removal.type # removing[1].type
         /\ \A k \in 1..n : removing[k].type \in dispatch
         /\ \A k \in 1..n : removing[k].pc = "handles" => Kids(removing[k].type) = {}
         /\ \A k \in 1..n : k = n \/ (k = 1 /\ n = 2)
         /\ n = 2 => \A c \in Kids(removing[1].type) : c = Removal.type \/ Ahead(removing[1], c)
         /\ n = 1 /\ Removal.pc = "children" => \A c \in Kids(Removal.type) : Ahead(Removal, c)
<1>1. removing \in Seq(Removals) /\ RemovingOK
  BY DEF TypesInv, TypeIndexOK, TypesTypeOK, Removals
<1>2. n \in {1, 2} /\ removing[n] \in Removals /\ removing[1] \in Removals
  BY <1>1 DEF RemovingOK
<1>3. Removal = removing[n]
  BY DEF Removal
<1>4. removing[n].type \in Types /\ removing[n].type \in dispatch /\ removing[n].type \in Nat
  <2>1. removing[n].type \in Types
    BY <1>2 DEF Removals
  <2>2. n \in 1..Len(removing)
    BY <1>2
  <2>3. removing[n].type \in dispatch
    BY <1>1, <2>2 DEF RemovingOK
  <2> QED BY <2>1, <2>3, TypeNumbers
<1>5. ASSUME n = 2
      PROVE  /\ removing[1].pc = "children" /\ IsParent(removing[1].type)
             /\ removing[2].type \in Kids(removing[1].type)
             /\ ~IsParent(removing[2].type) /\ removing[2].type # removing[1].type
  <2>1. removing[1].pc = "children" /\ removing[2].type \in Kids(removing[1].type)
    BY <1>1, <1>5 DEF RemovingOK
  <2>2. removing[1].type \in Types /\ removing[1].type \in Nat
    BY <1>2, TypeNumbers DEF Removals
  <2>3. /\ IsParent(removing[1].type) /\ removing[1].type < removing[2].type
        /\ removing[2].type < removing[1].type + Stride
    BY <2>1 DEF Kids, ChildrenOf
  <2>4. ~IsParent(removing[2].type)
    BY <1>4, <1>5, <2>2, <2>3, ChildBase
  <2> QED BY <2>1, <2>3, <2>4
<1>6. \A k \in 1..n : removing[k].type \in dispatch /\ (removing[k].pc = "handles" => Kids(removing[k].type) = {})
  BY <1>1 DEF RemovingOK
<1>7. \A k \in 1..n : k = n \/ (k = 1 /\ n = 2)
  BY <1>2
<1>8. n = 2 => /\ removing[1].pc = "children" /\ IsParent(removing[1].type)
               /\ Removal.type \in Kids(removing[1].type)
               /\ ~IsParent(Removal.type) /\ Removal.type # removing[1].type
  BY <1>3, <1>5
<1>9. /\ n = 2 => \A c \in Kids(removing[1].type) : c = Removal.type \/ Ahead(removing[1], c)
      /\ n = 1 /\ Removal.pc = "children" => \A c \in Kids(Removal.type) : Ahead(Removal, c)
  BY <1>1, <1>3 DEF RemovingOK
<1> QED BY <1>1, <1>2, <1>3, <1>4, <1>6, <1>7, <1>8, <1>9

\* The innermost call is replaced.
LEMMA SetRemovalFacts ==
  ASSUME TypesInv, removing # <<>>, NEW r \in Removals, SetRemoval(r)
  PROVE  /\ removing' \in Seq(Removals) /\ Len(removing') = Len(removing) /\ removing'[Len(removing)] = r
         /\ \A k \in 1..Len(removing) : k # Len(removing) => removing'[k] = removing[k]
<1>1. removing \in Seq(Removals) /\ Len(removing) \in {1, 2}
  BY RemovalFacts
<1>2. removing' = [removing EXCEPT ![Len(removing)] = r]
  BY DEF SetRemoval
<1> QED BY <1>1, <1>2

\* A call moves on without changing the types.
LEMMA FreeChainKept ==
  ASSUME TypesInv, removing # <<>>, NEW r \in Removals, SetRemoval(r), r.type = Removal.type,
         r.pc = Removal.pc \/ ~IsParent(Removal.type),
         UNCHANGED <<dispatch, freeTypes, m_TypeTail>>
  PROVE  \A u : OnChain(u)' <=> Vacant(u)'
<1> DEFINE n == Len(removing)
<1>1. SUFFICES ASSUME NEW u PROVE OnChain(u)' <=> Vacant(u)'
  OBVIOUS
<1>2. OnChain(u)' <=> OnChain(u)
  BY DEF OnChain
<1>3. /\ n \in {1, 2} /\ Removal = removing[n] /\ \A k \in 1..n : k = n \/ (k = 1 /\ n = 2)
  BY RemovalFacts
<1>4. Len(removing') = n /\ removing'[n] = r /\ (n = 2 => removing'[1] = removing[1])
  BY <1>3, SetRemovalFacts
<1>5. ASSUME IsParent(u)
      PROVE  (\E k \in 1..n : removing'[k].type = u /\ removing'[k].pc = "handles") <=>
             (\E k \in 1..n : removing[k].type = u /\ removing[k].pc = "handles")
  <2> HIDE DEF n
  <2>1. \A k \in 1..n : /\ removing'[k].type = u <=> removing[k].type = u
                        /\ removing[k].type = u => removing'[k].pc = removing[k].pc
    BY <1>3, <1>4, <1>5
  <2> QED BY <2>1
<1>6. Vacant(u)' <=> Vacant(u)
  BY <1>4, <1>5 DEF Vacant
<1> QED BY <1>2, <1>6, Parts DEF TypesInv

\* The child loop calls RemoveType.
LEMMA ChildCallStep ==
  ASSUME TypesInv, removing # <<>>, Removal.pc = "children", NEW c \in Kids(Removal.type),
         \A d \in Kids(Removal.type) : Ahead(Removal, d) => c <= d,
         removing' = Append([removing EXCEPT ![Len(removing)].i = c - Removal.type + 1],
                            [pc |-> "children", type |-> c, i |-> 1]),
         UNCHANGED <<dispatch, children, name, m_TypeLookup, freeTypes, m_TypeTail, typesMade>>
  PROVE  TypesInv'
<1> DEFINE r == [pc |-> "children", type |-> c, i |-> 1]
           t == Removal.type
           q == [Removal EXCEPT !.i = c - t + 1]
<1>1. /\ removing \in Seq(Removals) /\ Removal \in Removals /\ Removal = removing[Len(removing)]
      /\ t \in Types /\ t \in dispatch /\ t \in Nat
  BY RemovalFacts
<1>2. Len(removing) \in {1, 2} /\ (Len(removing) = 2 => ~IsParent(t))
  BY RemovalFacts
<1>3. IsParent(t) /\ c \in dispatch /\ t < c /\ c < t + Stride
  BY DEF Kids, ChildrenOf
<1>4. Len(removing) = 1
  BY <1>2, <1>3
<1>5. c \in Types
  <2>1. dispatch \subseteq AllTypes
    BY DEF TypesInv, TypeIndexOK, TypesTypeOK
  <2>2. c \in AllTypes /\ c \in Nat
    BY <1>3, <2>1, TypeNumbers
  <2>3. c # IdentType
    BY <1>1, <1>3, <2>2, TypeNumbers, StrideType
  <2> QED BY <2>2, <2>3 DEF AllTypes
<1>6. r \in Removals /\ r.pc = "children" /\ r.type = c
  BY <1>5 DEF Removals
<1>12. c \in Nat /\ c - t + 1 \in Nat \ {0}
  BY <1>1, <1>3, <1>5, TypeNumbers
<1>13. q \in Removals /\ q.pc = "children" /\ q.type = t /\ q.i = c - t + 1
  BY <1>1, <1>12 DEF Removals
<1> HIDE DEF r
<1>7. removing' \in Seq(Removals) /\ Len(removing') = 2 /\ removing'[1] = q /\ removing'[2] = r
  <2> DEFINE s == [removing EXCEPT ![1] = q]
  <2>1. removing' = Append(s, r)
    BY <1>1, <1>4 DEF r
  <2> HIDE DEF q
  <2>4. s \in Seq(Removals) /\ Len(s) = 1 /\ s[1] = q
    BY <1>1, <1>4, <1>13
  <2> HIDE DEF s
  <2>2. removing' \in Seq(Removals)
    <3>1. Append(s, r) \in Seq(Removals)
      BY <1>6, <2>4, AppendProperties
    <3> QED BY <2>1, <3>1
  <2>3. Len(removing') = 2 /\ removing'[1] = q /\ removing'[2] = r
    BY <1>6, <2>1, <2>4, AppendProperties
  <2> QED BY <2>2, <2>3
<1> HIDE DEF q
<1>8. TypesTypeOK'
  BY <1>7 DEF TypesInv, TypeIndexOK, TypesTypeOK, Removals
<1>9. RemovingOK'
  <2>1. \A x : Kids(x)' = Kids(x)
    BY DEF Kids, ChildrenOf
  <2>2. ASSUME NEW d \in Kids(t) PROVE d = c \/ Ahead(q, d)
    <3>1. Ahead(Removal, d) /\ d \in Nat
      BY <1>4, RemovalFacts, TypeNumbers DEF Kids, ChildrenOf, TypesInv, TypeIndexOK, TypesTypeOK
    <3>2. c <= d
      BY <3>1
    <3>3. CASE d # c
      <4>1. q.type + q.i = c + 1
        BY <1>1, <1>12, <1>13
      <4> QED BY <1>12, <3>1, <3>2, <3>3, <4>1 DEF Ahead
    <3> QED BY <3>3
  <2> QED BY <1>1, <1>3, <1>6, <1>7, <1>13, <2>1, <2>2 DEF RemovingOK, Ahead
<1>10. \A u : OnChain(u)' <=> Vacant(u)'
  <2>1. SUFFICES ASSUME NEW u PROVE OnChain(u)' <=> Vacant(u)'
    OBVIOUS
  <2>2. OnChain(u)' <=> OnChain(u)
    BY DEF OnChain
  <2>3. /\ ~\E k \in 1..Len(removing) : removing[k].type = u /\ removing[k].pc = "handles"
        /\ ~\E k \in 1..Len(removing') : removing'[k].type = u /\ removing'[k].pc = "handles"
    BY <1>1, <1>4, <1>6, <1>7, <1>13
  <2>4. Vacant(u)' <=> Vacant(u)
    BY <2>3 DEF Vacant
  <2> QED BY <2>2, <2>4, Parts DEF TypesInv
<1>11. TailOK' /\ Distinct(freeTypes)' /\ FamilyOK' /\ NamesOK'
  BY Parts DEF TypesInv, TailOK, FamilyOK, NamesOK
<1> QED BY <1>8, <1>9, <1>10, <1>11, Parts DEF TypesInv

\* The call moves on: to its next handle, or, all children removed, to the
\* handles, linking the index of a parent.
LEMMA MoveOnStep ==
  ASSUME TypesInv, removing # <<>>, NEW r \in Removals, SetRemoval(r), r.type = Removal.type,
         r.pc = "handles", Kids(Removal.type) = {},
         freeTypes' = IF Removal.pc = "children" THEN LinkFree(Removal.type) ELSE freeTypes,
         UNCHANGED <<dispatch, children, name, m_TypeLookup, m_TypeTail, typesMade>>
  PROVE  TypesInv'
<1> DEFINE t == Removal.type
           n == Len(removing)
<1>1. /\ n \in {1, 2} /\ Removal = removing[n] /\ t \in Types /\ t \in dispatch /\ t \in Nat
      /\ \A k \in 1..n : k = n \/ (k = 1 /\ n = 2)
      /\ n = 2 => /\ removing[1].pc = "children" /\ t \in Kids(removing[1].type)
                  /\ ~IsParent(t)
  BY RemovalFacts
<1>2. \A k \in 1..n : /\ removing[k].type \in dispatch
                      /\ removing[k].pc = "handles" => Kids(removing[k].type) = {}
  BY RemovalFacts
<1>3. removing' \in Seq(Removals) /\ Len(removing') = n /\ removing'[n] = r /\ (n = 2 => removing'[1] = removing[1])
  BY <1>1, SetRemovalFacts
<1>4. Removal \in Removals /\ freeTypes \in Seq(Types) /\ Distinct(freeTypes)
  BY RemovalFacts, Parts DEF TypesInv, TypesTypeOK
<1>5. RemovingOK'
  <2>1. \A x : Kids(x)' = Kids(x)
    BY DEF Kids, ChildrenOf
  <2>2. ASSUME NEW k \in 1..n
        PROVE  removing'[k].type \in dispatch /\ (removing'[k].pc = "handles" => Kids(removing'[k].type) = {})
    <3>1. k = n \/ (k = 1 /\ n = 2)
      BY <1>1
    <3>2. CASE k = n
      BY <1>1, <1>3, <3>2
    <3>3. CASE k = 1 /\ n = 2
      BY <1>1, <1>2, <1>3, <3>3
    <3> QED BY <3>1, <3>2, <3>3
  <2>3. n = 2 => removing'[1].pc = "children" /\ removing'[2].type \in Kids(removing'[1].type)
    BY <1>1, <1>3
  <2>4. n = 2 => \A c \in Kids(removing'[1].type) : c = removing'[2].type \/ Ahead(removing'[1], c)
    BY <1>1, <1>3, RemovalFacts
  <2>5. n = 1 => removing'[1].pc = "handles"
    BY <1>3
  <2> HIDE DEF n
  <2> QED BY <1>1, <1>3, <2>1, <2>2, <2>3, <2>4, <2>5 DEF RemovingOK, Ahead
<1>6. freeTypes' \in Seq(Types) /\ Distinct(freeTypes)' /\ \A u : OnChain(u)' <=> Vacant(u)'
  <2>1. CASE Removal.pc = "handles" \/ ~IsParent(t)
    <3>1. freeTypes' = freeTypes
      BY <2>1 DEF LinkFree
    <3>2. r.pc = Removal.pc \/ ~IsParent(t)
      BY <2>1
    <3>3. \A u : OnChain(u)' <=> Vacant(u)'
      BY <3>1, <3>2, FreeChainKept
    <3> QED BY <1>4, <3>1, <3>3
  <2>2. CASE Removal.pc = "children" /\ IsParent(t)
    <3>1. freeTypes' = Append(freeTypes, t) /\ n = 1
      BY <1>1, <2>2 DEF LinkFree
    <3>2. \A u : ~\E k \in 1..n : removing[k].type = u /\ removing[k].pc = "handles"
      BY <1>1, <2>2, <3>1
    <3>3. \A u : (\E k \in 1..n : removing'[k].type = u /\ removing'[k].pc = "handles") <=> u = t
      BY <1>1, <1>3, <3>1
    <3>4. t <= m_TypeTail
      <4>1. t < m_TypeTail + Stride /\ IsParent(m_TypeTail) /\ m_TypeTail \in Nat
        BY <1>1 DEF TypesInv, TailOK, TypeIndexOK, TypesTypeOK
      <4> QED BY <1>1, <2>2, <4>1, ParentsApart, StrideType
    <3>5. \A u : Vacant(u)' <=> Vacant(u) \/ u = t
      BY <1>1, <1>3, <2>2, <3>2, <3>3, <3>4 DEF Vacant
    <3>6. ~OnChain(t)
      <4>1. ~Vacant(t)
        BY <1>1, <3>2 DEF Vacant
      <4> QED BY <4>1, Parts DEF TypesInv
    <3> DEFINE l == Len(freeTypes)
    <3>7. /\ l \in Nat /\ freeTypes' \in Seq(Types) /\ Len(freeTypes') = l + 1 /\ freeTypes'[l + 1] = t
          /\ \A k \in 1..l : freeTypes'[k] = freeTypes[k]
      BY <1>1, <1>4, <3>1, AppendProperties
    <3> HIDE DEF l, t
    <3>8. \A k \in 1..(l + 1) : k = l + 1 \/ k \in 1..l
      BY <3>7
    <3>9. \A u : OnChain(u)' <=> OnChain(u) \/ u = t
      BY <3>7, <3>8 DEF OnChain, l
    <3>10. Distinct(freeTypes)'
      BY <1>4, <3>6, <3>7, <3>8 DEF Distinct, OnChain, l
    <3>11. \A u : OnChain(u) <=> Vacant(u)
      BY Parts DEF TypesInv
    <3> QED BY <3>5, <3>7, <3>9, <3>10, <3>11
  <2>3. Removal.pc \in {"children", "handles"}
    BY <1>4 DEF Removals
  <2> QED BY <2>1, <2>2, <2>3
<1>7. TypesTypeOK'
  BY <1>3, <1>6 DEF TypesInv, TypeIndexOK, TypesTypeOK, Removals
<1>8. TailOK' /\ FamilyOK' /\ NamesOK'
  BY Parts DEF TypesInv, TailOK, FamilyOK, NamesOK
<1> QED BY <1>5, <1>6, <1>7, <1>8, Parts DEF TypesInv

LEMMA RemoveChildrenStep ==
  ASSUME TypesInv, removing # <<>>, RemoveChildren
  PROVE  TypesInv'
<1> DEFINE t == Removal.type
           r == [Removal EXCEPT !.pc = "handles", !.i = 1]
           left == ChildLoop(t, Removal.i)
<1>1. /\ Removal.pc = "children"
      /\ UNCHANGED <<dispatch, children, name, m_TypeLookup, m_TypeTail, typesMade>>
  BY DEF RemoveChildren
<1>2. left = {c \in Kids(t) : Ahead(Removal, c)} /\ left \subseteq Nat
  BY TypeNumbers DEF ChildLoop, Kids, Ahead, ChildrenOf, TypesInv, TypeIndexOK, TypesTypeOK
<1>3. CASE left # {}
  <2> DEFINE c == CHOOSE d \in left : \A e \in left : d <= e
  <2>1. /\ removing' = Append([removing EXCEPT ![Len(removing)].i = c - t + 1],
                              [pc |-> "children", type |-> c, i |-> 1])
        /\ freeTypes' = freeTypes
    BY <1>3 DEF RemoveChildren
  <2> HIDE DEF left
  <2>2. c \in left /\ \A e \in left : c <= e
    <3>1. PICK x \in left : \A y \in left : ~(y < x)
      BY <1>2, <1>3, LeastNumber
    <3>2. \A y \in left : x <= y
      BY <1>2, <3>1
    <3> QED BY <3>2
  <2> HIDE DEF c
  <2>3. c \in Kids(t) /\ \A d \in Kids(t) : Ahead(Removal, d) => c <= d
    BY <1>2, <2>2
  <2> QED BY <1>1, <2>1, <2>3, ChildCallStep
<1>4. CASE left = {}
  <2>1. SetRemoval(r) /\ freeTypes' = LinkFree(t)
    BY <1>4 DEF RemoveChildren
  <2>2. Removal \in Removals /\ Len(removing) \in {1, 2}
    BY RemovalFacts
  <2>3. r \in Removals /\ r.type = t /\ r.pc = "handles"
    <3>1. 1 \in Nat \ {0}
      OBVIOUS
    <3> QED BY <2>2, <3>1, Zenon DEF Removals
  <2>4. Kids(t) = {}
    <3>1. CASE Len(removing) = 1
      <4>1. \A c \in Kids(t) : Ahead(Removal, c)
        BY <1>1, <3>1, RemovalFacts
      <4> QED BY <1>2, <1>4, <4>1
    <3>2. CASE Len(removing) = 2
      BY <3>2, RemovalFacts DEF Kids
    <3> QED BY <2>2, <3>1, <3>2
  <2> HIDE DEF r, left
  <2> QED BY <1>1, <2>1, <2>3, <2>4, MoveOnStep
<1> QED BY <1>3, <1>4

LEMMA RemoveHandleStep ==
  ASSUME TypesInv, removing # <<>>, RemoveHandle
  PROVE  TypesInv'
<1>1. PICK i \in Slots : SetRemoval([Removal EXCEPT !.i = i + 1])
  <2> DEFINE left == HandlesLeft(Removal.type, Removal.i)
  <2>1. left \subseteq Slots /\ Slots \subseteq Nat
    BY TableAssumption DEF HandlesLeft, Slots
  <2>2. left # {}
    BY DEF RemoveHandle
  <2> HIDE DEF left
  <2>3. (CHOOSE j \in left : \A k \in left : j <= k) \in left
    BY <2>1, <2>2, LeastChosen
  <2>4. SetRemoval([Removal EXCEPT !.i = (CHOOSE j \in left : \A k \in left : j <= k) + 1])
    BY DEF RemoveHandle, left
  <2> QED BY <2>1, <2>3, <2>4
<1> DEFINE r == [Removal EXCEPT !.i = i + 1]
<1>2. /\ Removal.pc = "handles"
      /\ UNCHANGED <<dispatch, children, name, m_TypeLookup, freeTypes, m_TypeTail, typesMade>>
  BY DEF RemoveHandle
<1>3. Removal \in Removals
  BY RemovalFacts
<1>4. i + 1 \in Nat \ {0}
  BY TableAssumption DEF Slots
<1>5. r \in Removals /\ r.type = Removal.type /\ r.pc = "handles"
  BY <1>2, <1>3, <1>4 DEF Removals
<1>6. Kids(Removal.type) = {}
  <2>1. Len(removing) \in 1..Len(removing) /\ Removal = removing[Len(removing)]
    BY RemovalFacts
  <2> QED BY <1>2, <2>1, RemovalFacts
<1>7. SetRemoval(r)
  BY <1>1
<1> HIDE DEF r
<1> QED BY <1>2, <1>5, <1>6, <1>7, MoveOnStep

LEMMA FinishRemovalStep ==
  ASSUME TypesInv, removing # <<>>, FinishRemoval
  PROVE  TypesInv'
<1> DEFINE t == Removal.type
           n == Len(removing)
<1>1. /\ n \in {1, 2} /\ Removal = removing[n] /\ t \in Types /\ t \in dispatch /\ t \in Nat
      /\ removing \in Seq(Removals)
  BY RemovalFacts
<1>2. n = 2 => /\ removing[1].pc = "children" /\ removing[1].type \in dispatch
               /\ ~IsParent(t) /\ t # removing[1].type
  BY RemovalFacts
<1>3. /\ Removal.pc = "handles" /\ dispatch' = dispatch \ {t} /\ m_TypeLookup' = ForgetName(t)
      /\ removing' = SubSeq(removing, 1, n - 1)
      /\ UNCHANGED <<children, name, freeTypes, m_TypeTail, typesMade>>
  BY DEF FinishRemoval
<1>4. Kids(t) = {}
  <2>1. n \in 1..n
    BY <1>1
  <2> QED BY <1>1, <1>3, <2>1, RemovalFacts
<1>5. removing' \in Seq(Removals) /\ Len(removing') = n - 1 /\ \A k \in 1..(n - 1) : removing'[k] = removing[k]
  BY <1>1, <1>3, FrontList DEF Front
<1>6. /\ dispatch \subseteq AllTypes /\ IdentType \in dispatch /\ name \in [AllTypes -> Names \cup {NULL}]
      /\ m_TypeLookup \in [Names -> AllTypes \cup {0}] /\ AllTypes \subseteq Nat \ {0}
      /\ FamilyOK /\ NamesOK /\ TailOK
  BY TypeNumbers, Parts DEF TypesInv, TypesTypeOK
<1>7. TypesTypeOK'
  <2>1. m_TypeLookup' \in [Names -> AllTypes \cup {0}]
    BY <1>3, <1>6 DEF ForgetName
  <2>2. dispatch' \subseteq AllTypes /\ IdentType \in dispatch'
    BY <1>1, <1>3, <1>6, TableAssumption
  <2> QED BY <1>3, <1>5, <2>1, <2>2 DEF TypesInv, TypeIndexOK, TypesTypeOK, Removals
<1>8. RemovingOK'
  <2>1. CASE n = 1
    BY <1>5, <2>1 DEF RemovingOK
  <2>2. CASE n = 2
    <3>1. Len(removing') = 1 /\ removing'[1] = removing[1]
      BY <1>5, <2>2
    <3>2. \A x : \A c \in Kids(x)' : c \in Kids(x) /\ c # t
      BY <1>3 DEF Kids, ChildrenOf
    <3>3. \A c \in Kids(removing[1].type) : c = t \/ Ahead(removing[1], c)
      BY <2>2, RemovalFacts
    <3>4. (\A c \in Kids(removing[1].type) : Ahead(removing[1], c))'
      BY <3>1, <3>2, <3>3 DEF Ahead
    <3> QED BY <1>2, <1>3, <2>2, <3>1, <3>4 DEF RemovingOK, Ahead
  <2> QED BY <1>1, <2>1, <2>2
<1>9. TailOK'
  BY <1>3, <1>6 DEF TailOK
<1>10. FamilyOK'
  <2>1. SUFFICES ASSUME NEW c \in dispatch, ~IsParent(c), Base(c) = t PROVE FALSE
    BY <1>3, <1>6 DEF FamilyOK
  <2>2. c \in Nat
    BY <1>6
  <2>3. IsParent(t) /\ t < c /\ c < t + Stride
    BY <2>1, <2>2, ChildBase
  <2> QED BY <1>4, <2>3 DEF Kids, ChildrenOf
<1>11. NamesOK'
  <2>1. SUFFICES ASSUME NEW nm \in Names, m_TypeLookup'[nm] # 0
                 PROVE  m_TypeLookup'[nm] \in dispatch' /\ name[m_TypeLookup'[nm]] = nm
    BY <1>3 DEF NamesOK
  <2>2. NULL \notin Names /\ t \in AllTypes
    BY <1>1, TypesAssumption, TypeNumbers
  <2>3. m_TypeLookup'[nm] = m_TypeLookup[nm] /\ nm # name[t]
    BY <1>3, <1>6, <2>1, <2>2 DEF ForgetName
  <2>4. m_TypeLookup[nm] \in dispatch /\ name[m_TypeLookup[nm]] = nm
    BY <1>6, <2>1, <2>3 DEF NamesOK
  <2> QED BY <1>3, <2>3, <2>4
<1>12. ASSUME NEW u PROVE OnChain(u)' <=> Vacant(u)'
  <2>1. OnChain(u)' <=> OnChain(u)
    BY <1>3 DEF OnChain
  <2>2. ~\E k \in 1..Len(removing') : removing'[k].pc = "handles"
    BY <1>1, <1>2, <1>5
  <2>3. (\E k \in 1..n : removing[k].type = u /\ removing[k].pc = "handles") <=> u = t
    <3>1. \A k \in 1..n : k = n \/ (k = 1 /\ n = 2)
      BY <1>1
    <3>2. n \in 1..n
      BY <1>1
    <3> QED BY <1>1, <1>2, <1>3, <3>1, <3>2
  <2>4. Vacant(u)' <=> Vacant(u)
    BY <1>3, <2>2, <2>3 DEF Vacant
  <2> QED BY <2>1, <2>4, Parts DEF TypesInv
<1>13. Distinct(freeTypes)'
  BY <1>3, Parts DEF TypesInv
<1> QED BY <1>7, <1>8, <1>9, <1>10, <1>11, <1>12, <1>13, Parts DEF TypesInv

-----------------------------------------------------------------------------
LEMMA TypesStart == TypesInit => TypesInv
<1>1. SUFFICES ASSUME TypesInit PROVE TypesInv
  OBVIOUS
<1>2. /\ dispatch = {IdentType} /\ children = [t \in AllTypes |-> 0] /\ name = [t \in AllTypes |-> NULL]
      /\ m_TypeLookup = [nm \in Names |-> 0] /\ freeTypes = <<>> /\ m_TypeTail = Stride
      /\ removing = <<>> /\ typesMade = 0
  BY <1>1 DEF TypesInit
<1>3. /\ Stride \in Nat \ {0} /\ MaxSubtypes = Stride - 1 /\ IdentType = Stride /\ IdentType \in AllTypes
      /\ \A t \in Types : t \in Nat /\ 2 * Stride <= t
  BY StrideType, TypeNumbers
<1>4. TypesTypeOK
  BY <1>2, <1>3 DEF TypesTypeOK
<1>5. TailOK
  <2>1. (0 + 1) * Stride = Stride
    BY <1>3
  <2> QED BY <1>2, <1>3, <2>1, NextParent, TypesAssumption DEF TailOK
<1>6. RemovingOK
  BY <1>2 DEF RemovingOK
<1>7. Distinct(freeTypes) /\ NamesOK
  BY <1>2 DEF Distinct, NamesOK
<1>8. FamilyOK
  BY <1>2, <1>3, NextParent DEF FamilyOK
<1>9. \A t : OnChain(t) <=> Vacant(t)
  <2>1. \A t : ~OnChain(t)
    BY <1>2 DEF OnChain
  <2>2. ASSUME NEW t, Vacant(t) PROVE FALSE
    BY <1>2, <1>3, <2>2 DEF Vacant
  <2> QED BY <2>1, <2>2
<1> QED BY <1>4, <1>5, <1>6, <1>7, <1>8, <1>9, Parts DEF TypesInv

LEMMA TypesStep == TypesInv /\ [TypesNext]_allvars => TypesInv'
<1>1. SUFFICES ASSUME TypesInv, [TypesNext]_allvars PROVE TypesInv'
  OBVIOUS
<1>2. CASE UNCHANGED tvars
  <2>1. UNCHANGED <<dispatch, children, name, m_TypeLookup, freeTypes, m_TypeTail, removing, typesMade>>
    BY <1>2 DEF tvars
  <2>2. TypeIndexOK' /\ TailOK'
    BY <1>1, <2>1 DEF TypesInv, TypeIndexOK, TypesTypeOK, TypeChainOK, LookupOK, TailOK
  <2>3. RemovingOK'
    BY <1>1, <2>1 DEF TypesInv, RemovingOK, Kids, ChildrenOf, Ahead
  <2> QED BY <2>2, <2>3 DEF TypesInv
<1>3. CASE TypeCall
  <2>1. PICK id \in {s.pIdentity : s \in Callers} :
          \/ \E t \in Types : RemoveType(t, id)
          \/ \E nm \in Names \cup {NULL}, p \in Types : CreateChildType(p, nm, id)
    BY <1>3 DEF TypeCall
  <2> QED BY <1>1, <2>1, RemoveTypeStep, CreateChildStep
<1>4. CASE \E nm \in Names \cup {NULL} : CreateParentType(nm)
  BY <1>1, <1>4, CreateParentStep
<1>5. CASE RemoveStep
  BY <1>1, <1>5, RemoveChildrenStep, RemoveHandleStep, FinishRemovalStep DEF RemoveStep
<1>6. UNCHANGED tvars \/ TypeCall \/ (\E nm \in Names \cup {NULL} : CreateParentType(nm)) \/ RemoveStep
  BY <1>1 DEF TypesNext, allvars, tvars
<1> QED BY <1>2, <1>3, <1>4, <1>5, <1>6

\* The tail, the unfinished RemoveType calls, the free chain, the lookup and
\* the parents agree, with types made and removed in any order.
THEOREM TypesInvariance == TypesSpec => []TypesInv
BY TypesStart, TypesStep, PTL DEF TypesSpec

\* CreateType never hands out an index in use and loses none, a child never
\* outlives its parent, and a name leads to the type that has it: TypeIndexOK,
\* for any number of types, subtypes, names and handles.
THEOREM TypeIndicesCorrect == TypesSpec => []TypeIndexOK
<1>1. TypesInv => TypeIndexOK
  BY DEF TypesInv
<1> QED BY <1>1, TypesInvariance, PTL
=============================================================================
