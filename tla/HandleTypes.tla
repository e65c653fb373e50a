----------------------------- MODULE HandleTypes -----------------------------
(***************************************************************************)
(* The handle types of core/logic/HandleSys.cpp, on top of the table of    *)
(* HandleTable: the array m_Types, in which a type sits at a multiple of   *)
(* MaxSubtypes + 1 and its children in the indices behind it, the stack of *)
(* free type indices, the lookup by name, and RemoveType, which frees      *)
(* every handle of a type slot by slot while destructors run.              *)
(*                                                                         *)
(* Types come and go as components and extensions load and unload, when no *)
(* destructor is running.  The destructors RemoveType calls close handles  *)
(* and make and clone others, but for two things that break the table      *)
(* (RemovalSpared): a handle of the type that is being removed, which the  *)
(* search may have passed, and a handle in a slot a clone still names.     *)
(***************************************************************************)
EXTENDS HandleTable

CONSTANTS
  MaxSubtypes,    \* HANDLESYS_MAX_SUBTYPES
  MaxTypes,       \* HANDLESYS_MAX_TYPES
  Names,          \* names types are registered under
  MaxTypesMade,   \* bound on the CreateType calls
  MaxWork         \* bound on the types and handles made together

Stride == MaxSubtypes + 1
TYPEARRAY_SIZE == MaxTypes * Stride

\* Type indices are numbers, the root type is the first that was created, and
\* every index a bounded number of CreateType calls can return has a place.
ASSUME TypesAssumption ==
  /\ MaxSubtypes \in Nat \ {0} /\ MaxTypes \in Nat \ {0} /\ MaxTypesMade \in Nat /\ MaxWork \in Nat
  /\ IdentType = Stride
  /\ Types = (Stride * 2)..(Stride * (MaxTypesMade + 2) - 1)
  /\ NULL \notin Names

VARIABLES
  dispatch,      \* the types whose dispatch is not NULL
  children,      \* type -> QHandleType::children
  name,          \* type -> QHandleType::name, kept when the type is removed
  m_TypeLookup,  \* name -> type, 0 where there is none
  freeTypes,     \* the freeID members of m_Types[1..m_FreeTypes], a stack
  m_TypeTail,
  removing,      \* unfinished RemoveType calls, innermost last
  typesMade      \* how often CreateType succeeded

tvars == <<dispatch, children, name, m_TypeLookup, freeTypes, m_TypeTail, removing, typesMade>>
allvars == <<vars, tvars>>

IsParent(t) == t % Stride = 0
ChildrenOf(t) == {c \in dispatch : t < c /\ c < t + Stride}

-----------------------------------------------------------------------------
(* CreateType.                                                             *)

\* The checks common to both: a name is registered once.
NameFree(nm) == nm # NULL => m_TypeLookup[nm] = 0

\* The tail of CreateType, for the index it found.  An anonymous type keeps
\* the name string an earlier type left at its index.
Register(t, nm) ==
  /\ dispatch' = dispatch \cup {t}
  /\ name' = IF nm = NULL THEN name ELSE [name EXCEPT ![t] = nm]
  /\ m_TypeLookup' = IF nm = NULL THEN m_TypeLookup ELSE [m_TypeLookup EXCEPT ![nm] = t]
  /\ opened' = [opened EXCEPT ![t] = 0]
  /\ typesMade' = typesMade + 1
  /\ UNCHANGED <<m_Handles, freeID, m_FreeHandles, num_handles, alloc, tokens, ident,
                 stack, life, removing>>

Quiet == stack = <<>> /\ removing = <<>>
WorkLeft == Len(issued) + typesMade < MaxWork

CreateParentType(nm) ==
  /\ Quiet /\ NameFree(nm) /\ typesMade < MaxTypesMade /\ WorkLeft
  /\ \/ /\ freeTypes = <<>> /\ m_TypeTail < TYPEARRAY_SIZE
        /\ m_TypeTail' = m_TypeTail + Stride
        /\ Register(m_TypeTail + Stride, nm)
        /\ children' = [children EXCEPT ![m_TypeTail + Stride] = 0]
        /\ UNCHANGED freeTypes
     \/ /\ freeTypes # <<>>
        /\ Register(freeTypes[Len(freeTypes)], nm)
        /\ children' = [children EXCEPT ![freeTypes[Len(freeTypes)]] = 0]
        /\ freeTypes' = SubSeq(freeTypes, 1, Len(freeTypes) - 1)
        /\ UNCHANGED m_TypeTail

\* The count is not lowered when a child is removed.
ChildRoom(parent) == children[parent] < MaxSubtypes

FreeChildren(parent) == ((parent + 1)..(parent + MaxSubtypes)) \ dispatch

\* The parent is a registered top-level type the creator may inherit from.
CreateChildType(parent, nm, id) ==
  /\ Quiet /\ NameFree(nm) /\ typesMade < MaxTypesMade /\ WorkLeft
  /\ IsParent(parent) /\ parent < TYPEARRAY_SIZE /\ parent \in dispatch
  /\ TypeSec[parent].ident = id
  /\ ChildRoom(parent)
  /\ FreeChildren(parent) # {}
  /\ Register(CHOOSE c \in FreeChildren(parent) : \A d \in FreeChildren(parent) : c <= d, nm)
  /\ children' = [children EXCEPT ![parent] = @ + 1]
  /\ UNCHANGED <<freeTypes, m_TypeTail>>

-----------------------------------------------------------------------------
(* RemoveType.                                                             *)

Removal == removing[Len(removing)]
SetRemoval(r) == removing' = [removing EXCEPT ![Len(removing)] = r]

RemoveType(t, id) ==
  /\ Quiet
  /\ t \in dispatch \ {IdentType} /\ t < TYPEARRAY_SIZE
  /\ TypeSec[t].ident \in {NULL, id}
  /\ removing' = <<[pc |-> "children", type |-> t, i |-> 1]>>
  /\ UNCHANGED <<vars, dispatch, children, name, m_TypeLookup, freeTypes, m_TypeTail, typesMade>>

\* Mutant: the children of a removed type are left registered.
NoChildLoop(t, i) == {}

\* The registered children the loop has still to visit when its index is i.
ChildLoop(t, i) == IF IsParent(t) THEN {c \in ChildrenOf(t) : t + i <= c} ELSE {}

LinkFree(t) == IF IsParent(t) THEN Append(freeTypes, t) ELSE freeTypes

\* The child loop: remove the next registered child, or go on to the handles,
\* having put the index of a top-level type on the free chain.
RemoveChildren ==
  LET t == Removal.type
      left == ChildLoop(t, Removal.i)
      c == CHOOSE d \in left : \A e \in left : d <= e
  IN
  /\ Removal.pc = "children"
  /\ IF left # {}
     THEN /\ removing' = Append([removing EXCEPT ![Len(removing)].i = c - t + 1],
                                [pc |-> "children", type |-> c, i |-> 1])
          /\ UNCHANGED freeTypes
     ELSE /\ SetRemoval([Removal EXCEPT !.pc = "handles", !.i = 1])
          /\ freeTypes' = LinkFree(t)
  /\ UNCHANGED <<vars, dispatch, children, name, m_TypeLookup, m_TypeTail, typesMade>>

\* Mutant: the search stops one slot early.
HandlesLeftButOne(t, from) ==
  {i \in Slots : from <= i /\ i < m_HandleTail /\ InUse(i) /\ m_Handles[i].type = t}

\* The slots the search has still to visit; it stops early when the type's
\* count says that no handle is left.
HandlesLeft(t, from) ==
  IF opened[t] = 0 THEN {}
  ELSE {i \in Slots : from <= i /\ i <= m_HandleTail
                        /\ InUse(i) /\ m_Handles[i].type = t}

RemoveHandle ==
  LET left == HandlesLeft(Removal.type, Removal.i)
      i == CHOOSE j \in left : \A k \in left : j <= k
  IN  /\ Removal.pc = "handles"
      /\ left # {}
      /\ FreeSlot(i)
      /\ SetRemoval([Removal EXCEPT !.i = i + 1])
      /\ UNCHANGED <<dispatch, children, name, m_TypeLookup, freeTypes, m_TypeTail, typesMade>>

\* m_TypeLookup.remove(name) drops the entry whichever type it points at.
ForgetName(t) ==
  IF name[t] = NULL THEN m_TypeLookup ELSE [m_TypeLookup EXCEPT ![name[t]] = 0]

FinishRemoval ==
  LET t == Removal.type IN
  /\ Removal.pc = "handles"
  /\ HandlesLeft(t, Removal.i) = {}
  /\ dispatch' = dispatch \ {t}
  /\ m_TypeLookup' = ForgetName(t)
  /\ removing' = SubSeq(removing, 1, Len(removing) - 1)
  /\ UNCHANGED <<vars, children, name, freeTypes, m_TypeTail, typesMade>>

\* RemoveType goes on when the destructor it called has returned.
RemoveStep ==
  /\ removing # <<>> /\ stack = <<>>
  /\ RemoveChildren \/ RemoveHandle \/ FinishRemoval

-----------------------------------------------------------------------------
TypesInit ==
  /\ Init
  /\ dispatch = {IdentType}
  /\ children = [t \in AllTypes |-> 0]
  /\ name = [t \in AllTypes |-> NULL]
  /\ m_TypeLookup = [nm \in Names |-> 0]
  /\ freeTypes = <<>>
  /\ m_TypeTail = Stride
  /\ removing = <<>>
  /\ typesMade = 0

\* Calls on the table when no type is being removed: as in HandleTable, but a
\* handle is made of a registered type only, for an object, with access rules
\* of its own, and belongs to who made it.
TableCall ==
  /\ removing = <<>>
  /\ \/ \E t \in Idents : (WorkLeft /\ CreateIdentity(t)) \/ DestroyIdentity(t)
     \/ WorkLeft /\ \E type \in Types \cap dispatch, s \in ActiveCallers,
                      sec \in AccessRules :
          type < TYPEARRAY_SIZE /\ CreateHandle(type, TRUE, s.pOwner, s, sec)
     \/ WorkLeft /\ \E h \in Held, s \in ActiveCallers : CloneHandle(h, s.pOwner, s)
     \/ \E h \in Held, s \in ActiveCallers : FreeHandle(h, s)

\* The next handle, made of type, is not of the type whose handles the search is
\* freeing, nor does it go where a clone that is left points: RemoveType releases
\* a closed master before its clones, which then count their master's slot down.
RemovalSpared(type) ==
  /\ type # Removal.type
  /\ Clones(TryAllocHandle) = {}

\* Inside a destructor that RemoveType called.
DestructorCall ==
  /\ removing # <<>> /\ stack # <<>>
  /\ \/ \E h \in Held, s \in ActiveCallers : FreeHandle(h, s)
     \/ WorkLeft /\ \E type \in Types \cap dispatch, s \in ActiveCallers, sec \in AccessRules :
          /\ type < TYPEARRAY_SIZE /\ RemovalSpared(type)
          /\ CreateHandle(type, TRUE, s.pOwner, s, sec)
     \/ WorkLeft /\ \E h \in Held, s \in ActiveCallers :
          /\ RemovalSpared(m_Handles[h.index].type)
          /\ CloneHandle(h, s.pOwner, s)

TypeCall ==
  \E id \in {s.pIdentity : s \in Callers} :
    \/ \E t \in Types : RemoveType(t, id)
    \/ \E nm \in Names \cup {NULL}, p \in Types : CreateChildType(p, nm, id)

TypesNext ==
  \/ (TableCall \/ DestructorCall \/ Continue) /\ UNCHANGED tvars
  \/ TypeCall
  \/ \E nm \in Names \cup {NULL} : CreateParentType(nm)
  \/ RemoveStep

\* RemoveType, like every call in progress, runs on.
TypesSpec == TypesInit /\ [][TypesNext]_allvars
TypesFairSpec ==
  TypesSpec /\ WF_allvars(Continue /\ UNCHANGED tvars) /\ WF_allvars(RemoveStep)

-----------------------------------------------------------------------------
(* Properties.                                                             *)

TypesTypeOK ==
  /\ dispatch \subseteq AllTypes /\ IdentType \in dispatch
  /\ children \in [AllTypes -> 0..MaxSubtypes]
  /\ name \in [AllTypes -> Names \cup {NULL}]
  /\ m_TypeLookup \in [Names -> AllTypes \cup {0}]
  /\ freeTypes \in Seq(Types)
  /\ m_TypeTail \in Nat /\ typesMade \in Nat
  /\ removing \in Seq([pc : {"children", "handles"}, type : Types, i : Nat \ {0}])

\* When RemoveType returns no handle of the type is left, whichever of them
\* were clones, closed masters, or closed by destructors on the way: the NULL
\* dispatch of a removed type is never called.
RemovedTypesEmpty ==
  \A i \in Slots : InUse(i) => m_Handles[i].type \in dispatch

\* The early exit is right: the count RemoveType stops at is exact even while
\* the loop and nested destructors free slots behind and ahead of it; so are
\* the counts kept per owner.
CountsSurviveRemoval == OpenedOK /\ FreeListOK /\ OwnerCountsOK

\* RemoveType destroys each object once and leaves no reference wrong, though
\* it visits closed masters that live for their clones and frees them again.
ConsistentAfterRemoval ==
  /\ \A n \in 1..MaxMade : life[n] # "destroyed twice"
  /\ removing = <<>> => ObjectLifetime /\ RefCountOK /\ CloneTargetOK

\* CreateType never hands out an index in use and loses none: the free chain
\* holds exactly the top-level indices up to the tail whose type is removed,
\* or is past its child loop in a RemoveType, once each.
TypeChainOK ==
  /\ \A j, k \in 1..Len(freeTypes) : freeTypes[j] = freeTypes[k] => j = k
  /\ {freeTypes[k] : k \in 1..Len(freeTypes)} =
       {t \in Types : IsParent(t) /\ t <= m_TypeTail /\
          (t \notin dispatch \/ \E k \in 1..Len(removing) :
             removing[k].type = t /\ removing[k].pc = "handles")}

\* A child never outlives its parent, and FindHandleType finds no type that
\* was removed.
LookupOK ==
  /\ \A t \in dispatch : ~IsParent(t) => (t - (t % Stride)) \in dispatch
  /\ \A nm \in Names : m_TypeLookup[nm] # 0 =>
       m_TypeLookup[nm] \in dispatch /\ name[m_TypeLookup[nm]] = nm

\* Every RemoveType returns.
RemovalEnds == removing # <<>> ~> removing = <<>>

\* RemoveType removes all of a type and nothing else: the table keeps its
\* shape, no handle of the type is left, each object was destroyed once, and
\* every count and reference is right.
RemovalOK == TypeOK /\ RemovedTypesEmpty /\ CountsSurviveRemoval /\ ConsistentAfterRemoval

\* Type indices and names lead to the types that exist, whatever was removed
\* and made again.
TypeIndexOK == TypesTypeOK /\ TypeChainOK /\ LookupOK

\* RemoveType and DestroyIdentity come to their end, and the identity's handles
\* with it.
ReleasesEnd == RemovalEnds /\ IdentityReleased

=============================================================================
