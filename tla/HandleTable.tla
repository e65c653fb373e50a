----------------------------- MODULE HandleTable -----------------------------
(***************************************************************************)
(* The handle table of core/logic/HandleSys.cpp: one array of QHandle      *)
(* slots that holds three structures at once (see HandleSys.h:59-74): the  *)
(* handles themselves, the stack of free slots (freeID), and one doubly    *)
(* linked chain per identity through ch_prev/ch_next.                      *)
(*                                                                         *)
(* Everything runs on the game thread, but not atomically: OnHandleDestroy *)
(* is foreign code that may call back into the table while a FreeHandle is *)
(* half done.  `stack' is the C++ call stack of unfinished frees; the      *)
(* environment may act when it is empty or when a destructor is on top.    *)
(*                                                                         *)
(* CreateType and RemoveType are not here; at the handle limit             *)
(* TryAndFreeSomeHandles finds no plugin it may unload at once (it is      *)
(* deferred while any plugin executes, PluginSys.cpp:1650-1667).           *)
(***************************************************************************)
EXTENDS Integers, Sequences, FiniteSets

CONSTANTS
  MaxHandles,   \* HANDLESYS_MAX_HANDLES: slots are 1..MaxHandles, 0 is NULL
  MaxSerials,   \* HANDLESYS_MAX_SERIALS
  Types,        \* handle types registered by CreateType
  IdentType,    \* the type of identity handles (ShareSystem::m_TypeRoot)
  Idents,       \* addresses an IdentityToken_t may be allocated at
  Root, Core,   \* GetIdentRoot() and g_pCoreIdent
  NULL,
  TypeSec,      \* m_Types[t].typeSec: [create : BOOLEAN, ident : token or NULL]
  HndlSec,      \* m_Types[t].hndlSec: right -> restrictions
  AccessRules,  \* the HandleAccess records clients pass to CreateHandleEx
  Callers,      \* the HandleSecurity records clients pass
  MaxMade       \* bound on the handles ever created

Index  == 0..MaxHandles
Slots  == 1..MaxHandles
Tokens == Idents \cup {Root, Core}
AllTypes == Types \cup {IdentType}
Rights == {"Read", "Delete", "Clone"}
Access == [Rights -> SUBSET {"IDENTITY", "OWNER"}]
Security == [pOwner : Tokens \cup {NULL}, pIdentity : Tokens \cup {NULL}]

\* The table has room for the root and the core identity, a serial number
\* besides the initial one exists, and the names are distinct.
ASSUME TableAssumption ==
  /\ MaxHandles \in Nat /\ MaxHandles >= 2
  /\ MaxSerials \in Nat /\ MaxSerials >= 4
  /\ MaxMade \in Nat /\ MaxMade >= 2
  /\ IdentType \notin Types
  /\ Root # Core /\ {Root, Core} \cap Idents = {} /\ NULL \notin Tokens

ASSUME SecurityAssumption ==
  /\ TypeSec \in [AllTypes -> [create : BOOLEAN, ident : Tokens \cup {NULL}]]
  /\ HndlSec \in [AllTypes -> Access]
  /\ AccessRules \subseteq Access /\ NULL \notin Access
  /\ Callers \subseteq Security
  /\ \A s \in Callers : s.pIdentity # Root

VARIABLES
  m_Handles,     \* Index -> QHandle
  freeID,        \* the freeID members, a stack in freeID[1..m_FreeHandles]
  m_FreeHandles,
  m_HandleTail,
  m_HSerial,
  opened,        \* m_Types[t].opened
  tokens,        \* the IdentityToken_t that are allocated
  ident,         \* token -> its Handle_t (NoHandle: CreateHandleInt failed)
  num_handles,   \* token -> IdentityToken_t::num_handles
  stack,         \* unfinished FreeHandle calls, innermost last
  issued,        \* history: every Handle_t returned, in order
  birth,         \* history: slot -> which of `issued' it was last made for
  life           \* history: what happened to the object of issued[n]

table == <<m_Handles, freeID, m_FreeHandles, opened, num_handles>>
alloc == <<m_HandleTail, m_HSerial, issued, birth>>
vars  == <<table, alloc, tokens, ident, stack, life>>

HandleSet == {"None", "Used", "Freed", "Identity"}
Handle_t  == [index : Index, serial : 0..(MaxSerials - 1)]
NoHandle  == [index |-> 0, serial |-> 0]

QHandle ==
  [ set : HandleSet, type : AllTypes, owner : Tokens \cup {NULL},
    serial : 0..(MaxSerials - 1), refcount : Int, clone : Index,
    sec : Access \cup {NULL},   \* access_special and sec: NULL is "type-derived"
    is_destroying : BOOLEAN,
    object : 0..MaxMade,        \* 0 is NULL, n the object of issued[n]
    ch_prev : Index, ch_next : Index ]

Frame ==
  [ pc : {"OnHandleDestroy",   \* in the destructor of slot `index'
          "ReleasePrimHandle", \* the object is NULL: no destructor is called
          "ReleaseIdentity"},  \* in the child loop of ReleasePrimHandle
    index : Slots, token : Tokens \cup {NULL} ]

-----------------------------------------------------------------------------
(* Decoding a Handle_t.                                                    *)

\* Mutant: the serial number is not compared.
GetHandleAnySerial(H, tail, h, id) ==
  IF h.index = 0 \/ h.index > tail            THEN "HandleError_Index"
  ELSE IF H[h.index].set \in {"None", "Freed"} THEN "HandleError_Freed"
  ELSE IF H[h.index].set = "Identity" /\ id # Root THEN "HandleError_Identity"
  ELSE "HandleError_None"

GetHandle(H, tail, h, id) ==
  IF h.index = 0 \/ h.index > tail            THEN "HandleError_Index"
  ELSE IF H[h.index].set \in {"None", "Freed"} THEN "HandleError_Freed"
  ELSE IF H[h.index].set = "Identity" /\ id # Root THEN "HandleError_Identity"
  ELSE IF H[h.index].serial # h.serial        THEN "HandleError_Changed"
  ELSE "HandleError_None"

\* The slot of a token's own handle, 0 if it does not decode.
IdentityHandle(H, tail, t) ==
  IF GetHandle(H, tail, ident[t], Root) = "HandleError_None"
  THEN ident[t].index ELSE 0

CheckAccess(q, right, s) ==
  LET access == IF q.sec # NULL THEN q.sec[right] ELSE HndlSec[q.type][right]
      typeOwner == TypeSec[q.type].ident
  IN  /\ "IDENTITY" \in access => typeOwner # NULL /\ s.pIdentity = typeOwner
      /\ "OWNER" \in access => q.owner = NULL \/ s.pOwner = q.owner

\* Mutant: clones of clones point at the clone.
MasterIsSelf(H, i) == i

\* The slot that holds the object a handle stands for.
Master(H, i) == IF H[i].clone # 0 THEN H[i].clone ELSE i

-----------------------------------------------------------------------------
(* Allocation.                                                             *)

AtLimit == m_FreeHandles = 0 /\ m_HandleTail >= MaxHandles

TryAllocHandle ==
  IF m_FreeHandles = 0 THEN m_HandleTail + 1 ELSE freeID[m_FreeHandles]

NextSerial == IF m_HSerial + 1 >= MaxSerials THEN 1 ELSE m_HSerial + 1

\* Mutant: the new tail does not point back.
LinkForwardOnly(H, i, d) ==
  IF H[d].ch_prev = 0
  THEN [H EXCEPT ![d].ch_prev = i, ![d].ch_next = i, ![d].refcount = @ + 1]
  ELSE [H EXCEPT ![H[d].ch_next].ch_next = i,
                 ![d].ch_next = i, ![d].refcount = @ + 1]

\* Append slot i at the end of the chain whose sentinel is slot d.
LinkHandleToOwner(H, i, d) ==
  IF H[d].ch_prev = 0
  THEN [H EXCEPT ![d].ch_prev = i, ![d].ch_next = i,
                 ![d].refcount = @ + 1, ![i].ch_prev = 0]
  ELSE [H EXCEPT ![H[d].ch_next].ch_next = i, ![i].ch_prev = H[d].ch_next,
                 ![d].ch_next = i, ![d].refcount = @ + 1]

\* The table after MakePrimHandle(type, owner, set = "Identity") has filled
\* the slot it was given, with the members its caller assigns afterwards.
Filled(H, type, owner, set, object, clone, sec) ==
  LET i == TryAllocHandle
      new == [H EXCEPT ![i] =
               [ set |-> set, type |-> type, owner |-> owner,
                 serial |-> NextSerial, refcount |-> 1, clone |-> clone,
                 sec |-> sec, is_destroying |-> FALSE, object |-> object,
                 ch_prev |-> 0, ch_next |-> 0 ]]
  IN  IF owner # NULL /\ set # "Identity"
      THEN LinkHandleToOwner(new, i, IdentityHandle(H, m_HandleTail, owner))
      ELSE new

\* What MakePrimHandle does outside m_Handles.
MakePrimHandle(type, owner) ==
  LET i == TryAllocHandle IN
  /\ ~AtLimit
  /\ Len(issued) < MaxMade
  /\ owner # NULL => IdentityHandle(m_Handles, m_HandleTail, owner) # 0
  /\ m_HandleTail'  = IF m_FreeHandles = 0 THEN i ELSE m_HandleTail
  /\ m_FreeHandles' = IF m_FreeHandles = 0 THEN 0 ELSE m_FreeHandles - 1
  /\ m_HSerial' = NextSerial
  /\ opened' = [opened EXCEPT ![type] = @ + 1]
  /\ num_handles' = [t \in Tokens |-> num_handles[t] + IF t = owner THEN 1 ELSE 0]
  /\ issued' = Append(issued, [index |-> i, serial |-> NextSerial])
  /\ birth' = [birth EXCEPT ![i] = Len(issued) + 1]
  /\ UNCHANGED <<freeID, stack>>

-----------------------------------------------------------------------------
(* Release.                                                                *)

\* Mutant: the end of the owner's chain is left as it was.
UnlinkKeepEnd(H, i) ==
  LET d == IdentityHandle(H, m_HandleTail, H[i].owner)
  IN  IF d = 0 THEN H
      ELSE [H EXCEPT ![i].owner = NULL, ![d].refcount = @ - 1,
                     ![d].ch_prev = IF @ = i THEN H[i].ch_next ELSE @]

\* Take slot i out of its owner's chain (the assertion of the error path is
\* the invariant OwnersAlive).
UnlinkHandleFromOwner(H, i) ==
  LET d == IdentityHandle(H, m_HandleTail, H[i].owner)
      prev == H[i].ch_prev
      next == H[i].ch_next
      G == [H EXCEPT ![i].owner = NULL, ![d].refcount = @ - 1]
  IN  IF d = 0 THEN H
      ELSE IF i = H[d].ch_prev /\ i = H[d].ch_next
        THEN [G EXCEPT ![d].ch_prev = 0, ![d].ch_next = 0]
      ELSE IF i = H[d].ch_prev
        THEN [G EXCEPT ![d].ch_prev = next, ![next].ch_prev = 0]
      ELSE IF i = H[d].ch_next
        THEN [G EXCEPT ![d].ch_next = prev, ![prev].ch_next = 0]
      ELSE [G EXCEPT ![next].ch_prev = prev, ![prev].ch_next = next]

Unowned(H, i) == IF H[i].owner # NULL THEN UnlinkHandleFromOwner(H, i) ELSE H

\* m_Handles after ReleasePrimHandle(i), i not an identity.
Released(H, i) == [Unowned(H, i) EXCEPT ![i].set = "None"]

\* Mutant: the free stack is pushed one too low.
PushFreeLow(i) ==
  /\ opened' = [opened EXCEPT ![m_Handles[i].type] = @ - 1]
  /\ m_FreeHandles' = m_FreeHandles + 1
  /\ freeID' = [freeID EXCEPT ![m_FreeHandles] = i]

\* The rest of ReleasePrimHandle(i): the type's count and the free stack.
PushFree(i) ==
  /\ opened' = [opened EXCEPT ![m_Handles[i].type] = @ - 1]
  /\ m_FreeHandles' = m_FreeHandles + 1
  /\ freeID' = [freeID EXCEPT ![m_FreeHandles + 1] = i]

\* Slot i has just reached reference count 0: call its destructor, if there
\* is an object to destroy, and come back to release the slot.
Destroy(i) ==
  LET o == m_Handles[i].object IN
  /\ stack' = Append(stack,
       [ pc |-> IF o # 0 THEN "OnHandleDestroy" ELSE "ReleasePrimHandle",
         index |-> i, token |-> NULL ])
  /\ life' = IF o = 0 THEN life
             ELSE [life EXCEPT ![o] = IF @ = "live" THEN "destroyed" ELSE "destroyed twice"]

\* IdentityToken_t::num_handles is kept from wrapping below 0.
ForgetByOwner(i) ==
  num_handles' = [t \in Tokens |->
    IF t = m_Handles[i].owner /\ num_handles[t] > 0
    THEN num_handles[t] - 1 ELSE num_handles[t]]

FreeClone(i) ==
  LET m == m_Handles[i].clone
      G == Released([m_Handles EXCEPT ![i].is_destroying = TRUE], i)
  IN  /\ m # 0
      /\ PushFree(i)
      /\ IF G[m].refcount = 1
         THEN /\ m_Handles' = [G EXCEPT ![m].refcount = 0, ![m].is_destroying = TRUE]
              /\ Destroy(m)
         ELSE /\ m_Handles' = [G EXCEPT ![m].refcount = @ - 1]
              /\ UNCHANGED <<stack, life>>

FreeMaster(i) ==
  /\ m_Handles[i].clone = 0 /\ m_Handles[i].set # "Identity"
  /\ UNCHANGED <<opened, m_FreeHandles, freeID>>
  /\ IF m_Handles[i].refcount = 1
     THEN /\ m_Handles' = [m_Handles EXCEPT ![i].refcount = 0, ![i].is_destroying = TRUE]
          /\ Destroy(i)
     ELSE /\ m_Handles' =
               Unowned([m_Handles EXCEPT ![i].refcount = @ - 1, ![i].set = "Freed"], i)
          /\ UNCHANGED <<stack, life>>

\* HandleSystem::FreeHandle(QHandle *, index) on anything but an identity.
FreeSlot(i) ==
  /\ ~m_Handles[i].is_destroying
  /\ ForgetByOwner(i)
  /\ FreeClone(i) \/ FreeMaster(i)
  /\ UNCHANGED <<alloc, tokens, ident>>

-----------------------------------------------------------------------------
(* The calls of clients: plugins through natives, extensions, the core.    *)

\* No HandleSystem code is between two of its own statements.
Top == stack[Len(stack)]
ClientTurn == stack # <<>> => Top.pc = "OnHandleDestroy"

\* ShareSystem::CreateIdentity: `new IdentityToken_t', then a handle of the
\* root's with no object, which may fail at the limit.
CreateIdentity(t) ==
  /\ ClientTurn
  /\ t \in Idents \ tokens
  /\ tokens' = tokens \cup {t}
  /\ \/ /\ MakePrimHandle(IdentType, Root)
        /\ m_Handles' = Filled(m_Handles, IdentType, Root, "Identity", 0, 0, NULL)
        /\ ident' = [ident EXCEPT ![t] = [index |-> TryAllocHandle, serial |-> NextSerial]]
        /\ UNCHANGED life
     \/ /\ AtLimit
        /\ ident' = [ident EXCEPT ![t] = NoHandle]
        /\ UNCHANGED <<table, alloc, stack, life>>

\* CreateHandleEx; CreateHandle is the case sec = NULL.
CreateHandle(type, hasObject, owner, s, sec) ==
  LET object == IF hasObject THEN Len(issued) + 1 ELSE 0 IN
  /\ ClientTurn
  /\ TypeSec[type].create
       \/ (TypeSec[type].ident # NULL /\ TypeSec[type].ident = s.pIdentity)
  /\ MakePrimHandle(type, owner)
  /\ m_Handles' = Filled(m_Handles, type, owner, "Used", object, 0, sec)
  /\ life' = IF hasObject THEN [life EXCEPT ![object] = "live"] ELSE life
  /\ UNCHANGED <<tokens, ident>>

\* Mutants: the reference is not counted; a dying handle may be cloned.
AddNoRef(H, m) == H
AlwaysClonable(m) == TRUE

AddRef(H, m) == [H EXCEPT ![m].refcount = @ + 1]
Clonable(m) == ~m_Handles[m].is_destroying

\* CloneHandle(QHandle *, index): m is never a clone itself.
CloneMaster(m, newOwner) ==
  /\ Clonable(m)
  /\ MakePrimHandle(m_Handles[m].type, newOwner)
  /\ m_Handles' =
       AddRef(Filled(m_Handles, m_Handles[m].type, newOwner, "Used",
                     0, m, m_Handles[m].sec), m)
  /\ UNCHANGED <<tokens, ident, life>>

CloneHandle(h, newOwner, s) ==
  /\ ClientTurn
  /\ GetHandle(m_Handles, m_HandleTail, h, s.pIdentity) = "HandleError_None"
  /\ CheckAccess(m_Handles[h.index], "Clone", s)
  /\ CloneMaster(Master(m_Handles, h.index), newOwner)

\* FastCloneHandle bypasses security, for AutoHandleRooter; its caller holds
\* a valid handle (GetHandleUnchecked only asserts it).
FastCloneHandle(h) ==
  /\ ClientTurn
  /\ GetHandle(m_Handles, m_HandleTail, h, NULL) = "HandleError_None"
  /\ CloneMaster(Master(m_Handles, h.index), Core)

FreeHandle(h, s) ==
  /\ ClientTurn
  /\ GetHandle(m_Handles, m_HandleTail, h, s.pIdentity) = "HandleError_None"
  /\ CheckAccess(m_Handles[h.index], "Delete", s)
  /\ FreeSlot(h.index)

\* ShareSystem::DestroyIdentity up to the child loop of ReleasePrimHandle; a
\* token without a handle is just deleted.  Plugins are not unloaded while
\* any plugin is executing, so no destructor is running.
DestroyIdentity(t) ==
  LET d == IdentityHandle(m_Handles, m_HandleTail, t) IN
  /\ stack = <<>>
  /\ t \in Idents \cap tokens
  /\ UNCHANGED <<alloc, freeID, m_FreeHandles, opened, ident, life>>
  /\ IF d = 0
     THEN /\ tokens' = tokens \ {t}
          /\ UNCHANGED <<m_Handles, num_handles, stack>>
     ELSE /\ m_Handles' = [m_Handles EXCEPT ![d].is_destroying = TRUE]
          /\ ForgetByOwner(d)
          /\ stack' = <<[pc |-> "ReleaseIdentity", index |-> d, token |-> t]>>
          /\ UNCHANGED tokens

-----------------------------------------------------------------------------
(* What is left of an unfinished FreeHandle, innermost first.              *)

Pop == stack' = SubSeq(stack, 1, Len(stack) - 1)

\* OnHandleDestroy returned (or there was nothing to destroy).
FinishRelease ==
  /\ stack # <<>>
  /\ Top.pc \in {"OnHandleDestroy", "ReleasePrimHandle"}
  /\ m_Handles' = Released(m_Handles, Top.index)
  /\ PushFree(Top.index)
  /\ Pop
  /\ UNCHANGED <<alloc, num_handles, tokens, ident, life>>

LastChild(d) == m_Handles[d].ch_next

\* One round of the child loop: free the tail of the chain.
ReleaseChild ==
  /\ stack # <<>>
  /\ Top.pc = "ReleaseIdentity"
  /\ LastChild(Top.index) # 0
  /\ FreeSlot(LastChild(Top.index))

\* The chain is empty: release the identity's own slot, `delete identity'.
FinishIdentity ==
  /\ stack # <<>>
  /\ Top.pc = "ReleaseIdentity"
  /\ LastChild(Top.index) = 0
  /\ m_Handles' = [m_Handles EXCEPT ![Top.index].set = "None"]
  /\ PushFree(Top.index)
  /\ tokens' = tokens \ {Top.token}
  /\ num_handles' = [num_handles EXCEPT ![Top.token] = 0]
  /\ ident' = [ident EXCEPT ![Top.token] = NoHandle]
  /\ Pop
  /\ UNCHANGED <<alloc, life>>

-----------------------------------------------------------------------------
\* After ShareSystem::Initialize (slot 1) and CreateCoreIdentity (slot 2).
BootHandle(set, owner, serial, refcount) ==
  [ set |-> set, type |-> IdentType, owner |-> owner, serial |-> serial,
    refcount |-> refcount, clone |-> 0, sec |-> NULL, is_destroying |-> FALSE,
    object |-> 0, ch_prev |-> 0, ch_next |-> 0 ]
Blank == BootHandle("None", NULL, 0, 0)

Init ==
  /\ m_Handles = [i \in Index |->
       IF i = 1 THEN BootHandle("Used", NULL, 1, 1)
       ELSE IF i = 2 THEN BootHandle("Identity", Root, 2, 1) ELSE Blank]
  /\ freeID = [i \in Index |-> 0]
  /\ m_FreeHandles = 0 /\ m_HandleTail = 2 /\ m_HSerial = 2
  /\ opened = [t \in AllTypes |-> IF t = IdentType THEN 2 ELSE 0]
  /\ tokens = {Root, Core}
  /\ issued = <<[index |-> 1, serial |-> 1], [index |-> 2, serial |-> 2]>>
  /\ ident = [t \in Tokens |-> IF t = Root THEN issued[1]
                               ELSE IF t = Core THEN issued[2] ELSE NoHandle]
  /\ num_handles = [t \in Tokens |-> IF t = Root THEN 1 ELSE 0]
  /\ stack = <<>>
  /\ birth = [i \in Index |-> IF i \in {1, 2} THEN i ELSE 0]
  /\ life = [n \in 1..MaxMade |-> "none"]

\* Clients hold any Handle_t they were ever given (the root's never leaves
\* ShareSystem), and act for tokens that exist.
Held == {issued[n] : n \in 2..Len(issued)}
Owners == (tokens \ {Root}) \cup {NULL}
ActiveCallers == {s \in Callers : s.pOwner \in Owners}

ClientCall ==
  \/ \E t \in Idents : CreateIdentity(t) \/ DestroyIdentity(t)
  \/ \E type \in Types, b \in BOOLEAN, o \in Owners, s \in ActiveCallers,
         sec \in AccessRules \cup {NULL} : CreateHandle(type, b, o, s, sec)
  \/ \E h \in Held, o \in Owners, s \in ActiveCallers : CloneHandle(h, o, s)
  \/ \E h \in Held : FastCloneHandle(h)
  \/ \E h \in Held, s \in ActiveCallers : FreeHandle(h, s)

Continue == FinishRelease \/ ReleaseChild \/ FinishIdentity

Next == ClientCall \/ Continue

\* A call in progress runs on, and a destructor returns.
Spec == Init /\ [][Next]_vars
FairSpec == Spec /\ WF_vars(Continue)

-----------------------------------------------------------------------------
(* Properties.                                                             *)

TypeOK ==
  /\ m_Handles \in [Index -> QHandle]
  /\ freeID \in [Index -> Index]
  /\ m_FreeHandles \in Index
  /\ m_HandleTail \in Index
  /\ m_HSerial \in 1..(MaxSerials - 1)
  /\ opened \in [AllTypes -> Int]
  /\ tokens \in SUBSET Tokens
  /\ ident \in [Tokens -> Handle_t]
  /\ num_handles \in [Tokens -> Nat]
  /\ stack \in Seq(Frame)
  /\ issued \in Seq(Handle_t) /\ Len(issued) <= MaxMade
  /\ birth \in [Index -> 0..MaxMade]
  /\ life \in [1..MaxMade -> {"none", "live", "destroyed", "destroyed twice"}]

\* The free stack holds every unused slot up to the tail, once, and nothing
\* else: TryAllocHandle never hands out a slot that is in use (the assertion
\* at HandleSys.cpp:328) and never loses one, however frees nest.
FreeListOK ==
  /\ \A k \in 1..m_FreeHandles :
       freeID[k] \in 1..m_HandleTail /\ m_Handles[freeID[k]].set = "None"
  /\ \A j, k \in 1..m_FreeHandles : freeID[j] = freeID[k] => j = k
  /\ \A i \in 1..m_HandleTail :
       m_Handles[i].set = "None" => \E k \in 1..m_FreeHandles : freeID[k] = i
  /\ \A i \in Slots : i > m_HandleTail => m_Handles[i].set = "None"

InUse(i) == m_Handles[i].set # "None"
Live(i) == m_Handles[i].set \in {"Used", "Freed"}
Clones(m) == {i \in Slots : InUse(i) /\ m_Handles[i].clone = m}

\* refcount is one for the handle itself while it is not closed plus one per
\* clone still open, so that it reaches 0 exactly when the last way to the
\* object is closed.
RefCountOK ==
  \A i \in Slots : Live(i) /\ m_Handles[i].clone = 0 =>
    m_Handles[i].refcount =
      Cardinality(Clones(i)) +
        IF m_Handles[i].set = "Used" /\ ~m_Handles[i].is_destroying THEN 1 ELSE 0

\* A clone stands for a slot that is still in use by the same object: it is
\* never left pointing at a released or reused slot, and a clone of a clone
\* is a clone of the original, with the original's type and access rules.
CloneTargetOK ==
  \A i \in Slots : InUse(i) /\ m_Handles[i].clone # 0 =>
    LET m == m_Handles[i].clone IN
    /\ m_Handles[i].set = "Used"
    /\ Live(m) /\ m_Handles[m].clone = 0 /\ ~m_Handles[m].is_destroying
    /\ birth[m] < birth[i]
    /\ m_Handles[m].type = m_Handles[i].type /\ m_Handles[m].sec = m_Handles[i].sec

\* OnHandleDestroy runs exactly once per object: not while some handle still
\* reaches it, not twice however destructors re-enter the table, and an object
\* no slot holds any more has been destroyed.
ObjectLifetime ==
  \A n \in 1..MaxMade :
    /\ life[n] # "destroyed twice"
    /\ life[n] = "live" <=>
         \E i \in Slots : Live(i) /\ ~m_Handles[i].is_destroying /\ m_Handles[i].object = n

\* The slot of an unfinished FreeHandle is that call's alone: it stays in use
\* and marked is_destroying until the call releases it, nothing else is
\* waiting to release it, and no reference to it is left.
StackOK ==
  /\ \A j, k \in 1..Len(stack) : stack[j].index = stack[k].index => j = k
  /\ \A k \in 1..Len(stack) :
       LET f == stack[k]
           q == m_Handles[f.index]
       IN  /\ f.index <= m_HandleTail /\ q.is_destroying
           /\ IF f.pc = "ReleaseIdentity"
              THEN /\ q.set = "Identity"
                   /\ k = 1 /\ f.token \in Idents
                   /\ ident[f.token].index = f.index
              ELSE Live(f.index) /\ q.clone = 0 /\ q.refcount = 0

HasIdentity(t) == ident[t] # NoHandle

\* A token's handle decodes for as long as the token exists: nobody but
\* DestroyIdentity releases it, and no two tokens share a slot.
IdentitiesOK ==
  /\ \A t \in Tokens : HasIdentity(t) =>
       /\ t \in tokens
       /\ ident[t].index \in 1..m_HandleTail
       /\ m_Handles[ident[t].index].serial = ident[t].serial
       /\ m_Handles[ident[t].index].set = IF t = Root THEN "Used" ELSE "Identity"
  /\ \A t, u \in Tokens : HasIdentity(t) /\ ident[t].index = ident[u].index => t = u
  /\ HasIdentity(Root) /\ HasIdentity(Core)

\* Every handle's owner is an allocated token with an identity handle, so
\* UnlinkHandleFromOwner never takes its error path; a closed master that
\* lives on for its clones belongs to nobody.
OwnersAlive ==
  \A i \in Slots : InUse(i) =>
    LET o == m_Handles[i].owner IN
    /\ o # NULL => o \in tokens /\ HasIdentity(o)
    /\ m_Handles[i].set = "Identity" <=> o = Root
    /\ m_Handles[i].set = "Freed" => o = NULL

Owns(H, t, i) == i # 0 /\ H[i].set \in {"Used", "Freed"} /\ H[i].owner = t

\* The chain of owner t with sentinel d, in table H with birth order b.
ChainOK(H, b, t, d) ==
  LET head == H[d].ch_prev
      tail == H[d].ch_next
  IN  /\ head = 0 <=> tail = 0
      /\ head # 0 => Owns(H, t, head) /\ H[head].ch_prev = 0
      /\ tail # 0 => Owns(H, t, tail) /\ H[tail].ch_next = 0
      /\ \A i \in Slots : Owns(H, t, i) =>
           LET next == H[i].ch_next
               prev == H[i].ch_prev
           IN  /\ next = 0 => i = tail
               /\ next # 0 => Owns(H, t, next) /\ H[next].ch_prev = i /\ b[i] < b[next]
               /\ prev = 0 => i = head
               /\ prev # 0 => Owns(H, t, prev) /\ H[prev].ch_next = i

\* The chain of an identity runs through exactly the handles it owns, from the
\* oldest to the newest, both ways, whichever of them were closed before.
OwnerChainOK ==
  \A t \in Tokens \ {Root} :
    HasIdentity(t) => ChainOK(m_Handles, birth, t, ident[t].index)

\* The per-type count that RemoveType trusts to stop its search early.
OpenedOK ==
  \A t \in AllTypes :
    opened[t] = Cardinality({i \in Slots : InUse(i) /\ m_Handles[i].type = t})

\* The two counts kept per owner agree with the table: the sentinel's refcount
\* with the handles in the chain, num_handles (the leak warning) with the
\* handles not yet freed.
OwnerCountsOK ==
  \A t \in tokens : HasIdentity(t) =>
    /\ t # Root => m_Handles[ident[t].index].refcount =
                     1 + Cardinality({i \in Slots : Owns(m_Handles, t, i)})
    /\ num_handles[t] = Cardinality({i \in Slots :
         InUse(i) /\ m_Handles[i].owner = t /\ ~m_Handles[i].is_destroying})

\* Slots are handed out, held and released without confusion: the allocator
\* and the calls in the middle of releasing a slot agree on whose each slot is,
\* however destructors re-enter the table.
SlotsOK == TypeOK /\ FreeListOK /\ StackOK

\* Every reference is counted and leads to its object: a refcount is what the
\* open handles make it, and a clone's master is neither released nor reused.
ReferencesOK == RefCountOK /\ CloneTargetOK

\* A handle and its owner know of each other: the owner is there, and its chain
\* runs through the handle, so that DestroyIdentity will reach it.
OwnersOK == OwnersAlive /\ OwnerChainOK

\* History: a slot in use was filled by the latest creation recorded for it,
\* and the root's slot is never given out again.
IssuedOK ==
  /\ Len(issued) >= 2
  /\ ident[Root].index = 1 /\ m_Handles[1].owner = NULL /\ ~m_Handles[1].is_destroying
  /\ \A i \in Slots : birth[i] <= Len(issued) /\ m_Handles[i].clone # 1
  /\ \A n \in 2..Len(issued) : issued[n].index \in 2..m_HandleTail

\* A Handle_t kept after its slot was released and reused is refused, unless
\* MaxSerials - 1 further handles were made in between.
StaleHandleRejected ==
  \A n \in 1..Len(issued) :
    /\ GetHandle(m_Handles, m_HandleTail, issued[n], Root) = "HandleError_None"
    /\ Len(issued) - n < MaxSerials - 1
    => birth[issued[n].index] = n

\* DestroyIdentity ends, and leaves no handle of that identity behind.
IdentityReleased ==
  \A t \in Idents :
    (\E k \in 1..Len(stack) : stack[k].token = t)
      ~> (t \notin tokens /\ \A i \in Slots : InUse(i) => m_Handles[i].owner # t)

-----------------------------------------------------------------------------
\* The refinement mapping.  Handle n is open while the slot filled for it is
\* in use, not closed, and not being released; it stands for the object of
\* its master; the destructor calls are those recorded in `life'.
OpenSlot(i) == m_Handles[i].set \in {"Used", "Identity"} /\ ~m_Handles[i].is_destroying
SlotOf(n) == {i \in Slots : birth[i] = n /\ OpenSlot(i)}

Abstract == INSTANCE AbstractHandles WITH
  Made <- 1..MaxMade,
  made <- Len(issued),
  handles <- {birth[i] : i \in {j \in Slots : OpenSlot(j)}},
  object <- [n \in 1..MaxMade |->
    IF SlotOf(n) = {} THEN 0
    ELSE m_Handles[Master(m_Handles, CHOOSE i \in SlotOf(n) : TRUE)].object],
  destroyed <- {n \in 1..MaxMade : life[n] \in {"destroyed", "destroyed twice"}}

\* Every step of the table, whatever it is in the middle of, is a step the
\* clients were promised: closing the last handle destroys the object, at
\* once and only then, a clone stands for the object of what it was cloned
\* from, and nothing else opens or closes a handle.
RefinesAbstract == Abstract!ASpec
=============================================================================
