-------------------------- MODULE MenuVoting_proofs --------------------------
(***************************************************************************)
(* Proofs about MenuVoting, for any number of clients and items, any menus *)
(* and any nesting of callbacks.                                           *)
(*                                                                         *)
(* A call is only ever added on top of the stack or taken off it, so the   *)
(* invariant says of each call how it fits on those below it (FramesOK),   *)
(* and of the rest of the state how it goes with the set of calls.         *)
(***************************************************************************)
EXTENDS MenuVoting, Lists_proofs, FiniteSetTheorems

-----------------------------------------------------------------------------
(* The calls.                                                              *)

\* StartVote before the vote is started, and in its last callback.
Early(f) == f.proc = "StartVote" /\ f.pc \in {"OnMenuStart", "loop"}
Starting(f) == f.pc = "OnMenuVoteStart"

\* DoClientMenu after it has made the client ignore other menus.
Displaying(f) == f.pc \in {"render", "OnMenuDrawItem", "OnMenuDisplay"}

\* RedoClientMenu draws another page; the client is still in the menu.
Redrawing(f) == f.pc = "OnMenuRedrawItem"

Rendering(f) == f.pc \in {"render", "OnMenuDrawItem", "OnMenuDisplay", "OnMenuRedrawItem"}

\* A call that is under way while its client ignores menus.
Ignoring(f) == Rendering(f) \/ f.pc = "OnMenuRedraw" \/ f.old # NULL

\* A call that shows or ends a menu of the vote.
ForVote(f) == f.mh = "vote" /\ f.pc \notin {"done", "OnMenuRedrawItem", "OnMenuRedraw"}

\* A call that keeps its menu m from being deleted.
Anchor(f, m) == f.menu = m /\ (f.root \/ f.proc = "Cancel" \/ Early(f))

\* What a menu may be whose handler is mh.
HandledBy(m, mh) == IF mh = "vote" THEN m \in Votes ELSE m = Plain

\* The calls as they are made.
Shape(f) ==
  /\ f.proc = "StartVote" =>
       /\ f.pc \in {"OnMenuStart", "loop", "OnMenuVoteStart", "done"}
       /\ f.client = NULL /\ f.menu \in Votes /\ f.mh = "plugin" /\ f.old = NULL
       /\ f.pc \in {"OnMenuVoteStart", "done"} => f.root
  /\ f.proc = "DoClientMenu" =>
       /\ f.pc \in {"OnMenuStart", "start", "render", "OnMenuDrawItem", "OnMenuDisplay", "OnMenuCancel", "end",
                    "OnMenuEnd", "done"}
       /\ f.old = NULL
  /\ f.proc = "_CancelClientMenu" => f.pc \in {"OnMenuCancel", "end", "OnMenuEnd", "done"}
  /\ f.proc = "ClientPressedKey" =>
       /\ f.pc \in {"OnMenuSelect", "OnMenuRedrawItem", "OnMenuRedraw", "OnMenuCancel", "end", "OnMenuEnd", "done"}
       /\ f.old = NULL /\ (Redrawing(f) => f.root)
  /\ f.proc \in {"DoClientMenu", "_CancelClientMenu", "ClientPressedKey"} =>
       /\ f.client \in Clients /\ HandledBy(f.menu, f.mh)
       /\ f.pc \in {"OnMenuStart", "OnMenuEnd"} => f.mh = "plugin"
  /\ f.proc = "EndVoting" =>
       /\ f.pc \in {"OnMenuVoteEnd", "OnVotingEnd", "done"}
       /\ f.client = NULL /\ f.menu \in Votes /\ f.mh = "plugin" /\ f.old = NULL
  /\ f.proc = "Cancel" =>
       f.pc = "loop" /\ f.client = NULL /\ f.menu \in Menus /\ f.mh = "plugin" /\ ~f.root /\ f.old = NULL
  /\ f.proc = "Destroy" =>
       f.pc = "delete" /\ f.client = NULL /\ f.menu \in Menus /\ f.mh = "plugin" /\ ~f.root /\ f.old = NULL
  /\ f.proc = "Disconnect" =>
       /\ f.pc \in {"OnClientDisconnect_Post", "votes"}
       /\ f.client \in Clients /\ f.menu = NULL /\ f.mh = "plugin" /\ ~f.root /\ f.old = NULL

\* Call g may be below call f.
Pair(g, f) ==
  /\ f.proc = "Cancel" /\ g.proc = "Cancel" => f.menu # g.menu
  /\ f.proc = "Destroy" => f.menu # g.menu
  /\ f.proc = "DoClientMenu" /\ g.proc = "Cancel" => f.menu # g.menu
  /\ Early(g) => ~Early(f) /\ f.proc # "EndVoting"
  /\ Rendering(g) /\ f.client = g.client => ~Rendering(f) /\ f.old # FALSE
  /\ Redrawing(g) /\ f.proc = "Cancel" => f.menu # g.menu
  /\ Redrawing(g) /\ f.proc = "Disconnect" => f.client # g.client

\* Call f fits on the calls B.
Fits(B, f) ==
  /\ Shape(f)
  /\ f.proc = "ClientPressedKey" => B = {}
  /\ f.menu # NULL /\ f.proc # "Destroy" => \E g \in B \cup {f} : Anchor(g, f.menu)
  /\ f.old = TRUE => \E g \in B : g.client = f.client /\ Ignoring(g)
  /\ \A g \in B : Pair(g, f)

Calls(K) == {K[i] : i \in 1..Len(K)}
Below(K, i) == {K[j] : j \in 1..(i - 1)}
FramesOK(K) == \A i \in 1..Len(K) : Fits(Below(K, i), K[i])

\* The number of calls for the vote.
InCalls(K) == Cardinality({i \in 1..Len(K) : ForVote(K[i])})

-----------------------------------------------------------------------------
(* The rest of the state, with the calls.                                  *)

\* A client ignores menus only during a call for it, and while a menu is drawn
\* for it is in none, or in that one.
PlayersOK ==
  /\ \A c \in Clients : player[c].bInMenu => HandledBy(player[c].menu, player[c].mh)
  /\ \A c \in Clients : player[c].bAutoIgnore =>
       \E f \in Calls(stack) : f.client = c /\ Ignoring(f)
  /\ \A f \in Calls(stack) : Rendering(f) =>
       /\ player[f.client].bAutoIgnore /\ (player[f.client].bInMenu <=> Redrawing(f))
       /\ f.pc # "render" => player[f.client].menu = f.menu /\ player[f.client].mh = f.mh

\* Menu m is deleted, or Cancel has returned to its Destroy.
Gone(m) ==
  \/ menu[m].deleted
  \/ ~menu[m].m_bCancelling /\ \E f \in Calls(stack) : f.proc = "Destroy" /\ f.menu = m

\* Menu m will be deleted by a call under way.
Condemned(m) ==
  menu[m].m_bShouldDelete \/ \E f \in Calls(stack) : f.proc = "Destroy" /\ f.menu = m

MenusOK ==
  /\ \A m \in Menus :
       /\ menu[m].deleted \/ Condemned(m) => menu[m].closed
       /\ Condemned(m) => \A f \in Calls(stack) : f.menu = m => ~f.root
       /\ menu[m].m_bCancelling <=> \E f \in Calls(stack) : f.proc = "Cancel" /\ f.menu = m
       /\ menu[m].m_bShouldDelete =>
            /\ menu[m].deleted \/ menu[m].m_bCancelling
            /\ \A f \in Calls(stack) : f.menu = m => f.proc # "Destroy"
       /\ Gone(m) =>
            /\ m_pCurMenu # m
            /\ \A c \in Clients : ~InMenu(c, m)
            /\ \A f \in Calls(stack) : f.menu = m => f.proc = "Destroy" /\ ~menu[m].deleted
  /\ \A f \in Calls(stack) :
       /\ Early(f) => ~menu[f.menu].closed
       /\ f.proc = "Cancel" => \A c \in Clients : InMenu(c, f.menu) => Has(f.todo, c)

\* The vote counts its displays, and lasts as long as they do.
VoteOK ==
  /\ m_Clients = Cardinality({c \in Clients : InVoteMenu(c)}) + InCalls(stack)
  /\ \A c \in Clients : InVoteMenu(c) => m_pCurMenu = player[c].menu
  /\ \A f \in Calls(stack) : ForVote(f) => m_pCurMenu = f.menu
  /\ m_pCurMenu = NULL => ~m_bStarted
  /\ m_pCurMenu # NULL /\ ~m_bStarted => \E f \in Calls(stack) : Early(f)
  /\ \A f \in Calls(stack) : Early(f) => m_pCurMenu = f.menu /\ ~m_bStarted
  /\ m_bStarted /\ m_Clients = 0 => \E f \in Calls(stack) : Starting(f) /\ f.menu = m_pCurMenu

\* A call that is to show the menu of the vote to its client.
Showing(f) == f.mh = "vote" /\ f.pc \in {"start", "render", "OnMenuDrawItem", "OnMenuDisplay"}

Voted == {c \in Clients : m_ClientVotes[c] >= 0}

\* The tally, and that nobody who has voted has the menu.
CountedOK ==
  /\ VotesOK
  /\ \A c \in Clients : InVoteMenu(c) => c \notin Voted
  /\ \A f \in Calls(stack) :
       /\ Showing(f) => f.client \notin Voted
       /\ Early(f) => Voted = {}

IInv == TypeOK /\ FramesOK(stack) /\ PlayersOK /\ MenusOK /\ VoteOK /\ CountedOK

\* One StartVote is under way at most.
Starts(f) == Early(f) \/ Starting(f)
OneStarts(K) == \A i \in 1..Len(K) : Starts(K[i]) => \A g \in Below(K, i) : ~Starts(g)

\* With callbacks that start no vote in OnMenuVoteStart: a vote that is being
\* started has no timer yet.
TimersOK ==
  /\ TimerOK
  /\ \A f \in Calls(stack) : Starts(f) => ~m_displayTimer
  /\ OneStarts(stack)

\* With callbacks that do not kick the client whom a menu is being shown to: a
\* client who leaves is shown none.
LeaversOK ==
  /\ PoolOK
  /\ \A f \in Calls(stack) :
       /\ f.proc = "Disconnect" => f.client \notin inGame
       /\ f.pc = "votes" => ~player[f.client].bInMenu
       /\ Displaying(f) => f.client \in inGame
       /\ f.pc = "OnMenuDisplay" /\ f.mh = "vote" => m_ClientVotes[f.client] = VOTE_PENDING

-----------------------------------------------------------------------------
(* The stack.                                                              *)

\* A call is made.
LEMMA Push ==
  ASSUME NEW K \in Seq(Frame), NEW f \in Frame
  PROVE  /\ Append(K, f) \in Seq(Frame) /\ Append(K, f) # <<>>
         /\ Calls(Append(K, f)) = Calls(K) \cup {f}
         /\ FramesOK(K) /\ Fits(Calls(K), f) => FramesOK(Append(K, f))
         /\ OneStarts(K) /\ (Starts(f) => \A g \in Calls(K) : ~Starts(g)) => OneStarts(Append(K, f))
<1> DEFINE R == Append(K, f)
<1>1. /\ R \in Seq(Frame) /\ R # <<>> /\ Len(K) \in Nat /\ Len(R) = Len(K) + 1
      /\ \A i \in 1..Len(K) : R[i] = K[i] /\ i \in 1..Len(R)
      /\ R[Len(K) + 1] = f /\ Len(K) + 1 \in 1..Len(R)
      /\ \A i \in 1..Len(R) : i \in 1..Len(K) \/ i = Len(K) + 1
  BY PushFacts
<1> HIDE DEF R
<1>2. Calls(R) = Calls(K) \cup {f}
  BY <1>1 DEF Calls
<1>3. \A i \in 1..Len(K) : Below(R, i) = Below(K, i) /\ R[i] = K[i]
  <2> SUFFICES ASSUME NEW i \in 1..Len(K) PROVE Below(R, i) = Below(K, i)
    BY <1>1
  <2>1. \A j \in 1..(i - 1) : j \in 1..Len(K)
    BY <1>1
  <2> QED BY <1>1, <2>1 DEF Below
<1>4. Below(R, Len(K) + 1) = Calls(K) /\ R[Len(K) + 1] = f
  <2>1. 1..((Len(K) + 1) - 1) = 1..Len(K)
    BY <1>1
  <2> QED BY <1>1, <2>1 DEF Below, Calls
<1>5. FramesOK(K) /\ Fits(Calls(K), f) => FramesOK(R)
  BY <1>1, <1>3, <1>4 DEF FramesOK
<1>6. OneStarts(K) /\ (Starts(f) => \A g \in Calls(K) : ~Starts(g)) => OneStarts(R)
  BY <1>1, <1>3, <1>4 DEF OneStarts
<1> QED BY <1>1, <1>2, <1>5, <1>6 DEF R

\* A sequence is its front and its last element.
LEMMA FrontLast ==
  ASSUME NEW S, NEW K \in Seq(S), K # <<>>
  PROVE  K = Append(Front(K), Last(K)) /\ Front(K) \in Seq(S) /\ Last(K) \in S
<1>1. /\ Front(K) \in Seq(S) /\ Len(K) \in Nat \ {0} /\ Len(Front(K)) = Len(K) - 1
      /\ \A i \in 1..(Len(K) - 1) : Front(K)[i] = K[i]
      /\ Last(K) \in S
  BY FrontList
<1>2. /\ Append(Front(K), Last(K)) \in Seq(S) /\ Len(Append(Front(K), Last(K))) = Len(K)
      /\ \A i \in 1..(Len(K) - 1) : Append(Front(K), Last(K))[i] = Front(K)[i]
      /\ Append(Front(K), Last(K))[Len(K)] = Last(K)
  <2>1. (Len(K) - 1) + 1 = Len(K)
    BY <1>1
  <2> QED BY <1>1, <2>1, PushFacts
<1>3. \A i \in 1..Len(K) : Append(Front(K), Last(K))[i] = K[i]
  <2> SUFFICES ASSUME NEW i \in 1..Len(K) PROVE Append(Front(K), Last(K))[i] = K[i]
    OBVIOUS
  <2>1. CASE i = Len(K)
    BY <1>2, <2>1 DEF Last
  <2>2. CASE i # Len(K)
    <3>1. i \in 1..(Len(K) - 1)
      BY <1>1, <2>2
    <3> QED BY <1>1, <1>2, <3>1
  <2> QED BY <2>1, <2>2
<1>4. Append(Front(K), Last(K)) = K
  <2> DEFINE R == Append(Front(K), Last(K))
  <2>1. R \in Seq(S) /\ Len(R) = Len(K) /\ \A i \in 1..Len(K) : R[i] = K[i]
    BY <1>2, <1>3
  <2> HIDE DEF R
  <2>2. R = K
    BY <2>1
  <2> QED BY <2>2 DEF R
<1> QED BY <1>1, <1>4

\* The call on top, and those below it.
LEMMA Pop ==
  ASSUME NEW K \in Seq(Frame), K # <<>>
  PROVE  /\ Front(K) \in Seq(Frame) /\ Last(K) \in Frame
         /\ Calls(K) = Calls(Front(K)) \cup {Last(K)}
         /\ FramesOK(K) => FramesOK(Front(K)) /\ Fits(Calls(Front(K)), Last(K))
         /\ OneStarts(K) =>
              OneStarts(Front(K)) /\ (Starts(Last(K)) => \A g \in Calls(Front(K)) : ~Starts(g))
<1> DEFINE R == Front(K)
<1>1. /\ R \in Seq(Frame) /\ Len(K) \in Nat \ {0} /\ Len(R) = Len(K) - 1
      /\ \A i \in 1..(Len(K) - 1) : R[i] = K[i]
      /\ Last(K) \in Frame
  BY FrontList
<1> HIDE DEF R
<1>2. \A i \in 1..Len(R) : i \in 1..Len(K) /\ R[i] = K[i]
  BY <1>1
<1>3. \A i \in 1..Len(K) : i \in 1..Len(R) \/ i = Len(K)
  BY <1>1
<1>4. Len(K) \in 1..Len(K) /\ K[Len(K)] = Last(K)
  BY <1>1 DEF Last
<1>5. Calls(K) = Calls(R) \cup {Last(K)}
  BY <1>2, <1>3, <1>4 DEF Calls
<1>6. \A i \in 1..Len(R) : Below(R, i) = Below(K, i)
  <2> SUFFICES ASSUME NEW i \in 1..Len(R) PROVE Below(R, i) = Below(K, i)
    OBVIOUS
  <2>1. \A j \in 1..(i - 1) : j \in 1..Len(R)
    BY <1>1
  <2> QED BY <1>2, <2>1 DEF Below
<1>7. Below(K, Len(K)) = Calls(R)
  BY <1>1, <1>2 DEF Below, Calls
<1>8. FramesOK(K) => FramesOK(R) /\ Fits(Calls(R), Last(K))
  BY <1>2, <1>4, <1>6, <1>7 DEF FramesOK
<1>9. OneStarts(K) => OneStarts(R) /\ (Starts(Last(K)) => \A g \in Calls(R) : ~Starts(g))
  BY <1>2, <1>4, <1>6, <1>7 DEF OneStarts
<1> QED BY <1>1, <1>5, <1>8, <1>9 DEF R

\* The call on top is changed.
LEMMA SetTop ==
  ASSUME NEW K \in Seq(Frame), K # <<>>, NEW f \in Frame
  PROVE  [K EXCEPT ![Len(K)] = f] = Append(Front(K), f)
<1> DEFINE R == [K EXCEPT ![Len(K)] = f]
           A == Append(Front(K), f)
<1>1. /\ R \in Seq(Frame) /\ Len(R) = Len(K) /\ R[Len(K)] = f
      /\ \A i \in 1..Len(K) : i # Len(K) => R[i] = K[i]
  BY SetTopFacts
<1>2. /\ Front(K) \in Seq(Frame) /\ Len(K) \in Nat \ {0} /\ Len(Front(K)) = Len(K) - 1
      /\ \A i \in 1..(Len(K) - 1) : Front(K)[i] = K[i]
  BY FrontList
<1>3. A \in Seq(Frame) /\ Len(A) = Len(K) /\ A[Len(K)] = f /\ \A i \in 1..(Len(K) - 1) : A[i] = K[i]
  <2>1. (Len(K) - 1) + 1 = Len(K)
    BY <1>2
  <2>2. /\ A \in Seq(Frame) /\ Len(A) = Len(Front(K)) + 1 /\ A[Len(Front(K)) + 1] = f
        /\ \A i \in 1..Len(Front(K)) : A[i] = Front(K)[i]
    BY <1>2, PushFacts
  <2> QED BY <1>2, <2>1, <2>2
<1> HIDE DEF R, A
<1>4. \A i \in 1..Len(K) : R[i] = A[i]
  <2> SUFFICES ASSUME NEW i \in 1..Len(K) PROVE R[i] = A[i]
    OBVIOUS
  <2>1. CASE i = Len(K)
    BY <1>1, <1>3, <2>1
  <2>2. CASE i # Len(K)
    BY <1>1, <1>2, <1>3, <2>2
  <2> QED BY <2>1, <2>2
<1>5. R = A
  BY <1>1, <1>3, <1>4
<1> QED BY <1>5 DEF R, A

LEMMA AtTop ==
  ASSUME NEW K \in Seq(Frame), K # <<>>, NEW pc, [Last(K) EXCEPT !.pc = pc] \in Frame
  PROVE  At(K, pc) = Append(Front(K), [Last(K) EXCEPT !.pc = pc])
<1>1. At(K, pc) = [K EXCEPT ![Len(K)] = [Last(K) EXCEPT !.pc = pc]]
  BY DEF At, Last
<1> QED BY <1>1, SetTop

\* Calls after calls.
LEMMA Joined ==
  ASSUME NEW K \in Seq(Frame), NEW f \in Frame, NEW g \in Frame
  PROVE  /\ K \o <<>> = K
         /\ K \o <<f>> = Append(K, f)
         /\ K \o <<f, g>> = Append(Append(K, f), g)
  OBVIOUS

\* The calls for the vote are counted.
LEMMA CountType ==
  ASSUME NEW K \in Seq(Frame)
  PROVE  InCalls(K) \in Nat
<1> DEFINE V == {i \in 1..Len(K) : ForVote(K[i])}
<1>1. IsFiniteSet(1..Len(K))
  <2>1. Len(K) \in Nat
    OBVIOUS
  <2> QED BY <2>1, FS_Interval
<1>2. V \subseteq 1..Len(K)
  OBVIOUS
<1>3. IsFiniteSet(V)
  BY <1>1, <1>2, FS_Subset
<1>4. Cardinality(V) \in Nat
  BY <1>3, FS_CardinalityType
<1> QED BY <1>4 DEF InCalls

LEMMA CountPush ==
  ASSUME NEW K \in Seq(Frame), NEW f \in Frame
  PROVE  /\ InCalls(K) \in Nat
         /\ InCalls(Append(K, f)) = IF ForVote(f) THEN InCalls(K) + 1 ELSE InCalls(K)
         /\ InCalls(K) = 0 <=> \A g \in Calls(K) : ~ForVote(g)
<1> DEFINE R == Append(K, f)
           V == {i \in 1..Len(K) : ForVote(K[i])}
           W == {i \in 1..Len(R) : ForVote(R[i])}
<1>1. /\ Len(K) \in Nat /\ Len(R) = Len(K) + 1
      /\ \A i \in 1..Len(K) : R[i] = K[i] /\ i \in 1..Len(R)
      /\ R[Len(K) + 1] = f /\ Len(K) + 1 \in 1..Len(R)
      /\ \A i \in 1..Len(R) : i \in 1..Len(K) \/ i = Len(K) + 1
  BY PushFacts
<1>2. IsFiniteSet(V) /\ Cardinality(V) \in Nat
  <2>1. IsFiniteSet(1..Len(K))
    BY <1>1, FS_Interval
  <2>2. V \subseteq 1..Len(K)
    OBVIOUS
  <2>3. IsFiniteSet(V)
    BY <2>1, <2>2, FS_Subset
  <2> QED BY <2>3, FS_CardinalityType
<1> HIDE DEF R
<1>3. Len(K) + 1 \notin V
  BY <1>1
<1>4. W = IF ForVote(f) THEN V \cup {Len(K) + 1} ELSE V
  BY <1>1
<1>5. Cardinality(V \cup {Len(K) + 1}) = Cardinality(V) + 1
  BY <1>2, <1>3, FS_AddElement
<1>6. Cardinality(V) = 0 <=> V = {}
  BY <1>2, FS_EmptySet
<1>7. V = {} <=> \A g \in Calls(K) : ~ForVote(g)
  BY DEF Calls
<1>8. InCalls(K) = Cardinality(V) /\ InCalls(R) = Cardinality(W)
  BY DEF InCalls
<1> HIDE DEF V, W
<1> QED BY <1>2, <1>4, <1>5, <1>6, <1>7, <1>8 DEF R

LEMMA CountPop ==
  ASSUME NEW K \in Seq(Frame), K # <<>>
  PROVE  /\ InCalls(Front(K)) \in Nat
         /\ InCalls(K) = IF ForVote(Last(K)) THEN InCalls(Front(K)) + 1 ELSE InCalls(Front(K))
         /\ InCalls(Front(K)) = 0 <=> \A g \in Calls(Front(K)) : ~ForVote(g)
<1>1. K = Append(Front(K), Last(K)) /\ Front(K) \in Seq(Frame) /\ Last(K) \in Frame
  BY FrontLast
<1>2. /\ InCalls(Front(K)) \in Nat
      /\ InCalls(Append(Front(K), Last(K))) =
           IF ForVote(Last(K)) THEN InCalls(Front(K)) + 1 ELSE InCalls(Front(K))
      /\ InCalls(Front(K)) = 0 <=> \A g \in Calls(Front(K)) : ~ForVote(g)
  BY <1>1, CountPush
<1> QED BY <1>1, <1>2

\* Clients are counted.
LEMMA CountClients ==
  ASSUME NEW A, A \subseteq Clients
  PROVE  /\ IsFiniteSet(A) /\ Cardinality(A) \in Nat
         /\ Cardinality(A) = 0 <=> A = {}
         /\ \A c \in Clients : Cardinality(A \cup {c}) = IF c \in A THEN Cardinality(A) ELSE Cardinality(A) + 1
         /\ \A c \in Clients : Cardinality(A \ {c}) = IF c \in A THEN Cardinality(A) - 1 ELSE Cardinality(A)
<1>1. IsFiniteSet(Clients)
  BY FS_Interval, VotingAssumption DEF Clients
<1>2. IsFiniteSet(A)
  BY <1>1, FS_Subset
<1> QED BY <1>2, FS_CardinalityType, FS_EmptySet, FS_AddElement, FS_RemoveElement

-----------------------------------------------------------------------------
(* Steps that leave a part of the invariant alone.                         *)

\* Call f stands where call g stood, as far as menus are concerned.
Like(f, g) ==
  /\ f.proc = g.proc /\ f.menu = g.menu /\ f.root = g.root
  /\ Early(f) <=> Early(g)

\* A new call f is for a menu that is there.
Harmless(f) ==
  /\ f.proc \notin {"Cancel", "Destroy"} /\ ~Early(f)
  /\ f.menu # NULL => f.menu \in Menus /\ ~Gone(f.menu) /\ (f.root => ~menu[f.menu].closed)

LEMMA MenusKept ==
  ASSUME MenusOK, menu' = menu, m_pCurMenu' \in {m_pCurMenu, NULL},
         \A c \in Clients, m \in Menus : InMenu(c, m)' => InMenu(c, m) \/ ~Gone(m),
         \A f \in Calls(stack)' : Harmless(f) \/ \E g \in Calls(stack) : Like(f, g),
         \A g \in Calls(stack) : g.proc \in {"Cancel", "Destroy"} =>
           \E f \in Calls(stack)' : f.proc = g.proc /\ f.menu = g.menu,
         \A f \in Calls(stack)' : f.proc = "Cancel" => \A c \in Clients : InMenu(c, f.menu)' => Has(f.todo, c)
  PROVE  MenusOK'
<1> DEFINE F == Calls(stack)
           G == Calls(stack)'
<1>0. NULL \notin Menus
  BY VotingAssumption DEF Menus
<1>1. \A m \in Menus : (\E f \in G : f.proc = "Destroy" /\ f.menu = m) <=> \E f \in F : f.proc = "Destroy" /\ f.menu = m
  BY DEF Harmless, Like
<1>2. \A m \in Menus : (\E f \in G : f.proc = "Cancel" /\ f.menu = m) <=> \E f \in F : f.proc = "Cancel" /\ f.menu = m
  BY DEF Harmless, Like
<1>3. \A m \in Menus : (Gone(m)' <=> Gone(m)) /\ (Condemned(m)' <=> Condemned(m))
  BY <1>1 DEF Gone, Condemned
<1>4. ASSUME NEW m \in Menus
      PROVE  /\ menu[m].deleted \/ Condemned(m)' => menu[m].closed
             /\ Condemned(m)' => \A f \in G : f.menu = m => ~f.root
             /\ menu[m].m_bCancelling <=> \E f \in G : f.proc = "Cancel" /\ f.menu = m
             /\ menu[m].m_bShouldDelete =>
                  /\ menu[m].deleted \/ menu[m].m_bCancelling
                  /\ \A f \in G : f.menu = m => f.proc # "Destroy"
             /\ Gone(m)' =>
                  /\ m_pCurMenu' # m
                  /\ \A c \in Clients : ~InMenu(c, m)'
                  /\ \A f \in G : f.menu = m => f.proc = "Destroy" /\ ~menu[m].deleted
  <2>1. /\ menu[m].deleted \/ Condemned(m) => menu[m].closed
        /\ Condemned(m) => \A f \in F : f.menu = m => ~f.root
        /\ menu[m].m_bCancelling <=> \E f \in F : f.proc = "Cancel" /\ f.menu = m
        /\ menu[m].m_bShouldDelete =>
             /\ menu[m].deleted \/ menu[m].m_bCancelling
             /\ \A f \in F : f.menu = m => f.proc # "Destroy"
        /\ Gone(m) =>
             /\ m_pCurMenu # m
             /\ \A c \in Clients : ~InMenu(c, m)
             /\ \A f \in F : f.menu = m => f.proc = "Destroy" /\ ~menu[m].deleted
    BY <1>4 DEF MenusOK
  <2>2. Condemned(m) => \A f \in G : f.menu = m => ~f.root
    BY <1>0, <2>1, <1>4 DEF Harmless, Like
  <2>3. (\A f \in F : f.menu = m => f.proc # "Destroy") => \A f \in G : f.menu = m => f.proc # "Destroy"
    BY <1>1, <1>4
  <2>4. Gone(m) => \A f \in G : f.menu = m => f.proc = "Destroy" /\ ~menu[m].deleted
    BY <1>0, <2>1, <1>4 DEF Harmless, Like
  <2>5. Gone(m) => m_pCurMenu' # m /\ \A c \in Clients : ~InMenu(c, m)'
    BY <1>0, <2>1, <1>4
  <2> QED BY <1>2, <1>3, <1>4, <2>1, <2>2, <2>3, <2>4, <2>5
<1>5. ASSUME NEW f \in G
      PROVE  /\ Early(f) => ~menu[f.menu].closed
             /\ f.proc = "Cancel" => \A c \in Clients : InMenu(c, f.menu)' => Has(f.todo, c)
  <2>1. CASE Harmless(f)
    BY <2>1 DEF Harmless
  <2>2. CASE \E g \in F : Like(f, g)
    <3>1. PICK g \in F : Like(f, g)
      BY <2>2
    <3>2. Early(g) => ~menu[g.menu].closed
      BY DEF MenusOK
    <3> QED BY <3>1, <3>2 DEF Like
  <2> QED BY <2>1, <2>2
<1> HIDE DEF F, G
<1>6. Calls(stack)' = G
  BY DEF G
<1> QED BY <1>4, <1>5, <1>6 DEF MenusOK

\* Nobody's menu changes, calls for which clients ignore menus go on, and none
\* is new that draws.
LEMMA PlayersSame ==
  ASSUME PlayersOK, player' = player,
         \A g \in Calls(stack) : Ignoring(g) => \E f \in Calls(stack)' : f.client = g.client /\ Ignoring(f),
         \A f \in Calls(stack)' : Rendering(f) => f \in Calls(stack)
  PROVE  PlayersOK'
  BY DEF PlayersOK

\* No other page of its menu is being drawn for client c.
NotPaging(c) == \A f \in Calls(stack) : Redrawing(f) => f.client # c

\* The menu of a client is cancelled.
LEMMA PlayersCancel ==
  ASSUME PlayersOK, player \in [Clients -> CBaseMenuPlayer],
         NEW c \in Clients, NEW b \in BOOLEAN, player[c].bInMenu, player' = Cancelled(c, b), NotPaging(c),
         \A g \in Calls(stack) : Ignoring(g) => \E f \in Calls(stack)' : f.client = g.client /\ Ignoring(f),
         \A f \in Calls(stack)' : Rendering(f) => f \in Calls(stack),
         b => \E f \in Calls(stack)' : f.client = c /\ Ignoring(f),
         \A f \in Calls(stack) : Rendering(f) => f.client \in Clients
  PROVE  PlayersOK'
<1>1. \A d \in Clients :
        /\ player'[d].menu = player[d].menu /\ player'[d].mh = player[d].mh
        /\ player'[d].bInMenu <=> player[d].bInMenu /\ d # c
        /\ player'[d].bAutoIgnore <=> player[d].bAutoIgnore \/ (d = c /\ b)
  BY DEF Cancelled, CBaseMenuPlayer
<1>2. ASSUME NEW d \in Clients, player'[d].bInMenu PROVE HandledBy(player'[d].menu, player'[d].mh)
  BY <1>1, <1>2 DEF PlayersOK
<1>3. ASSUME NEW d \in Clients, player'[d].bAutoIgnore
      PROVE  \E f \in Calls(stack)' : f.client = d /\ Ignoring(f)
  BY <1>1, <1>3 DEF PlayersOK
<1>4. ASSUME NEW f \in Calls(stack)', Rendering(f)
      PROVE  /\ player'[f.client].bAutoIgnore /\ (player'[f.client].bInMenu <=> Redrawing(f))
             /\ f.pc # "render" => player'[f.client].menu = f.menu /\ player'[f.client].mh = f.mh
  <2>1. f \in Calls(stack) /\ f.client \in Clients /\ (Redrawing(f) => f.client # c)
    BY <1>4 DEF NotPaging
  <2> QED BY <1>1, <1>4, <2>1 DEF PlayersOK
<1> QED BY <1>2, <1>3, <1>4 DEF PlayersOK

\* The vote stays, with its displays counted again.
LEMMA VoteKept ==
  ASSUME VoteOK, UNCHANGED <<m_pCurMenu, m_bStarted>>,
         (m_Clients = Cardinality({c \in Clients : InVoteMenu(c)}) + InCalls(stack))',
         m_bStarted /\ m_Clients' = 0 => m_Clients = 0,
         \A c \in Clients : InVoteMenu(c)' => m_pCurMenu = player'[c].menu,
         \A f \in Calls(stack)' : ForVote(f) => m_pCurMenu = f.menu,
         \A f \in Calls(stack) : Early(f) => \E g \in Calls(stack)' : Early(g),
         m_bStarted /\ m_Clients = 0 =>
           \A f \in Calls(stack) : Starting(f) => \E g \in Calls(stack)' : Starting(g) /\ g.menu = f.menu,
         \A f \in Calls(stack)' : Early(f) => \E g \in Calls(stack) : Early(g) /\ g.menu = f.menu
  PROVE  VoteOK'
<1>1. m_pCurMenu # NULL /\ ~m_bStarted => \E f \in Calls(stack)' : Early(f)
  BY DEF VoteOK, Starts
<1>2. \A f \in Calls(stack)' : Early(f) => m_pCurMenu = f.menu /\ ~m_bStarted
  BY DEF VoteOK
<1>3. m_bStarted /\ m_Clients' = 0 => \E f \in Calls(stack)' : Starting(f) /\ f.menu = m_pCurMenu
  BY DEF VoteOK, Starts
<1>4. m_pCurMenu = NULL => ~m_bStarted
  BY DEF VoteOK
<1> QED BY <1>1, <1>2, <1>3, <1>4 DEF VoteOK

\* Nobody votes, and who has voted is shown no menu of the vote.
LEMMA CountedKept ==
  ASSUME CountedOK, UNCHANGED <<m_Votes, m_NumVotes>>, m_pCurMenu' \in {m_pCurMenu, NULL},
         \A c \in Clients : m_ClientVotes[c] \in Int /\ m_ClientVotes'[c] \in Int,
         \A c \in Clients : m_ClientVotes'[c] = m_ClientVotes[c] \/ (m_ClientVotes[c] < 0 /\ m_ClientVotes'[c] < 0),
         \A c \in Clients : InVoteMenu(c)' => InVoteMenu(c) \/ c \notin Voted,
         \A f \in Calls(stack)' : Showing(f) => f.client \notin Voted,
         \A f \in Calls(stack)' : Early(f) => \E g \in Calls(stack) : Early(g)
  PROVE  CountedOK'
<1>1. Voted' = Voted
  BY DEF Voted
<1>2. \A i \in Items : {c \in Clients : m_ClientVotes'[c] = i} = {c \in Clients : m_ClientVotes[c] = i}
  BY VotingAssumption DEF Items
<1>3. IsVoteInProgress' => IsVoteInProgress
  BY DEF IsVoteInProgress
<1>4. VotesOK'
  BY <1>1, <1>2, <1>3 DEF VotesOK, CountedOK, Voted
<1> QED BY <1>1, <1>4 DEF CountedOK

-----------------------------------------------------------------------------
(* Calls that are made, changed and ended.                                 *)

\* A call, by its parts.
LEMMA FrameOf ==
  ASSUME NEW proc \in {"StartVote", "DoClientMenu", "_CancelClientMenu", "ClientPressedKey", "EndVoting",
                      "Cancel", "Destroy", "Disconnect"},
         NEW pc \in Callbacks \cup {"loop", "start", "render", "end", "done", "delete", "listeners", "votes"},
         NEW c \in Clients \cup {NULL}, NEW m \in Menus \cup {NULL}, NEW mh \in {"vote", "plugin"},
         NEW root \in BOOLEAN, NEW old \in BOOLEAN \cup {NULL}, NEW todo \in Seq(Clients)
  PROVE  [ proc |-> proc, pc |-> pc, client |-> c, menu |-> m, mh |-> mh, root |-> root,
           old |-> old, todo |-> todo ] \in Frame
  BY DEF Frame

LEMMA AllShapes ==
  ASSUME NEW K \in Seq(Frame), FramesOK(K)
  PROVE  \A f \in Calls(K) : Shape(f) /\ f \in Frame
  BY DEF FramesOK, Fits, Calls

\* The innermost call and those that wait for it.
LEMMA TopView ==
  ASSUME IInv, stack # <<>>
  PROVE  /\ Caller \in Seq(Frame) /\ Top \in Frame /\ Calls(stack) = Calls(Caller) \cup {Top}
         /\ FramesOK(Caller) /\ Fits(Calls(Caller), Top)
         /\ \A f \in Calls(stack) : Shape(f) /\ f \in Frame
         /\ InCalls(Caller) \in Nat
         /\ InCalls(stack) = IF ForVote(Top) THEN InCalls(Caller) + 1 ELSE InCalls(Caller)
         /\ InCalls(Caller) = 0 <=> \A g \in Calls(Caller) : ~ForVote(g)
<1>1. stack \in Seq(Frame) /\ FramesOK(stack)
  BY DEF IInv, TypeOK
<1>2. \A f \in Calls(stack) : Shape(f) /\ f \in Frame
  BY <1>1, AllShapes
<1> QED BY <1>1, <1>2, Pop, CountPop DEF Top, Caller

\* A call goes on: it is the same call.
Same(f, g) ==
  /\ f.proc = g.proc /\ f.client = g.client /\ f.menu = g.menu /\ f.mh = g.mh /\ f.root = g.root /\ f.old = g.old

LEMMA Refit ==
  ASSUME NEW B, NEW t, NEW f, Fits(B, t), Same(f, t), Shape(f),
         Early(f) <=> Early(t), Rendering(f) => Rendering(t)
  PROVE  Fits(B, f)
<1>1. f.menu # NULL /\ f.proc # "Destroy" => \E g \in B \cup {f} : Anchor(g, f.menu)
  BY DEF Fits, Same, Anchor
<1>2. \A g \in B : Pair(g, f)
  BY DEF Fits, Same, Pair
<1> QED BY <1>1, <1>2 DEF Fits, Same

\* The innermost call goes on.
LEMMA GoesOn ==
  ASSUME IInv, stack # <<>>, NEW f \in Frame, Same(f, Top), Shape(f),
         Early(f) <=> Early(Top), Rendering(f) => Rendering(Top)
  PROVE  /\ Append(Caller, f) \in Seq(Frame) /\ Append(Caller, f) # <<>> /\ FramesOK(Append(Caller, f))
         /\ Calls(Append(Caller, f)) = Calls(Caller) \cup {f}
         /\ InCalls(Append(Caller, f)) = IF ForVote(f) THEN InCalls(Caller) + 1 ELSE InCalls(Caller)
<1>1. Caller \in Seq(Frame) /\ FramesOK(Caller) /\ Fits(Calls(Caller), Top)
  BY TopView
<1>2. Fits(Calls(Caller), f)
  BY <1>1, Refit
<1> QED BY <1>1, <1>2, Push, CountPush

\* It goes on at pc.
LEMMA AtPc ==
  ASSUME IInv, stack # <<>>, NEW f, f = [Top EXCEPT !.pc = f.pc],
         f.pc \in {"loop", "start", "render", "end", "done", "votes", "OnVotingEnd", "OnMenuCancel", "OnMenuEnd",
                  "OnMenuDrawItem", "OnMenuDisplay", "OnMenuRedraw"}
  PROVE  /\ f \in Frame /\ Same(f, Top) /\ f.todo = Top.todo /\ Shape(Top) /\ Top \in Frame
         /\ f.proc = Top.proc /\ f.client = Top.client /\ f.menu = Top.menu /\ f.mh = Top.mh /\ f.root = Top.root
         /\ f.old = Top.old
         /\ At(stack, f.pc) = Append(Caller, f)
<1>1. Top \in Frame /\ Shape(Top) /\ stack \in Seq(Frame)
  BY TopView DEF Fits, IInv, TypeOK
<1>2. f.pc \in Callbacks \cup {"loop", "start", "render", "end", "done", "delete", "listeners", "votes"}
  BY DEF Callbacks
<1>3. /\ f \in Frame /\ f.proc = Top.proc /\ f.client = Top.client /\ f.menu = Top.menu /\ f.mh = Top.mh
      /\ f.root = Top.root /\ f.old = Top.old /\ f.todo = Top.todo
  BY <1>1, <1>2 DEF Frame
<1>4. At(stack, f.pc) = Append(Caller, f)
  BY <1>1, <1>3, AtTop DEF Top, Caller
<1> QED BY <1>1, <1>3, <1>4 DEF Same

\* A menu that is closed and not gone is kept by some call.
LEMMA Anchored ==
  ASSUME IInv, NEW m \in Menus, ~Gone(m), ~Doomed(m), menu[m].closed
  PROVE  \E g \in Calls(stack) : Anchor(g, m)
<1>1. ~menu[m].deleted
  BY DEF Gone
<1>2. DOMAIN stack = 1..Len(stack)
  BY DEF IInv, TypeOK
<1>3. CASE menu[m].m_bShouldDelete
  <2>1. menu[m].m_bCancelling
    BY <1>1, <1>3 DEF IInv, MenusOK
  <2> QED BY <2>1 DEF IInv, MenusOK, Anchor
<1>4. CASE Rooted(m)
  BY <1>2, <1>4 DEF Rooted, Calls, Anchor
<1>5. CASE \E i \in DOMAIN stack : stack[i].proc = "Destroy" /\ stack[i].menu = m
  <2>1. \E f \in Calls(stack) : f.proc = "Destroy" /\ f.menu = m
    BY <1>2, <1>5 DEF Calls
  <2>2. menu[m].m_bCancelling
    BY <2>1 DEF Gone
  <2> QED BY <2>2 DEF IInv, MenusOK, Anchor
<1> QED BY <1>1, <1>3, <1>4, <1>5 DEF Doomed

\* The menu of the vote, a menu that is shown and one that is not closed are
\* there.
LEMMA NotGone ==
  ASSUME IInv
  PROVE  /\ m_pCurMenu # NULL => m_pCurMenu \in Votes /\ m_pCurMenu \in Menus /\ ~Gone(m_pCurMenu)
         /\ \A c \in Clients : player[c].bInMenu => player[c].menu \in Menus /\ ~Gone(player[c].menu)
         /\ \A m \in Menus : ~menu[m].closed => ~Gone(m)
<1>1. \A m \in Menus : Gone(m) => m_pCurMenu # m /\ (\A c \in Clients : ~InMenu(c, m)) /\ menu[m].closed
  BY DEF IInv, MenusOK, Gone, Condemned
<1>2. m_pCurMenu # NULL => m_pCurMenu \in Votes
  BY DEF IInv, TypeOK
<1>3. \A c \in Clients : player[c].bInMenu => player[c].menu \in Menus
  BY DEF IInv, PlayersOK, HandledBy, Menus
<1> QED BY <1>1, <1>2, <1>3 DEF InMenu, Menus

\* A display of menu m is begun on the calls B.
LEMMA DisplayFits ==
  ASSUME IInv, \A n \in Menus : ~Doomed(n), NEW c \in Clients, NEW m \in Menus, NEW mh \in {"vote", "plugin"},
         NEW B, HandledBy(m, mh), ~Gone(m), ~menu[m].m_bCancelling,
         \A g \in B : g.proc = "Cancel" => \E h \in Calls(stack) : h.proc = "Cancel" /\ h.menu = g.menu,
         \A g \in Calls(stack) : Anchor(g, m) => \E h \in B : Anchor(h, m),
         NEW f, f = Rooting(Call("DoClientMenu", IF mh = "vote" THEN "start" ELSE "OnMenuStart", c, m, mh))
  PROVE  /\ f \in Frame /\ Fits(B, f) /\ Harmless(f) /\ ~Rendering(f) /\ f.old = NULL /\ ~Starts(f) /\ f.client = c
         /\ (ForVote(f) <=> mh = "vote") /\ (ForVote(f) => f.menu = m) /\ (Showing(f) => mh = "vote")
         /\ f.proc = "DoClientMenu" /\ f.pc \in {"start", "OnMenuStart"} /\ f.menu = m /\ f.mh = mh
<1>0. NULL \notin Menus /\ NULL \notin BOOLEAN /\ menu[m].closed \in BOOLEAN
  BY VotingAssumption DEF Menus, IInv, TypeOK, CBaseMenu
<1>1. f = [ proc |-> "DoClientMenu", pc |-> IF mh = "vote" THEN "start" ELSE "OnMenuStart", client |-> c,
            menu |-> m, mh |-> mh, root |-> ~menu[m].closed, old |-> NULL, todo |-> <<>> ]
  BY DEF Rooting, Call
<1>a. /\ f.proc = "DoClientMenu" /\ f.pc \in {"start", "OnMenuStart"} /\ f.client = c /\ f.menu = m /\ f.mh = mh
      /\ f.old = NULL /\ (f.pc = "OnMenuStart" => mh = "plugin") /\ (mh = "vote" => f.pc = "start")
  BY <1>1
<1>b. f.root = ~menu[m].closed
  BY <1>1
<1>c. f.root <=> ~menu[m].closed
  BY <1>0, <1>b
<1>2. f \in Frame
  <2>1. (~menu[m].closed) \in BOOLEAN /\ <<>> \in Seq(Clients)
    BY <1>0
  <2> DEFINE r == ~menu[m].closed
             p == IF mh = "vote" THEN "start" ELSE "OnMenuStart"
  <2>2. /\ r \in BOOLEAN /\ p \in {"start", "OnMenuStart"}
        /\ f = [ proc |-> "DoClientMenu", pc |-> p,
                 client |-> c, menu |-> m, mh |-> mh, root |-> r, old |-> NULL, todo |-> <<>> ]
    BY <1>1, <2>1
  <2>3. c \in Clients /\ m \in Menus /\ mh \in {"vote", "plugin"}
    OBVIOUS
  <2>4. p \in Callbacks \cup {"loop", "start", "render", "end", "done", "delete", "listeners", "votes"}
    BY <2>2 DEF Callbacks
  <2> HIDE DEF r, p
  <2>5. <<>> \in Seq(Clients) /\ NULL \in BOOLEAN \cup {NULL} /\ r \in BOOLEAN
    BY <2>1, <2>2
  <2>6. [ proc |-> "DoClientMenu", pc |-> p,
                 client |-> c, menu |-> m, mh |-> mh, root |-> r, old |-> NULL, todo |-> <<>> ] \in Frame
    BY <2>3, <2>4, <2>5, FrameOf
  <2>7. f = [ proc |-> "DoClientMenu", pc |-> p,
                 client |-> c, menu |-> m, mh |-> mh, root |-> r, old |-> NULL, todo |-> <<>> ]
    BY <2>2
  <2> QED BY <2>6, <2>7
<1>3. Harmless(f) /\ ~Rendering(f) /\ ~Early(f)
  BY <1>a, <1>c DEF Harmless, Rendering, Early
<1>4. (ForVote(f) <=> mh = "vote") /\ (ForVote(f) => f.menu = m) /\ (Showing(f) => mh = "vote")
  BY <1>a DEF ForVote, Showing
<1>5. Shape(f)
  BY <1>a DEF Shape
<1>6. \E g \in B \cup {f} : Anchor(g, f.menu)
  <2>1. CASE menu[m].closed
    BY <1>a, <2>1, Anchored
  <2>2. CASE ~menu[m].closed
    BY <1>a, <1>c, <2>2 DEF Anchor
  <2> QED BY <2>1, <2>2
<1>7. \A h \in Calls(stack) : h.proc = "Cancel" => h.menu # m
  BY DEF IInv, MenusOK
<1>8. \A g \in B : Pair(g, f)
  BY <1>0, <1>a, <1>3, <1>7 DEF Pair
<1>9. Fits(B, f)
  BY <1>0, <1>a, <1>5, <1>6, <1>8 DEF Fits
<1> QED BY <1>a, <1>2, <1>3, <1>4, <1>9 DEF Starting, Starts

\* Call f cancels the menu that client c sees, and roots it if that is possible.
Cancels(f, c) ==
  /\ f \in Frame /\ f.proc = "_CancelClientMenu" /\ f.pc = "OnMenuCancel" /\ f.client = c
  /\ f.menu = player[c].menu /\ f.mh = player[c].mh
  /\ f.root <=> ~menu[player[c].menu].closed

\* What it puts back: bAutoIgnore, or nothing.
PutsBack(f, c, b) == f.old = IF b THEN player[c].bAutoIgnore ELSE NULL

\* It puts back what the calls B make of bAutoIgnore.
PutsBackFor(f, B) ==
  /\ \A g \in B : Rendering(g) /\ g.client = f.client => f.old # FALSE
  /\ f.old = TRUE => \E g \in B : g.client = f.client /\ Ignoring(g)

\* The menu that a client sees is cancelled, by a call on the calls B.
LEMMA CancelFits ==
  ASSUME IInv, \A n \in Menus : ~Doomed(n), NEW c \in Clients, player[c].bInMenu, NEW B, NEW f, Cancels(f, c), PutsBackFor(f, B),
         \A g \in Calls(stack) : Anchor(g, player[c].menu) => \E h \in B : Anchor(h, player[c].menu)
  PROVE  /\ Fits(B, f) /\ Harmless(f) /\ ~Rendering(f) /\ ~Starts(f)
         /\ (ForVote(f) <=> InVoteMenu(c)) /\ ~Showing(f)
<1> DEFINE m == player[c].menu
<1>0. /\ NULL \notin Menus /\ NULL \notin BOOLEAN /\ m \in Menus /\ ~Gone(m)
      /\ menu[m].closed \in BOOLEAN /\ player[c] \in CBaseMenuPlayer
  <2>1. m \in Menus /\ ~Gone(m)
    BY NotGone
  <2> QED BY <2>1, VotingAssumption DEF Menus, IInv, TypeOK, CBaseMenu
<1>a. /\ f.menu = m /\ (f.root <=> ~menu[m].closed)
      /\ f.proc = "_CancelClientMenu" /\ f.pc = "OnMenuCancel" /\ f.client = c /\ f.mh = player[c].mh
  BY DEF Cancels
<1>3. Harmless(f) /\ ~Rendering(f) /\ ~Early(f) /\ ~Showing(f)
  BY <1>0, <1>a DEF Harmless, Rendering, Early, Showing
<1>4. ForVote(f) <=> InVoteMenu(c)
  BY <1>a DEF ForVote, InVoteMenu
<1>6. Shape(f)
  <2>1. HandledBy(m, player[c].mh)
    BY DEF IInv, PlayersOK, m
  <2>2. player[c].mh \in {"vote", "plugin"}
    BY <1>0 DEF CBaseMenuPlayer
  <2> HIDE DEF m
  <2> QED BY <1>a, <2>1, <2>2 DEF Shape
<1>7. \E g \in B \cup {f} : Anchor(g, f.menu)
  <2>1. CASE menu[m].closed
    <3>1. PICK g \in Calls(stack) : Anchor(g, m)
      BY <1>0, <2>1, Anchored
    <3> QED BY <1>a, <3>1 DEF m
  <2>2. CASE ~menu[m].closed
    BY <1>a, <2>2 DEF Anchor
  <2> QED BY <2>1, <2>2
<1>10. \A g \in B : Pair(g, f)
  BY <1>a, <1>3 DEF Pair, PutsBackFor
<1>11. Fits(B, f)
  BY <1>a, <1>6, <1>7, <1>10 DEF Fits, PutsBackFor
<1> QED BY <1>a, <1>3, <1>4, <1>11 DEF Starting, Starts, m

\* The parts of CancelFrame.
LEMMA CancelFrameParts ==
  ASSUME TypeOK, NEW c \in Clients, NEW b \in BOOLEAN, player[c].menu \in Menus, NEW f, f = CancelFrame(c, b)
  PROVE  Cancels(f, c) /\ PutsBack(f, c, b)
<1> DEFINE r == ~menu[player[c].menu].closed
           old == IF b THEN player[c].bAutoIgnore ELSE NULL
<1>1. f = [ proc |-> "_CancelClientMenu", pc |-> "OnMenuCancel", client |-> c,
            menu |-> player[c].menu, mh |-> player[c].mh, root |-> r,
            old |-> old, todo |-> <<>> ]
  BY DEF Rooting, Call, CancelFrame
<1>2. player[c].bAutoIgnore \in BOOLEAN /\ player[c].mh \in {"vote", "plugin"} /\ menu[player[c].menu].closed \in BOOLEAN
  BY DEF TypeOK, CBaseMenuPlayer, CBaseMenu
<1>3. old \in BOOLEAN \cup {NULL} /\ r \in BOOLEAN /\ (r <=> ~menu[player[c].menu].closed)
      /\ (b => old = player[c].bAutoIgnore) /\ (~b => old = NULL)
  BY <1>2
<1> HIDE DEF r, old
<1>4. "_CancelClientMenu" \in {"StartVote", "DoClientMenu", "_CancelClientMenu", "ClientPressedKey", "EndVoting",
                      "Cancel", "Destroy", "Disconnect"}
      /\ "OnMenuCancel" \in Callbacks \cup {"loop", "start", "render", "end", "done", "delete", "listeners", "votes"}
      /\ <<>> \in Seq(Clients) /\ TRUE \in BOOLEAN \cup {NULL}
  BY DEF Callbacks
<1>5. f \in Frame
  <2>1. c \in Clients \cup {NULL} /\ player[c].menu \in Menus \cup {NULL}
    OBVIOUS
  <2>2. [ proc |-> "_CancelClientMenu", pc |-> "OnMenuCancel", client |-> c,
            menu |-> player[c].menu, mh |-> player[c].mh, root |-> r,
            old |-> old, todo |-> <<>> ] \in Frame
    BY <1>2, <1>3, <1>4, <2>1 DEF Frame
  <2> QED BY <1>1, <2>2
<1>7. f.root = r /\ f.old = old
  BY <1>1
<1>8. /\ f.proc = "_CancelClientMenu" /\ f.pc = "OnMenuCancel" /\ f.client = c
      /\ f.menu = player[c].menu /\ f.mh = player[c].mh
  BY <1>1
<1>9. PutsBack(f, c, b)
  BY <1>7 DEF PutsBack, old
<1> QED BY <1>3, <1>5, <1>7, <1>8, <1>9 DEF Cancels

\* CancelFrame is such a call, on calls that draw and ignore as those there do.
LEMMA CancelFrameFits ==
  ASSUME IInv, \A n \in Menus : ~Doomed(n), NEW c \in Clients, NEW b \in BOOLEAN, player[c].bInMenu, NEW B,
         \A g \in B : Rendering(g) => g \in Calls(stack),
         \A g \in Calls(stack) : Ignoring(g) => \E h \in B : h.client = g.client /\ Ignoring(h),
         \A g \in Calls(stack) : Anchor(g, player[c].menu) => \E h \in B : Anchor(h, player[c].menu),
         NEW f, f = CancelFrame(c, b)
  PROVE  /\ f \in Frame /\ Fits(B, f) /\ Harmless(f) /\ ~Rendering(f) /\ ~Starts(f) /\ f.client = c
         /\ (b => Ignoring(f)) /\ (ForVote(f) <=> InVoteMenu(c)) /\ f.menu = player[c].menu /\ ~Showing(f)
         /\ f.proc = "_CancelClientMenu" /\ f.pc = "OnMenuCancel"
<1>1. player[c].menu \in Menus /\ TypeOK
  BY NotGone DEF IInv
<1>a. Cancels(f, c) /\ PutsBack(f, c, b)
  BY <1>1, CancelFrameParts
<1>2. /\ f \in Frame /\ f.proc = "_CancelClientMenu" /\ f.pc = "OnMenuCancel" /\ f.client = c
      /\ f.menu = player[c].menu
  BY <1>a DEF Cancels
<1>b. (b => f.old = player[c].bAutoIgnore) /\ (~b => f.old = NULL)
  BY <1>a DEF PutsBack
<1>3. player[c].bAutoIgnore \in BOOLEAN /\ NULL \notin BOOLEAN
  BY VotingAssumption DEF IInv, TypeOK, CBaseMenuPlayer
<1>4. f.old = TRUE => \E g \in B : g.client = c /\ Ignoring(g)
  <2> SUFFICES ASSUME f.old = TRUE PROVE \E g \in B : g.client = c /\ Ignoring(g)
    OBVIOUS
  <2>1. player[c].bAutoIgnore
    BY <1>b, <1>3
  <2>2. PICK g \in Calls(stack) : g.client = c /\ Ignoring(g)
    BY <2>1 DEF IInv, PlayersOK
  <2> QED BY <2>2
<1>5. \A g \in B : Rendering(g) /\ g.client = c => f.old # FALSE
  <2>1. \A g \in B : Rendering(g) /\ g.client = c => player[c].bAutoIgnore
    BY DEF IInv, PlayersOK
  <2> QED BY <1>b, <1>3, <2>1
<1>6. Fits(B, f) /\ Harmless(f) /\ ~Rendering(f) /\ ~Starts(f) /\ (ForVote(f) <=> InVoteMenu(c)) /\ ~Showing(f)
  <2>1. PutsBackFor(f, B)
    BY <1>2, <1>4, <1>5 DEF PutsBackFor
  <2> QED BY <1>a, <2>1, CancelFits
<1>7. b => Ignoring(f)
  BY <1>b, <1>3 DEF Ignoring
<1> QED BY <1>2, <1>6, <1>7

\* Its display is counted as a call, not as a menu that is seen.
LEMMA CancelCount ==
  ASSUME IInv, NEW c \in Clients, NEW b \in BOOLEAN, player[c].bInMenu, player' = Cancelled(c, b),
         m_Clients' = m_Clients, m_pCurMenu' = m_pCurMenu,
         InCalls(stack) \in Nat,
         InCalls(stack)' = IF InVoteMenu(c) THEN InCalls(stack) + 1 ELSE InCalls(stack)
  PROVE  /\ (m_Clients = Cardinality({d \in Clients : InVoteMenu(d)}) + InCalls(stack))'
         /\ \A d \in Clients : InVoteMenu(d)' => InVoteMenu(d) /\ m_pCurMenu = player'[d].menu
         /\ \A d \in Clients, m \in Menus : InMenu(d, m)' => InMenu(d, m)
         /\ player' \in [Clients -> CBaseMenuPlayer]
<1> DEFINE V == {d \in Clients : InVoteMenu(d)}
<1>0. player \in [Clients -> CBaseMenuPlayer]
  BY DEF IInv, TypeOK
<1>1. \A d \in Clients :
        /\ player'[d].menu = player[d].menu /\ player'[d].mh = player[d].mh
        /\ player'[d].bInMenu <=> player[d].bInMenu /\ d # c
  BY <1>0 DEF Cancelled, CBaseMenuPlayer
<1>2. player' \in [Clients -> CBaseMenuPlayer]
  <2> DEFINE r == [player[c] EXCEPT !.bInMenu = FALSE, !.bAutoIgnore = @ \/ b]
  <2>1. r \in CBaseMenuPlayer
    BY <1>0 DEF CBaseMenuPlayer
  <2>2. player' = [player EXCEPT ![c] = r]
    BY <1>0 DEF Cancelled
  <2> HIDE DEF r
  <2> QED BY <1>0, <2>1, <2>2
<1>3. {d \in Clients : InVoteMenu(d)}' = V \ {c}
  BY <1>1 DEF InVoteMenu
<1>4. Cardinality(V \ {c}) = (IF c \in V THEN Cardinality(V) - 1 ELSE Cardinality(V)) /\ Cardinality(V) \in Nat
  BY CountClients
<1>5. c \in V <=> InVoteMenu(c)
  OBVIOUS
<1>6. m_Clients = Cardinality(V) + InCalls(stack)
  BY DEF IInv, VoteOK
<1>7. \A d \in Clients : InVoteMenu(d)' => InVoteMenu(d) /\ player'[d].menu = player[d].menu
  BY <1>1 DEF InVoteMenu
<1>8. \A d \in Clients, m \in Menus : InMenu(d, m)' => InMenu(d, m)
  BY <1>1 DEF InMenu
<1>9. \A d \in Clients : InVoteMenu(d) => m_pCurMenu = player[d].menu
  BY DEF IInv, VoteOK
<1> HIDE DEF V
<1>10. (m_Clients = Cardinality({d \in Clients : InVoteMenu(d)}) + InCalls(stack))'
  <2>1. Cardinality({d \in Clients : InVoteMenu(d)})' = Cardinality(V \ {c})
    BY <1>3
  <2>2. CASE c \in V
    BY <1>4, <1>5, <1>6, <2>1, <2>2
  <2>3. CASE c \notin V
    BY <1>4, <1>5, <1>6, <2>1, <2>3
  <2> QED BY <2>2, <2>3
<1> QED BY <1>2, <1>7, <1>8, <1>9, <1>10

-----------------------------------------------------------------------------
(* The steps.                                                              *)

\* The calls K go with the rest of the state: they are those on the stack, as
\* far as menus and the vote are concerned, and calls for a menu that is there.
Base(K) ==
  /\ K \in Seq(Frame) /\ FramesOK(K)
  /\ \A f \in Calls(K) : Harmless(f) \/ \E g \in Calls(stack) : Like(f, g)
  /\ \A g \in Calls(stack) : g.proc \in {"Cancel", "Destroy"} =>
       \E f \in Calls(K) : f.proc = g.proc /\ f.menu = g.menu
  /\ \A f \in Calls(K) : ForVote(f) => m_pCurMenu = f.menu
  /\ \A g \in Calls(stack) : Early(g) => \E f \in Calls(K) : Early(f)
  /\ m_bStarted /\ m_Clients = 0 =>
       \A g \in Calls(stack) : Starting(g) => \E f \in Calls(K) : Starting(f) /\ f.menu = g.menu

\* They keep the menus that those on the stack keep.
Keeps(K) == \A g \in Calls(stack), m \in Menus : Anchor(g, m) => \E f \in Calls(K) : Anchor(f, m)

\* The same clients ignore menus, and no more is drawn.
Quiet(K) ==
  /\ \A g \in Calls(stack) : Ignoring(g) => \E f \in Calls(K) : f.client = g.client /\ Ignoring(f)
  /\ \A f \in Calls(K) : Rendering(f) => f \in Calls(stack)

\* Cancel has the clients S before it who are in its menu.
TodoOK(K, S) ==
  \A f \in Calls(K) : f.proc = "Cancel" => \A c \in S : InMenu(c, f.menu) => Has(f.todo, c)

\* No menu of the vote is being shown to the clients S.
ShowsNone(K, S) == \A f \in Calls(K) : Showing(f) => f.client \notin S

AllGood(K) == Base(K) /\ Keeps(K) /\ Quiet(K) /\ TodoOK(K, Clients) /\ ShowsNone(K, Voted)

LEMMA BaseSame ==
  ASSUME IInv
  PROVE  AllGood(stack)
<1>1. \A f \in Calls(stack) : Like(f, f)
  BY DEF Like
<1> QED BY <1>1 DEF AllGood, Base, Keeps, Quiet, TodoOK, ShowsNone, IInv, TypeOK, MenusOK, VoteOK, CountedOK

\* The innermost call goes on, and fits.
LEMMA BaseRefits ==
  ASSUME IInv, stack # <<>>, NEW f \in Frame, Same(f, Top), Fits(Calls(Caller), f),
         Early(f) <=> Early(Top),
         ForVote(f) => ForVote(Top), Starting(f) <=> Starting(Top), Showing(f) => Showing(Top)
  PROVE  /\ Base(Append(Caller, f)) /\ Calls(Append(Caller, f)) = Calls(Caller) \cup {f}
         /\ Keeps(Append(Caller, f)) /\ ShowsNone(Append(Caller, f), Voted)
         /\ ~Rendering(f) /\ (Ignoring(Top) => Ignoring(f)) => Quiet(Append(Caller, f))
         /\ f.todo = Top.todo \/ f.proc # "Cancel" => TodoOK(Append(Caller, f), Clients)
         /\ InCalls(Append(Caller, f)) = IF ForVote(f) THEN InCalls(Caller) + 1 ELSE InCalls(Caller)
<1> DEFINE K == Append(Caller, f)
<1>1. Calls(stack) = Calls(Caller) \cup {Top}
  BY TopView
<1>2. /\ K \in Seq(Frame) /\ FramesOK(K)
      /\ Calls(K) = Calls(Caller) \cup {f}
      /\ InCalls(K) = IF ForVote(f) THEN InCalls(Caller) + 1 ELSE InCalls(Caller)
  <2>1. Caller \in Seq(Frame) /\ FramesOK(Caller)
    BY TopView
  <2> QED BY <2>1, Push, CountPush
<1> HIDE DEF K
<1>3. Like(f, Top) /\ \A g \in Calls(Caller) : Like(g, g)
  BY DEF Same, Like
<1>4. f.client = Top.client /\ f.menu = Top.menu /\ f.proc = Top.proc
  BY DEF Same
<1>6. \A g \in Calls(K) : \E h \in Calls(stack) : Like(g, h)
  BY <1>1, <1>2, <1>3
<1>7. \A g \in Calls(stack) : g.proc \in {"Cancel", "Destroy"} => \E h \in Calls(K) : h.proc = g.proc /\ h.menu = g.menu
  BY <1>1, <1>2, <1>4
<1>8. ~Rendering(f) /\ (Ignoring(Top) => Ignoring(f)) => Quiet(K)
  BY <1>1, <1>2, <1>4 DEF Quiet
<1>10. Keeps(K)
  <2>1. \A m \in Menus : Anchor(Top, m) => Anchor(f, m)
    BY DEF Anchor, Same
  <2> QED BY <1>1, <1>2, <2>1 DEF Keeps
<1>11. /\ \A g \in Calls(stack) : Early(g) => \E h \in Calls(K) : Early(h)
       /\ \A g \in Calls(stack) : Starting(g) => \E h \in Calls(K) : Starting(h) /\ h.menu = g.menu
  BY <1>1, <1>2, <1>4
<1>12. \A g \in Calls(K) : ForVote(g) => m_pCurMenu = g.menu
  BY <1>1, <1>2, <1>4 DEF IInv, VoteOK
<1>13. ShowsNone(K, Voted)
  BY <1>1, <1>2, <1>4 DEF IInv, CountedOK, ShowsNone
<1>14. f.todo = Top.todo \/ f.proc # "Cancel" => TodoOK(K, Clients)
  <2>1. \A g \in Calls(stack) : g.proc = "Cancel" => \A c \in Clients : InMenu(c, g.menu) => Has(g.todo, c)
    BY DEF IInv, MenusOK
  <2> QED BY <1>1, <1>2, <1>4, <2>1 DEF TodoOK
<1>15. Base(K)
  BY <1>2, <1>6, <1>7, <1>11, <1>12 DEF Base
<1> QED BY <1>2, <1>8, <1>10, <1>13, <1>14, <1>15 DEF K

\* The innermost call goes on.
LEMMA BaseGoesOn ==
  ASSUME IInv, stack # <<>>, NEW f \in Frame, Same(f, Top), Shape(f),
         Early(f) <=> Early(Top), Rendering(f) => Rendering(Top),
         ForVote(f) => ForVote(Top), Starting(f) <=> Starting(Top), Showing(f) => Showing(Top)
  PROVE  /\ Base(Append(Caller, f)) /\ Calls(Append(Caller, f)) = Calls(Caller) \cup {f}
         /\ Keeps(Append(Caller, f)) /\ ShowsNone(Append(Caller, f), Voted)
         /\ ~Rendering(f) /\ (Ignoring(Top) => Ignoring(f)) => Quiet(Append(Caller, f))
         /\ f.todo = Top.todo \/ f.proc # "Cancel" => TodoOK(Append(Caller, f), Clients)
         /\ InCalls(Append(Caller, f)) = IF ForVote(f) THEN InCalls(Caller) + 1 ELSE InCalls(Caller)
<1>1. Fits(Calls(Caller), Top)
  BY TopView
<1>2. Fits(Calls(Caller), f)
  BY <1>1, Refit
<1> QED BY <1>2, BaseRefits

\* The innermost call, which was not for a vote, is over.
LEMMA BaseReturns ==
  ASSUME IInv, stack # <<>>, Top.proc \notin {"Cancel", "Destroy"}, ~Early(Top),
         m_bStarted /\ m_Clients = 0 => ~Starting(Top)
  PROVE  /\ Base(Caller) /\ TodoOK(Caller, Clients) /\ ShowsNone(Caller, Voted)
         /\ ~Ignoring(Top) => Quiet(Caller)
         /\ Top.menu = NULL => Keeps(Caller)
<1>1. /\ Calls(stack) = Calls(Caller) \cup {Top} /\ Caller \in Seq(Frame) /\ FramesOK(Caller)
  BY TopView
<1>2. \A f \in Calls(Caller) : Like(f, f)
  BY DEF Like
<1>3. Base(Caller)
  BY <1>1, <1>2 DEF Base, IInv, VoteOK
<1>4. TodoOK(Caller, Clients) /\ ShowsNone(Caller, Voted)
  BY <1>1 DEF TodoOK, ShowsNone, IInv, MenusOK, CountedOK
<1>5. ~Ignoring(Top) => Quiet(Caller)
  BY <1>1 DEF Quiet
<1>6. Top.menu = NULL => Keeps(Caller)
  BY <1>1, VotingAssumption DEF Keeps, Anchor, Menus
<1> QED BY <1>3, <1>4, <1>5, <1>6

\* A call is made for a menu that is there.
LEMMA BaseCalls ==
  ASSUME NEW K, Base(K), NEW f \in Frame, Fits(Calls(K), f), Harmless(f), ForVote(f) => m_pCurMenu = f.menu
  PROVE  /\ Base(Append(K, f)) /\ Calls(Append(K, f)) = Calls(K) \cup {f}
         /\ InCalls(Append(K, f)) = IF ForVote(f) THEN InCalls(K) + 1 ELSE InCalls(K)
         /\ InCalls(K) \in Nat
         /\ Keeps(K) => Keeps(Append(K, f))
         /\ Quiet(K) /\ ~Rendering(f) => Quiet(Append(K, f))
         /\ \A S : TodoOK(K, S) => TodoOK(Append(K, f), S)
         /\ \A S : ShowsNone(K, S) /\ (Showing(f) => f.client \notin S) => ShowsNone(Append(K, f), S)
<1>1. K \in Seq(Frame) /\ FramesOK(K)
  BY DEF Base
<1>2. Append(K, f) \in Seq(Frame) /\ FramesOK(Append(K, f)) /\ Calls(Append(K, f)) = Calls(K) \cup {f}
  BY <1>1, Push
<1>3. InCalls(K) \in Nat /\ InCalls(Append(K, f)) = IF ForVote(f) THEN InCalls(K) + 1 ELSE InCalls(K)
  BY <1>1, CountPush
<1>4. Base(Append(K, f))
  BY <1>2 DEF Base
<1>5. Keeps(K) => Keeps(Append(K, f))
  BY <1>2 DEF Keeps
<1>6. Quiet(K) /\ ~Rendering(f) => Quiet(Append(K, f))
  BY <1>2 DEF Quiet
<1>7. \A S : TodoOK(K, S) => TodoOK(Append(K, f), S)
  BY <1>2 DEF TodoOK, Harmless
<1>8. \A S : ShowsNone(K, S) /\ (Showing(f) => f.client \notin S) => ShowsNone(Append(K, f), S)
  BY <1>2 DEF ShowsNone
<1> QED BY <1>2, <1>3, <1>4, <1>5, <1>6, <1>7, <1>8

\* Who saw a menu sees it, or none.
SeesLess(S) ==
  \A d \in Clients : player'[d].bInMenu =>
    /\ player[d].bInMenu /\ d \in S
    /\ player'[d].menu = player[d].menu /\ player'[d].mh = player[d].mh

\* The menus and the vote go with the new calls.
LEMMA StateKept ==
  ASSUME IInv, Base(stack'), UNCHANGED <<menu, m_pCurMenu, m_bStarted>>,
         NEW S, SeesLess(S), TodoOK(stack', S),
         (m_Clients = Cardinality({d \in Clients : InVoteMenu(d)}) + InCalls(stack))',
         m_bStarted /\ m_Clients' = 0 => m_Clients = 0
  PROVE  /\ MenusOK' /\ VoteOK' /\ FramesOK(stack') /\ stack' \in Seq(Frame)
         /\ \A d \in Clients : InVoteMenu(d)' => InVoteMenu(d) /\ d \in S
         /\ \A f \in Calls(stack)' : Early(f) => \E g \in Calls(stack) : Early(g)
<1>1. MenusOK /\ VoteOK
  BY DEF IInv
<1>2. \A d \in Clients : \A m : InMenu(d, m)' => InMenu(d, m) /\ d \in S
  BY DEF InMenu, SeesLess
<1>3. \A d \in Clients : InVoteMenu(d)' => InVoteMenu(d) /\ d \in S /\ player'[d].menu = player[d].menu
  BY DEF InVoteMenu, SeesLess
<1>4. MenusOK'
  <2>1. \A f \in Calls(stack)' : Harmless(f) \/ \E g \in Calls(stack) : Like(f, g)
    BY DEF Base
  <2>2. \A g \in Calls(stack) : g.proc \in {"Cancel", "Destroy"} =>
           \E f \in Calls(stack)' : f.proc = g.proc /\ f.menu = g.menu
    BY DEF Base
  <2>3. \A f \in Calls(stack)' : f.proc = "Cancel" => \A c \in Clients : InMenu(c, f.menu)' => Has(f.todo, c)
    BY <1>2 DEF TodoOK
  <2> QED BY <1>1, <1>2, <2>1, <2>2, <2>3, MenusKept
<1>5. \A f \in Calls(stack)' : Early(f) => \E g \in Calls(stack) : Early(g) /\ g.menu = f.menu
  BY DEF Base, Like, Harmless
<1>6. VoteOK'
  <2>1. \A f \in Calls(stack)' : ForVote(f) => m_pCurMenu = f.menu
    BY DEF Base
  <2>2. \A g \in Calls(stack) : Early(g) => \E f \in Calls(stack)' : Early(f)
    BY DEF Base
  <2>3. m_bStarted /\ m_Clients = 0 =>
          \A g \in Calls(stack) : Starting(g) => \E f \in Calls(stack)' : Starting(f) /\ f.menu = g.menu
    BY DEF Base
  <2>4. \A d \in Clients : InVoteMenu(d)' => m_pCurMenu = player'[d].menu
    BY <1>1, <1>3 DEF VoteOK
  <2> QED BY <1>1, <1>5, <2>1, <2>2, <2>3, <2>4, VoteKept
<1> QED BY <1>3, <1>4, <1>5, <1>6 DEF Base

\* Clients see what they saw: then the count of the vote changes as its calls do.
LEMMA SameCount ==
  ASSUME IInv, \A d \in Clients :
           /\ player'[d].bInMenu <=> player[d].bInMenu
           /\ player[d].bInMenu => player'[d].menu = player[d].menu /\ player'[d].mh = player[d].mh,
         InCalls(stack) \in Nat, InCalls(stack') \in Nat,
         m_Clients' = m_Clients + InCalls(stack') - InCalls(stack)
  PROVE  /\ (m_Clients = Cardinality({d \in Clients : InVoteMenu(d)}) + InCalls(stack))'
         /\ SeesLess(Clients)
<1>1. {d \in Clients : InVoteMenu(d)}' = {d \in Clients : InVoteMenu(d)}
  BY DEF InVoteMenu
<1>2. m_Clients = Cardinality({d \in Clients : InVoteMenu(d)}) + InCalls(stack)
  BY DEF IInv, VoteOK
<1>3. Cardinality({d \in Clients : InVoteMenu(d)}) \in Nat
  BY CountClients
<1>4. (m_Clients = Cardinality({d \in Clients : InVoteMenu(d)}) + InCalls(stack))'
  <2>1. Cardinality({d \in Clients : InVoteMenu(d)})' = Cardinality({d \in Clients : InVoteMenu(d)})
    BY <1>1
  <2> QED BY <1>2, <1>3, <2>1
<1> QED BY <1>4 DEF SeesLess

\* Nobody votes.
LEMMA NobodyVoted ==
  ASSUME IInv, UNCHANGED <<m_Votes, m_NumVotes, m_pCurMenu>>,
         m_ClientVotes' \in [Clients -> VOTE_NOT_VOTING..(NItems - 1)],
         \A c \in Clients : m_ClientVotes'[c] = m_ClientVotes[c] \/ (c \notin Voted /\ m_ClientVotes'[c] < 0),
         \A c \in Clients : InVoteMenu(c)' => InVoteMenu(c) \/ c \notin Voted,
         ShowsNone(stack', Voted),
         \A f \in Calls(stack)' : Early(f) => \E g \in Calls(stack) : Early(g)
  PROVE  CountedOK'
<1>1. CountedOK /\ m_pCurMenu' \in {m_pCurMenu, NULL}
  BY DEF IInv
<1>2. \A d \in Clients : m_ClientVotes[d] \in Int /\ m_ClientVotes'[d] \in Int
  BY VotingAssumption DEF IInv, TypeOK, VOTE_NOT_VOTING
<1>3. \A c \in Clients : m_ClientVotes'[c] = m_ClientVotes[c] \/ (m_ClientVotes[c] < 0 /\ m_ClientVotes'[c] < 0)
  BY <1>2 DEF Voted
<1>4. \A f \in Calls(stack)' : Showing(f) => f.client \notin Voted
  BY DEF ShowsNone
<1> QED BY <1>1, <1>2, <1>3, <1>4, CountedKept

\* The calls are what has changed.
LEMMA CallsChange ==
  ASSUME IInv, UNCHANGED <<player, menu, m_pCurMenu, m_bStarted, m_NumVotes, m_Votes, m_ClientVotes>>,
         inGame' \subseteq Clients, m_bCancelled' \in BOOLEAN, m_displayTimer' \in BOOLEAN, timers' \in Nat,
         calls' \in 0..MaxCalls, m_Clients' \in Nat,
         Base(stack'), Quiet(stack'), TodoOK(stack', Clients), ShowsNone(stack', Voted),
         InCalls(stack) \in Nat, InCalls(stack') \in Nat,
         m_Clients' = m_Clients + InCalls(stack') - InCalls(stack),
         m_bStarted /\ m_Clients' = 0 => m_Clients = 0
  PROVE  IInv'
<1>1. /\ (m_Clients = Cardinality({d \in Clients : InVoteMenu(d)}) + InCalls(stack))'
      /\ SeesLess(Clients)
  BY SameCount
<1>2. /\ MenusOK' /\ VoteOK' /\ FramesOK(stack') /\ stack' \in Seq(Frame)
      /\ \A d \in Clients : InVoteMenu(d)' => InVoteMenu(d)
      /\ \A f \in Calls(stack)' : Early(f) => \E g \in Calls(stack) : Early(g)
  BY <1>1, StateKept
<1>3. TypeOK'
  BY <1>2 DEF IInv, TypeOK
<1>4. PlayersOK'
  BY PlayersSame DEF IInv, Quiet
<1>5. CountedOK'
  BY <1>2, NobodyVoted DEF IInv, TypeOK
<1> QED BY <1>2, <1>3, <1>4, <1>5 DEF IInv

\* The innermost call goes on, and that is all.
LEMMA OnlyGoesOn ==
  ASSUME IInv, stack # <<>>, NEW f \in Frame, Same(f, Top), Shape(f),
         Early(f) <=> Early(Top), ~Rendering(f), ~Rendering(Top), Ignoring(Top) => Ignoring(f),
         ForVote(f) <=> ForVote(Top), Starting(f) <=> Starting(Top), Showing(f) => Showing(Top),
         f.todo = Top.todo,
         stack' = Append(Caller, f), UNCHANGED <<inGame, player, menu, vote, calls>>
  PROVE  IInv'
<1>1. /\ Base(stack') /\ Quiet(stack') /\ TodoOK(stack', Clients) /\ ShowsNone(stack', Voted)
      /\ InCalls(stack') = IF ForVote(f) THEN InCalls(Caller) + 1 ELSE InCalls(Caller)
  BY BaseGoesOn
<1>2. InCalls(Caller) \in Nat /\ InCalls(stack) = IF ForVote(Top) THEN InCalls(Caller) + 1 ELSE InCalls(Caller)
  BY TopView
<1>3. /\ inGame' \subseteq Clients /\ m_bCancelled' \in BOOLEAN /\ m_displayTimer' \in BOOLEAN /\ timers' \in Nat
      /\ calls' \in 0..MaxCalls /\ m_Clients' \in Nat /\ m_Clients' = m_Clients
      /\ UNCHANGED <<player, menu, m_pCurMenu, m_bStarted, m_NumVotes, m_Votes, m_ClientVotes>>
  BY DEF IInv, TypeOK, vote
<1>4. m_Clients' = m_Clients + InCalls(stack') - InCalls(stack) /\ InCalls(stack) \in Nat /\ InCalls(stack') \in Nat
  BY <1>1, <1>2, <1>3
<1> QED BY <1>1, <1>3, <1>4, CallsChange

LEMMA ReturnStep ==
  ASSUME IInv, Return
  PROVE  IInv'
<1> DEFINE pc == IF Top.proc = "StartVote" THEN "loop" ELSE ReturnTo[Top.pc]
           f == [Top EXCEPT !.pc = pc]
<1>1. /\ stack # <<>> /\ Top.pc \in DOMAIN ReturnTo /\ stack' = At(stack, pc)
      /\ UNCHANGED <<inGame, player, menu, vote, calls>>
  BY DEF Return
<1>2. Top \in Frame /\ Shape(Top) /\ stack \in Seq(Frame)
  BY <1>1, TopView DEF Fits, IInv, TypeOK
<1>3. Top.pc \in {"OnMenuStart", "OnMenuSelect", "OnMenuCancel", "OnMenuEnd", "OnMenuVoteEnd", "OnVotingEnd"}
  BY <1>1 DEF ReturnTo
<1>4. /\ Top.proc = "StartVote" => pc = "loop"
      /\ Top.proc # "StartVote" =>
           /\ Top.pc = "OnMenuStart" => pc = "start"
           /\ Top.pc \in {"OnMenuSelect", "OnMenuCancel"} => pc = "end"
           /\ Top.pc = "OnMenuEnd" => pc = "done"
           /\ Top.pc = "OnMenuVoteEnd" => pc = "OnVotingEnd"
           /\ Top.pc = "OnVotingEnd" => pc = "done"
  BY <1>3 DEF ReturnTo
<1> HIDE DEF pc
<1>5. pc \in {"loop", "start", "end", "done", "OnVotingEnd"}
  BY <1>3, <1>4
<1>6. f.pc = pc /\ f = [Top EXCEPT !.pc = f.pc]
  BY <1>2 DEF Frame
<1> HIDE DEF f
<1>7. f \in Frame /\ Same(f, Top) /\ stack' = Append(Caller, f) /\ f.todo = Top.todo
  BY <1>1, <1>5, <1>6, AtPc
<1>8. /\ f.proc = Top.proc /\ f.client = Top.client /\ f.menu = Top.menu /\ f.mh = Top.mh /\ f.root = Top.root
      /\ f.old = Top.old
  BY <1>7 DEF Same
<1>9. Shape(f)
  BY <1>2, <1>3, <1>4, <1>5, <1>6, <1>8 DEF Shape, Redrawing
<1>10. Early(f) <=> Early(Top)
  BY <1>2, <1>3, <1>4, <1>6, <1>8 DEF Early, Shape
<1>11. ~Rendering(f) /\ ~Rendering(Top) /\ (Ignoring(Top) => Ignoring(f))
  BY <1>3, <1>5, <1>6, <1>8 DEF Rendering, Ignoring
<1>12. Top.proc \in {"StartVote", "DoClientMenu", "_CancelClientMenu", "ClientPressedKey", "EndVoting",
            "Cancel", "Destroy", "Disconnect"}
  BY <1>2 DEF Frame
<1>13. Top.pc = "OnMenuEnd" \/ Top.pc = "OnVotingEnd" \/ Top.proc = "StartVote" => Top.mh = "plugin"
  BY <1>2, <1>12 DEF Shape
<1>14. ForVote(f) <=> ForVote(Top)
  BY <1>3, <1>4, <1>6, <1>8, <1>13 DEF ForVote
<1>15. ~Starting(f) /\ ~Starting(Top)
  BY <1>3, <1>5, <1>6 DEF Starting
<1>16. Showing(f) => Showing(Top)
  <2>1. f.pc = "start" => Top.pc = "OnMenuStart" /\ Top.proc # "StartVote"
    BY <1>3, <1>4, <1>6
  <2>2. Top.pc = "OnMenuStart" => Top.mh = "plugin"
    BY <1>2, <1>12 DEF Shape
  <2> QED BY <1>5, <1>6, <1>8, <2>1, <2>2 DEF Showing
<1> QED BY <1>1, <1>7, <1>8, <1>9, <1>10, <1>11, <1>14, <1>15, <1>16, OnlyGoesOn

-----------------------------------------------------------------------------
(* A menu that a client sees ends.                                         *)

\* Call f is to end the menu that client c sees.
EndsFor(f, c) ==
  /\ f \in Frame /\ Harmless(f) /\ ~Rendering(f) /\ ~Starts(f) /\ ~Showing(f)
  /\ f.client = c /\ f.menu = player[c].menu
  /\ ForVote(f) <=> InVoteMenu(c)

LEMMA EndStep ==
  ASSUME IInv, NEW c \in Clients, NEW b \in BOOLEAN, player[c].bInMenu, player' = Cancelled(c, b), NotPaging(c),
         UNCHANGED <<menu, m_pCurMenu, m_bStarted, m_Clients>>,
         NEW K, Base(K), TodoOK(K, Clients \ {c}), ShowsNone(K, Voted), InCalls(K) = InCalls(stack),
         NEW f, EndsFor(f, c), Fits(Calls(K), f), stack' = Append(K, f)
  PROVE  /\ player' \in [Clients -> CBaseMenuPlayer] /\ stack' \in Seq(Frame)
         /\ FramesOK(stack') /\ MenusOK' /\ VoteOK'
         /\ Calls(stack') = Calls(K) \cup {f}
         /\ Quiet(K) /\ (b => Ignoring(f)) => PlayersOK'
         /\ \A d \in Clients : InVoteMenu(d)' => InVoteMenu(d) /\ d # c
         /\ ShowsNone(stack', Voted)
         /\ \A g \in Calls(stack)' : Early(g) => \E h \in Calls(stack) : Early(h)
<1>0. /\ f \in Frame /\ Harmless(f) /\ ~Rendering(f) /\ ~Starts(f) /\ ~Showing(f)
      /\ f.client = c /\ f.menu = player[c].menu /\ (ForVote(f) <=> InVoteMenu(c))
  BY DEF EndsFor
<1>1. ForVote(f) => m_pCurMenu = f.menu
  BY <1>0 DEF IInv, VoteOK
<1>2. /\ Base(stack') /\ Calls(stack') = Calls(K) \cup {f} /\ InCalls(K) \in Nat
      /\ InCalls(stack') = (IF ForVote(f) THEN InCalls(K) + 1 ELSE InCalls(K))
      /\ TodoOK(stack', Clients \ {c}) /\ ShowsNone(stack', Voted)
      /\ Quiet(K) => Quiet(stack')
  BY <1>0, <1>1, BaseCalls
<1>3. InCalls(stack) \in Nat /\ InCalls(stack)' = IF InVoteMenu(c) THEN InCalls(stack) + 1 ELSE InCalls(stack)
  BY <1>0, <1>2
<1>4. /\ (m_Clients = Cardinality({d \in Clients : InVoteMenu(d)}) + InCalls(stack))'
      /\ player' \in [Clients -> CBaseMenuPlayer]
  BY <1>3, CancelCount
<1>5. player \in [Clients -> CBaseMenuPlayer] /\ PlayersOK /\ \A g \in Calls(stack) : Shape(g) /\ g \in Frame
  BY AllShapes DEF IInv, TypeOK
<1>6. SeesLess(Clients \ {c})
  <2>1. \A d \in Clients : d # c => player'[d] = player[d]
    BY <1>5 DEF Cancelled
  <2>2. ~player'[c].bInMenu
    BY <1>5 DEF Cancelled, CBaseMenuPlayer
  <2> QED BY <2>1, <2>2 DEF SeesLess
<1>7. /\ MenusOK' /\ VoteOK' /\ FramesOK(stack') /\ stack' \in Seq(Frame)
      /\ \A d \in Clients : InVoteMenu(d)' => InVoteMenu(d) /\ d \in Clients \ {c}
      /\ \A g \in Calls(stack)' : Early(g) => \E h \in Calls(stack) : Early(h)
  BY <1>2, <1>4, <1>6, StateKept
<1>8. Quiet(K) /\ (b => Ignoring(f)) => PlayersOK'
  <2> SUFFICES ASSUME Quiet(K), b => Ignoring(f) PROVE PlayersOK'
    OBVIOUS
  <2>1. \A g \in Calls(stack) : Ignoring(g) => \E h \in Calls(stack)' : h.client = g.client /\ Ignoring(h)
    BY <1>2 DEF Quiet
  <2>2. \A g \in Calls(stack)' : Rendering(g) => g \in Calls(stack)
    BY <1>2 DEF Quiet
  <2>3. b => \E g \in Calls(stack)' : g.client = c /\ Ignoring(g)
    BY <1>0, <1>2
  <2>4. \A g \in Calls(stack) : Rendering(g) => g.client \in Clients
    BY <1>5 DEF Frame, Shape, Rendering
  <2> QED BY <1>5, <2>1, <2>2, <2>3, <2>4, PlayersCancel
<1> QED BY <1>2, <1>4, <1>7, <1>8

\* It ends without a vote.
LEMMA EndsUncounted ==
  ASSUME IInv, NEW c \in Clients, NEW b \in BOOLEAN, player[c].bInMenu, player' = Cancelled(c, b), NotPaging(c),
         UNCHANGED <<inGame, menu, vote>>, calls' \in 0..MaxCalls,
         NEW K, Base(K), Quiet(K), TodoOK(K, Clients \ {c}), ShowsNone(K, Voted), InCalls(K) = InCalls(stack),
         NEW f, EndsFor(f, c), Fits(Calls(K), f), b => Ignoring(f), stack' = Append(K, f)
  PROVE  IInv'
<1>0. UNCHANGED <<menu, m_pCurMenu, m_bStarted, m_Clients>>
  BY DEF vote
<1>1. /\ player' \in [Clients -> CBaseMenuPlayer] /\ stack' \in Seq(Frame)
      /\ FramesOK(stack') /\ PlayersOK' /\ MenusOK' /\ VoteOK'
      /\ \A d \in Clients : InVoteMenu(d)' => InVoteMenu(d) /\ d # c
      /\ ShowsNone(stack', Voted)
      /\ \A g \in Calls(stack)' : Early(g) => \E h \in Calls(stack) : Early(h)
  BY <1>0, EndStep
<1>2. TypeOK'
  BY <1>1 DEF IInv, TypeOK, vote
<1>3. CountedOK'
  BY <1>1, NobodyVoted DEF IInv, TypeOK, vote
<1> QED BY <1>1, <1>2, <1>3 DEF IInv

\* _CancelClientMenu on the calls K.
LEMMA CancelledOn ==
  ASSUME IInv, \A n \in Menus : ~Doomed(n), NEW c \in Clients, NEW b \in BOOLEAN, player[c].bInMenu,
         NEW K, Keeps(K), Quiet(K), NEW f, f = CancelFrame(c, b)
  PROVE  EndsFor(f, c) /\ Fits(Calls(K), f) /\ (b => Ignoring(f)) /\ f \in Frame
<1>1. player[c].menu \in Menus
  BY NotGone
<1>2. /\ \A g \in Calls(K) : Rendering(g) => g \in Calls(stack)
      /\ \A g \in Calls(stack) : Ignoring(g) => \E h \in Calls(K) : h.client = g.client /\ Ignoring(h)
      /\ \A g \in Calls(stack) : Anchor(g, player[c].menu) => \E h \in Calls(K) : Anchor(h, player[c].menu)
  BY <1>1 DEF Keeps, Quiet
<1>3. /\ f \in Frame /\ Fits(Calls(K), f) /\ Harmless(f) /\ ~Rendering(f) /\ ~Starts(f) /\ f.client = c
      /\ (b => Ignoring(f)) /\ (ForVote(f) <=> InVoteMenu(c)) /\ f.menu = player[c].menu /\ ~Showing(f)
  BY <1>2, CancelFrameFits
<1> QED BY <1>3 DEF EndsFor

LEMMA SameGood ==
  ASSUME IInv, NEW c
  PROVE  /\ Base(stack) /\ Keeps(stack) /\ Quiet(stack) /\ TodoOK(stack, Clients \ {c}) /\ TodoOK(stack, Clients)
         /\ ShowsNone(stack, Voted)
  BY BaseSame DEF AllGood, TodoOK

LEMMA NoCalls == Calls(<<>>) = {} /\ <<>> \in Seq(Frame) /\ \A f \in Frame : <<f>> = Append(<<>>, f)
  BY DEF Calls

LEMMA TimeoutStep ==
  ASSUME IInv, \A n \in Menus : ~Doomed(n), NEW c \in Clients, Timeout(c)
  PROVE  IInv'
<1> DEFINE f == CancelFrame(c, FALSE)
<1>1. /\ stack = <<>> /\ player[c].bInMenu /\ player' = Cancelled(c, FALSE) /\ stack' = <<f>>
      /\ UNCHANGED <<inGame, menu, vote, calls>>
  BY DEF Timeout
<1>2. Base(stack) /\ Keeps(stack) /\ Quiet(stack) /\ TodoOK(stack, Clients \ {c}) /\ ShowsNone(stack, Voted)
  BY SameGood
<1>3. EndsFor(f, c) /\ Fits(Calls(stack), f) /\ f \in Frame
  BY <1>1, <1>2, CancelledOn
<1> HIDE DEF f
<1>4. stack' = Append(stack, f)
  BY <1>1, <1>3
<1>5. calls' \in 0..MaxCalls /\ NotPaging(c)
  BY <1>1, NoCalls DEF IInv, TypeOK, NotPaging
<1> QED BY <1>1, <1>2, <1>3, <1>4, <1>5, EndsUncounted

\* Redrawn, of the calls.
LEMMA RedrawnCalls ==
  ASSUME IInv
  PROVE  \A c : Redrawn(c) <=> \E f \in Calls(stack) : Redrawing(f) /\ f.client = c
<1>1. DOMAIN stack = 1..Len(stack)
  BY DEF IInv, TypeOK
<1> QED BY <1>1 DEF Redrawn, Calls, Redrawing

LEMMA CancelClientMenuStep ==
  ASSUME IInv, "EndInRedraw" \notin Habits, \A n \in Menus : ~Doomed(n), NEW c \in Clients, NEW b \in BOOLEAN, CancelClientMenu(c, b)
  PROVE  IInv'
<1> DEFINE f == CancelFrame(c, b)
<1>1. /\ player[c].bInMenu /\ player' = Cancelled(c, b) /\ stack' = stack \o <<f>>
      /\ UNCHANGED <<inGame, menu, vote>> /\ calls < MaxCalls /\ calls' = calls + 1
  BY DEF CancelClientMenu, Native
<1>2. Base(stack) /\ Keeps(stack) /\ Quiet(stack) /\ TodoOK(stack, Clients \ {c}) /\ ShowsNone(stack, Voted)
  BY SameGood
<1>3. EndsFor(f, c) /\ Fits(Calls(stack), f) /\ f \in Frame /\ (b => Ignoring(f))
  BY <1>1, <1>2, CancelledOn
<1> HIDE DEF f
<1>4. stack' = Append(stack, f) /\ calls' \in 0..MaxCalls
  BY <1>1, <1>3, VotingAssumption DEF IInv, TypeOK
<1>5. NotPaging(c)
  BY RedrawnCalls DEF NotPaging, CancelClientMenu
<1> QED BY <1>1, <1>2, <1>3, <1>4, <1>5, EndsUncounted

\* A loop over the clients goes on with the next one.
LEMMA NextClient ==
  ASSUME IInv, stack # <<>>, Top.proc \in {"StartVote", "Cancel"}, Top.todo # <<>>,
         NEW K, K = [stack EXCEPT ![Len(stack)].todo = Tail(@)]
  PROVE  /\ Base(K) /\ Keeps(K) /\ Quiet(K) /\ ShowsNone(K, Voted) /\ InCalls(K) = InCalls(stack) /\ InCalls(K) \in Nat
         /\ Head(Top.todo) \in Clients /\ TodoOK(K, Clients \ {Head(Top.todo)})
         /\ Top.proc = "StartVote" => TodoOK(K, Clients)
         /\ ~InMenu(Head(Top.todo), Top.menu) => TodoOK(K, Clients)
         /\ \A g \in Calls(K) : \E h \in Calls(stack) : g.proc = h.proc /\ g.menu = h.menu
<1> DEFINE f == [Top EXCEPT !.todo = Tail(Top.todo)]
<1>1. Top \in Frame /\ Shape(Top) /\ stack \in Seq(Frame) /\ Calls(stack) = Calls(Caller) \cup {Top}
  BY TopView DEF IInv, TypeOK
<1>2. Top.todo \in Seq(Clients)
  BY <1>1 DEF Frame
<1>3. Tail(Top.todo) \in Seq(Clients) /\ Head(Top.todo) \in Clients
      /\ \A x : Has(Top.todo, x) => x = Head(Top.todo) \/ Has(Tail(Top.todo), x)
  BY <1>2, TailList
<1>4. f \in Frame /\ f.todo = Tail(Top.todo) /\ f.pc = Top.pc /\ Same(f, Top)
  BY <1>1, <1>3 DEF Frame, Same
<1>5. K = [stack EXCEPT ![Len(stack)] = f]
  BY DEF Top, Last
<1> HIDE DEF f
<1>6. K = Append(Caller, f)
  BY <1>1, <1>4, <1>5, SetTop DEF Caller
<1>7. /\ f.proc = Top.proc /\ f.client = Top.client /\ f.menu = Top.menu /\ f.mh = Top.mh /\ f.root = Top.root
      /\ f.old = Top.old
  BY <1>4 DEF Same
<1>8. Shape(f)
  BY <1>1, <1>4, <1>7 DEF Shape
<1>9. /\ Early(f) <=> Early(Top)
      /\ Rendering(f) <=> Rendering(Top)
      /\ ForVote(f) <=> ForVote(Top)
      /\ Starting(f) <=> Starting(Top)
      /\ Showing(f) <=> Showing(Top)
      /\ Ignoring(f) <=> Ignoring(Top)
  BY <1>4, <1>7 DEF Early, Rendering, ForVote, Starting, Showing, Ignoring
<1>10. ~Rendering(f)
  BY <1>7, <1>8 DEF Rendering, Shape
<1>11. /\ Base(K) /\ Calls(K) = Calls(Caller) \cup {f} /\ Keeps(K) /\ ShowsNone(K, Voted) /\ Quiet(K)
       /\ f.proc # "Cancel" => TodoOK(K, Clients)
       /\ InCalls(K) = IF ForVote(f) THEN InCalls(Caller) + 1 ELSE InCalls(Caller)
  BY <1>4, <1>6, <1>8, <1>9, <1>10, BaseGoesOn
<1>12. /\ InCalls(Caller) \in Nat
       /\ InCalls(stack) = IF ForVote(Top) THEN InCalls(Caller) + 1 ELSE InCalls(Caller)
  BY TopView
<1>13. InCalls(K) = InCalls(stack) /\ InCalls(K) \in Nat
  BY <1>9, <1>11, <1>12
<1>14. \A g \in Calls(stack) : g.proc = "Cancel" => \A d \in Clients : InMenu(d, g.menu) => Has(g.todo, d)
  BY DEF IInv, MenusOK
<1>15. TodoOK(K, Clients \ {Head(Top.todo)})
  BY <1>1, <1>3, <1>4, <1>7, <1>11, <1>14 DEF TodoOK
<1>16. ~InMenu(Head(Top.todo), Top.menu) => TodoOK(K, Clients)
  BY <1>1, <1>3, <1>4, <1>7, <1>11, <1>14 DEF TodoOK
<1>17. \A g \in Calls(K) : \E h \in Calls(stack) : g.proc = h.proc /\ g.menu = h.menu
  BY <1>1, <1>7, <1>11
<1> QED BY <1>3, <1>7, <1>11, <1>13, <1>15, <1>16, <1>17

\* The loop of CancelMenu.
LEMMA CancelMenuNext ==
  ASSUME IInv, \A n \in Menus : ~Doomed(n), CancelMenu, Top.todo # <<>>
  PROVE  IInv'
<1> DEFINE c == Head(Top.todo)
           m == Top.menu
           K == [stack EXCEPT ![Len(stack)].todo = Tail(@)]
           f == CancelFrame(c, FALSE)
<1>1. /\ stack # <<>> /\ Top.proc = "Cancel"
      /\ player' = IF InMenu(c, m) THEN Cancelled(c, FALSE) ELSE player
      /\ stack' = K \o (IF InMenu(c, m) THEN <<f>> ELSE <<>>)
      /\ UNCHANGED <<inGame, menu, vote, calls>>
  BY DEF CancelMenu
<1>2. /\ Base(K) /\ Keeps(K) /\ Quiet(K) /\ ShowsNone(K, Voted) /\ InCalls(K) = InCalls(stack) /\ InCalls(K) \in Nat
      /\ c \in Clients /\ TodoOK(K, Clients \ {c})
      /\ ~InMenu(c, m) => TodoOK(K, Clients)
  BY <1>1, NextClient
<1>3. K \in Seq(Frame)
  BY <1>2 DEF Base
<1>4. calls' \in 0..MaxCalls
  BY <1>1 DEF IInv, TypeOK
<1> HIDE DEF K, c, m, f
<1>5. CASE InMenu(c, m)
  <2>1. player[c].bInMenu /\ player' = Cancelled(c, FALSE) /\ stack' = K \o <<f>>
    BY <1>1, <1>5 DEF InMenu
  <2>2. EndsFor(f, c) /\ Fits(Calls(K), f) /\ f \in Frame
    BY <1>2, <2>1, CancelledOn DEF f
  <2>3. stack' = Append(K, f)
    BY <1>3, <2>1, <2>2
  <2>4. NotPaging(c)
    <3> SUFFICES ASSUME NEW g \in Calls(stack), Redrawing(g), g.client = c PROVE FALSE
      BY DEF NotPaging
    <3>1. Calls(stack) = Calls(Caller) \cup {Top} /\ Fits(Calls(Caller), Top) /\ Shape(Top)
      BY <1>1, TopView
    <3>2. g # Top
      BY <1>1, <3>1 DEF Shape, Redrawing
    <3>3. Pair(g, Top)
      BY <3>1, <3>2 DEF Fits
    <3>4. g.menu # m
      BY <1>1, <3>3 DEF Pair, m
    <3>5. player[c].menu = g.menu
      BY DEF IInv, PlayersOK, Rendering, Redrawing
    <3> QED BY <1>5, <3>4, <3>5 DEF InMenu
  <2> QED BY <1>1, <1>2, <1>4, <2>1, <2>2, <2>3, <2>4, EndsUncounted
<1>6. CASE ~InMenu(c, m)
  <2>1. player' = player /\ stack' = K
    BY <1>1, <1>3, <1>6
  <2>2. /\ inGame' \subseteq Clients /\ m_bCancelled' \in BOOLEAN /\ m_displayTimer' \in BOOLEAN /\ timers' \in Nat
        /\ m_Clients' \in Nat /\ m_Clients' = m_Clients
        /\ UNCHANGED <<player, menu, m_pCurMenu, m_bStarted, m_NumVotes, m_Votes, m_ClientVotes>>
    BY <1>1, <2>1 DEF IInv, TypeOK, vote
  <2>3. m_Clients' = m_Clients + InCalls(stack') - InCalls(stack) /\ InCalls(stack) \in Nat /\ InCalls(stack') \in Nat
    BY <1>2, <2>1, <2>2
  <2> QED BY <1>2, <1>4, <1>6, <2>1, <2>2, <2>3, CallsChange
<1> QED BY <1>5, <1>6

\* A call with an AutoHandleRooter, by its parts.
RootedIf(f) == f.root <=> ~menu[f.menu].closed

LEMMA RootedCall ==
  ASSUME TypeOK,
         NEW proc \in {"StartVote", "DoClientMenu", "_CancelClientMenu", "ClientPressedKey", "EndVoting",
                      "Cancel", "Destroy", "Disconnect"},
         NEW pc \in Callbacks \cup {"loop", "start", "render", "end", "done", "delete", "listeners", "votes"},
         NEW c \in Clients \cup {NULL}, NEW m \in Menus, NEW mh \in {"vote", "plugin"},
         NEW f, f = Rooting(Call(proc, pc, c, m, mh))
  PROVE  /\ f \in Frame /\ f.proc = proc /\ f.pc = pc /\ f.client = c /\ f.menu = m /\ f.mh = mh /\ f.old = NULL
         /\ RootedIf(f)
<1> DEFINE r == ~menu[m].closed
<1>1. f = [ proc |-> proc, pc |-> pc, client |-> c, menu |-> m, mh |-> mh, root |-> r, old |-> NULL, todo |-> <<>> ]
  BY DEF Rooting, Call
<1>2. r \in BOOLEAN /\ (r <=> ~menu[m].closed) /\ <<>> \in Seq(Clients) /\ NULL \in BOOLEAN \cup {NULL}
  OBVIOUS
<1> HIDE DEF r
<1>3. [ proc |-> proc, pc |-> pc, client |-> c, menu |-> m, mh |-> mh, root |-> r, old |-> NULL, todo |-> <<>> ] \in Frame
  BY <1>2 DEF Frame
<1>4. f.proc = proc /\ f.pc = pc /\ f.client = c /\ f.menu = m /\ f.mh = mh /\ f.old = NULL
  BY <1>1
<1>5. f.root = r
  BY <1>1
<1>6. RootedIf(f)
  BY <1>2, <1>4, <1>5 DEF RootedIf
<1> QED BY <1>1, <1>3, <1>4, <1>6

\* A key is pressed.
LEMMA Pressed ==
  ASSUME IInv, \A n \in Menus : ~Doomed(n), NEW c \in Clients, player[c].bInMenu, stack = <<>>,
         NEW pc \in {"OnMenuSelect", "OnMenuRedrawItem", "OnMenuCancel"},
         NEW f, f = Rooting(Call("ClientPressedKey", pc, c, player[c].menu, player[c].mh))
  PROVE  /\ f \in Frame /\ Harmless(f) /\ ~Starts(f) /\ ~Showing(f) /\ Fits(Calls(stack), f)
         /\ f.client = c /\ f.pc = pc /\ f.menu = player[c].menu /\ f.mh = player[c].mh
         /\ pc # "OnMenuRedrawItem" => EndsFor(f, c)
         /\ NotPaging(c)
<1> DEFINE m == player[c].menu
<1>0. /\ NULL \notin Menus /\ NULL \notin BOOLEAN /\ m \in Menus /\ ~Gone(m)
      /\ player[c].mh \in {"vote", "plugin"} /\ HandledBy(m, player[c].mh)
  <2>1. m \in Menus /\ ~Gone(m)
    BY NotGone
  <2> QED BY <2>1, VotingAssumption DEF Menus, IInv, TypeOK, CBaseMenuPlayer, PlayersOK
<1>1. /\ "ClientPressedKey" \in {"StartVote", "DoClientMenu", "_CancelClientMenu", "ClientPressedKey", "EndVoting",
                      "Cancel", "Destroy", "Disconnect"}
      /\ pc \in Callbacks \cup {"loop", "start", "render", "end", "done", "delete", "listeners", "votes"}
      /\ c \in Clients \cup {NULL} /\ TypeOK
  BY DEF Callbacks, IInv
<1>2. /\ f \in Frame /\ f.proc = "ClientPressedKey" /\ f.pc = pc /\ f.client = c /\ f.menu = m /\ f.mh = player[c].mh
      /\ f.old = NULL /\ RootedIf(f)
  BY <1>0, <1>1, RootedCall
<1>3. ~menu[m].closed
  BY <1>0, Anchored, NoCalls
<1> HIDE DEF m
<1>4. f.root
  BY <1>2, <1>3 DEF RootedIf
<1>5. Harmless(f) /\ ~Starts(f) /\ ~Showing(f) /\ (pc # "OnMenuRedrawItem" => ~Rendering(f))
  BY <1>0, <1>2, <1>3 DEF Harmless, Rendering, Starts, Starting, Early, Showing
<1>6. Shape(f)
  BY <1>0, <1>2, <1>4 DEF Shape
<1>7. Anchor(f, m)
  BY <1>2, <1>4 DEF Anchor
<1>8. Fits(Calls(stack), f)
  BY <1>0, <1>2, <1>6, <1>7, NoCalls DEF Fits
<1>9. pc # "OnMenuRedrawItem" => (ForVote(f) <=> InVoteMenu(c))
  BY <1>2 DEF ForVote, InVoteMenu
<1>10. NotPaging(c)
  BY NoCalls DEF NotPaging
<1> QED BY <1>2, <1>5, <1>8, <1>9, <1>10 DEF EndsFor, m

\* Nobody ignores menus while no call is under way.
LEMMA NobodyIgnores ==
  ASSUME IInv, stack = <<>>
  PROVE  \A c \in Clients : ~player[c].bAutoIgnore
  BY NoCalls DEF IInv, PlayersOK

\* The menu ends.
LEMMA PressedEnd ==
  ASSUME IInv, NEW c \in Clients, stack = <<>>, player[c].bInMenu,
         \/ player' = [player EXCEPT ![c].bInMenu = FALSE]
         \/ player' = [player EXCEPT ![c].bInMenu = FALSE, ![c].bAutoIgnore = FALSE]
  PROVE  player' = Cancelled(c, FALSE)
<1>1. ~player[c].bAutoIgnore /\ player \in [Clients -> CBaseMenuPlayer]
  BY NobodyIgnores DEF IInv, TypeOK
<1>2. player[c] \in CBaseMenuPlayer /\ player[c].bAutoIgnore = FALSE
  BY <1>1 DEF CBaseMenuPlayer
<1>3. [player[c] EXCEPT !.bInMenu = FALSE] = [[player[c] EXCEPT !.bInMenu = FALSE] EXCEPT !.bAutoIgnore = FALSE]
  BY <1>2 DEF CBaseMenuPlayer
<1> QED BY <1>1, <1>2, <1>3 DEF Cancelled

LEMMA PressExitStep ==
  ASSUME IInv, \A n \in Menus : ~Doomed(n), NEW c \in Clients, PressExit(c)
  PROVE  IInv'
<1> DEFINE f == Rooting(Call("ClientPressedKey", "OnMenuCancel", c, player[c].menu, player[c].mh))
<1>1. /\ stack = <<>> /\ player[c].bInMenu /\ player' = [player EXCEPT ![c].bInMenu = FALSE] /\ stack' = <<f>>
      /\ UNCHANGED <<inGame, menu, vote, calls>>
  BY DEF PressExit
<1>2. Base(stack) /\ Quiet(stack) /\ TodoOK(stack, Clients \ {c}) /\ ShowsNone(stack, Voted)
  BY SameGood
<1>3. EndsFor(f, c) /\ Fits(Calls(stack), f) /\ f \in Frame /\ NotPaging(c)
  BY <1>1, Pressed
<1>4. player' = Cancelled(c, FALSE)
  BY <1>1, PressedEnd
<1> HIDE DEF f
<1>5. stack' = Append(stack, f) /\ calls' \in 0..MaxCalls
  BY <1>1, <1>3 DEF IInv, TypeOK
<1> QED BY <1>1, <1>2, <1>3, <1>4, <1>5, EndsUncounted

LEMMA PressItemStep ==
  ASSUME IInv, \A n \in Menus : ~Doomed(n), NEW c \in Clients, NEW i \in Items, PressItem(c, i)
  PROVE  IInv'
<1> DEFINE f == Rooting(Call("ClientPressedKey", "OnMenuSelect", c, player[c].menu, player[c].mh))
           V == m_ClientVotes
<1>1. /\ stack = <<>> /\ player[c].bInMenu /\ player' = [player EXCEPT ![c].bInMenu = FALSE] /\ stack' = <<f>>
      /\ UNCHANGED <<inGame, menu, m_pCurMenu, m_bStarted, m_bCancelled, m_Clients, m_displayTimer, timers, calls>>
      /\ IF player[c].mh = "vote"
         THEN /\ m_ClientVotes' = [m_ClientVotes EXCEPT ![c] = i]
              /\ m_Votes' = [m_Votes EXCEPT ![i] = @ + 1]
              /\ m_NumVotes' = m_NumVotes + 1
         ELSE UNCHANGED <<m_ClientVotes, m_Votes, m_NumVotes>>
  BY DEF PressItem
<1>2. Base(stack) /\ Quiet(stack) /\ TodoOK(stack, Clients \ {c}) /\ ShowsNone(stack, Voted)
  BY SameGood
<1>3. EndsFor(f, c) /\ Fits(Calls(stack), f) /\ f \in Frame /\ ~Showing(f) /\ ~Starts(f) /\ NotPaging(c)
  BY <1>1, Pressed
<1>4. player' = Cancelled(c, FALSE)
  BY <1>1, PressedEnd
<1> HIDE DEF f
<1>5. stack' = Append(stack, f)
  BY <1>1, <1>3
<1>6. /\ player' \in [Clients -> CBaseMenuPlayer] /\ stack' \in Seq(Frame)
      /\ FramesOK(stack') /\ PlayersOK' /\ MenusOK' /\ VoteOK' /\ Calls(stack') = Calls(stack) \cup {f}
      /\ \A d \in Clients : InVoteMenu(d)' => InVoteMenu(d) /\ d # c
      /\ ShowsNone(stack', Voted)
      /\ \A g \in Calls(stack)' : Early(g) => \E h \in Calls(stack) : Early(h)
  BY <1>1, <1>2, <1>3, <1>4, <1>5, EndStep
<1>7. \A d \in Clients : V[d] \in -2..(NItems - 1)
  BY DEF IInv, TypeOK, VOTE_NOT_VOTING
<1>8. i \in Nat /\ i \in -2..(NItems - 1)
  BY VotingAssumption DEF Items
<1>9. TypeOK'
  <2>1. V \in [Clients -> -2..(NItems - 1)] /\ m_Votes \in [Items -> Nat] /\ m_NumVotes \in Nat
    BY DEF IInv, TypeOK, VOTE_NOT_VOTING
  <2>2. V' \in [Clients -> -2..(NItems - 1)]
    BY <1>1, <1>8, <2>1
  <2>3. m_Votes' \in [Items -> Nat] /\ m_NumVotes' \in Nat
    BY <1>1, <2>1
  <2> QED BY <1>1, <1>6, <2>2, <2>3 DEF IInv, TypeOK, VOTE_NOT_VOTING
<1>10. \A g \in Calls(stack)' : ~Showing(g) /\ ~Early(g)
  BY <1>1, <1>3, <1>6, NoCalls DEF Starts
<1>11. CountedOK'
  <2>1. CASE player[c].mh # "vote"
    <3>1. UNCHANGED <<m_Votes, m_NumVotes, m_ClientVotes, m_pCurMenu>>
      BY <1>1, <2>1
    <3> QED BY <1>6, <3>1, NobodyVoted DEF IInv, TypeOK
  <2>2. CASE player[c].mh = "vote"
    <3>1. InVoteMenu(c) /\ c \notin Voted /\ m_pCurMenu # NULL
      BY <1>1, <2>2, VotingAssumption DEF InVoteMenu, IInv, CountedOK, VoteOK, PlayersOK, HandledBy
    <3>2. VotesOK /\ m_NumVotes >= Cardinality(Voted)
      BY <3>1 DEF IInv, CountedOK, IsVoteInProgress, VotesOK, Voted
    <3>3. V' = [V EXCEPT ![c] = i] /\ m_Votes' = [m_Votes EXCEPT ![i] = @ + 1] /\ m_NumVotes' = m_NumVotes + 1
      BY <1>1, <2>2
    <3>4. V \in [Clients -> -2..(NItems - 1)] /\ m_Votes \in [Items -> Nat] /\ m_NumVotes \in Nat
      BY DEF IInv, TypeOK, VOTE_NOT_VOTING
    <3>5. V[c] < 0
      BY <1>7, <3>1 DEF Voted
    <3>6. Voted' = Voted \cup {c}
      BY <1>7, <1>8, <3>3, <3>4 DEF Voted
    <3>7. Cardinality(Voted \cup {c}) = Cardinality(Voted) + 1 /\ Cardinality(Voted) \in Nat
      BY <3>1, CountClients DEF Voted
    <3>8. (m_NumVotes >= Cardinality(Voted))'
      <4>1. Cardinality(Voted)' = Cardinality(Voted \cup {c})
        BY <3>6
      <4> QED BY <3>2, <3>3, <3>4, <3>7, <4>1
    <3>9. ASSUME NEW j \in Items PROVE m_Votes'[j] = Cardinality({d \in Clients : V'[d] = j})
      <4>1. m_Votes[j] = Cardinality({d \in Clients : V[d] = j})
        BY <3>1, <3>2 DEF VotesOK, IsVoteInProgress
      <4>2. CASE j = i
        <5> DEFINE A == {d \in Clients : V[d] = j}
        <5>1. {d \in Clients : V'[d] = j} = A \cup {c}
          BY <3>3, <3>4, <4>2
        <5>2. c \notin A /\ A \subseteq Clients
          BY <1>8, <3>5, <4>2
        <5>3. Cardinality(A \cup {c}) = Cardinality(A) + 1
          BY <5>2, CountClients
        <5>4. m_Votes'[j] = m_Votes[j] + 1
          BY <3>3, <3>4, <4>2
        <5> QED BY <4>1, <5>1, <5>3, <5>4
      <4>3. CASE j # i
        <5>1. {d \in Clients : V'[d] = j} = {d \in Clients : V[d] = j}
          <6>1. j >= 0 /\ j \in Int
            BY VotingAssumption DEF Items
          <6> QED BY <3>3, <3>4, <3>5, <4>3, <6>1
        <5>2. m_Votes'[j] = m_Votes[j]
          BY <3>3, <3>4, <4>3
        <5> QED BY <4>1, <5>1, <5>2
      <4> QED BY <4>2, <4>3
    <3>10. VotesOK'
      BY <3>8, <3>9 DEF VotesOK, Voted
    <3>11. \A d \in Clients : InVoteMenu(d)' => d \notin Voted'
      BY <1>6, <3>6 DEF IInv, CountedOK
    <3> QED BY <1>10, <3>10, <3>11 DEF CountedOK
  <2> QED BY <2>1, <2>2
<1> QED BY <1>6, <1>9, <1>11 DEF IInv

\* Client c, who saw a menu, sees it and ignores others.
LEMMA IgnoresToo ==
  ASSUME IInv, NEW c \in Clients, player' = [player EXCEPT ![c].bAutoIgnore = TRUE]
  PROVE  /\ player' \in [Clients -> CBaseMenuPlayer]
         /\ \A d \in Clients :
              /\ player'[d].menu = player[d].menu /\ player'[d].mh = player[d].mh
              /\ player'[d].bInMenu <=> player[d].bInMenu
              /\ player'[d].bAutoIgnore <=> player[d].bAutoIgnore \/ d = c
<1>1. player \in [Clients -> CBaseMenuPlayer]
  BY DEF IInv, TypeOK
<1>2. player'[c] = [player[c] EXCEPT !.bAutoIgnore = TRUE] /\ player[c] \in CBaseMenuPlayer
  BY <1>1
<1>3. /\ player'[c].menu = player[c].menu /\ player'[c].mh = player[c].mh
      /\ player'[c].bAutoIgnore = TRUE /\ player'[c].bInMenu = player[c].bInMenu
  BY <1>2 DEF CBaseMenuPlayer
<1>4. \A d \in Clients : d # c => player'[d] = player[d]
  BY <1>1
<1>5. player' \in [Clients -> CBaseMenuPlayer]
  <2> DEFINE r == [player[c] EXCEPT !.bAutoIgnore = TRUE]
  <2>1. r \in CBaseMenuPlayer
    BY <1>2 DEF CBaseMenuPlayer
  <2>2. player' = [player EXCEPT ![c] = r]
    BY <1>1
  <2> HIDE DEF r
  <2> QED BY <1>1, <2>1, <2>2
<1> QED BY <1>3, <1>4, <1>5

LEMMA PressPageStep ==
  ASSUME IInv, \A n \in Menus : ~Doomed(n), NEW c \in Clients, PressPage(c)
  PROVE  IInv'
<1> DEFINE f == Rooting(Call("ClientPressedKey", "OnMenuRedrawItem", c, player[c].menu, player[c].mh))
<1>1. /\ stack = <<>> /\ player[c].bInMenu /\ player' = [player EXCEPT ![c].bAutoIgnore = TRUE]
      /\ stack' = <<f>>
      /\ UNCHANGED <<inGame, menu, vote, calls>>
  BY DEF PressPage
<1>2. /\ player' \in [Clients -> CBaseMenuPlayer]
      /\ \A d \in Clients :
           /\ player'[d].menu = player[d].menu /\ player'[d].mh = player[d].mh
           /\ player'[d].bInMenu <=> player[d].bInMenu
           /\ player'[d].bAutoIgnore <=> player[d].bAutoIgnore \/ d = c
  BY <1>1, IgnoresToo
<1>3. /\ f \in Frame /\ Harmless(f) /\ ~Starts(f) /\ ~Showing(f) /\ Fits(Calls(stack), f)
      /\ f.client = c /\ f.pc = "OnMenuRedrawItem" /\ f.menu = player[c].menu /\ f.mh = player[c].mh
  BY <1>1, Pressed
<1> HIDE DEF f
<1>4. stack' = Append(stack, f) /\ stack \in Seq(Frame)
  BY <1>1, <1>3, NoCalls
<1>5. Ignoring(f) /\ Redrawing(f) /\ ~ForVote(f)
  BY <1>3 DEF Ignoring, Rendering, Redrawing, ForVote
<1>6. /\ stack' \in Seq(Frame) /\ Calls(stack') = {f} /\ Calls(stack) = {} /\ FramesOK(stack')
      /\ InCalls(stack) \in Nat /\ InCalls(stack') = InCalls(stack)
  <2>1. Calls(stack) = {} /\ FramesOK(stack)
    BY <1>1, NoCalls DEF IInv
  <2>2. stack' \in Seq(Frame) /\ Calls(stack') = Calls(stack) \cup {f} /\ FramesOK(stack')
    BY <1>3, <1>4, <2>1, Push
  <2>3. InCalls(stack) \in Nat /\ InCalls(stack') = InCalls(stack)
    BY <1>3, <1>4, <1>5, CountPush
  <2> QED BY <2>1, <2>2, <2>3
<1>7. /\ UNCHANGED <<inGame, menu, m_pCurMenu, m_bStarted, m_bCancelled, m_Clients, m_NumVotes, m_Votes,
                     m_ClientVotes, m_displayTimer, timers, calls>>
  BY <1>1 DEF vote
<1>8. TypeOK'
  BY <1>2, <1>6, <1>7 DEF IInv, TypeOK
<1>9. PlayersOK'
  <2>1. \A d \in Clients : player'[d].bInMenu => HandledBy(player'[d].menu, player'[d].mh)
    BY <1>2 DEF IInv, PlayersOK
  <2>2. \A d \in Clients : player'[d].bAutoIgnore => d = c
    BY <1>1, <1>2, NobodyIgnores
  <2>3. /\ player'[c].bAutoIgnore /\ player'[c].bInMenu
        /\ player'[c].menu = f.menu /\ player'[c].mh = f.mh
    BY <1>1, <1>2, <1>3
  <2> QED BY <1>3, <1>5, <1>6, <2>1, <2>2, <2>3 DEF PlayersOK
<1>10. \A d \in Clients, m \in Menus : InMenu(d, m)' => InMenu(d, m)
  BY <1>2 DEF InMenu
<1>11. MenusOK'
  <2>1. MenusOK /\ menu' = menu /\ m_pCurMenu' \in {m_pCurMenu, NULL}
    BY <1>7 DEF IInv
  <2>2. \A g \in Calls(stack)' : Harmless(g) /\ g.proc # "Cancel"
    BY <1>3, <1>6 DEF Harmless
  <2> QED BY <1>6, <1>10, <2>1, <2>2, MenusKept
<1>12. \A d \in Clients : InVoteMenu(d)' <=> InVoteMenu(d)
  BY <1>2 DEF InVoteMenu
<1>13. VoteOK'
  <2>1. VoteOK /\ UNCHANGED <<m_pCurMenu, m_bStarted, m_Clients>>
    BY <1>7 DEF IInv
  <2>2. (m_Clients = Cardinality({d \in Clients : InVoteMenu(d)}) + InCalls(stack))'
    <3>1. {d \in Clients : InVoteMenu(d)}' = {d \in Clients : InVoteMenu(d)}
      BY <1>12
    <3> QED BY <1>6, <2>1, <3>1 DEF VoteOK
  <2>3. \A d \in Clients : InVoteMenu(d)' => m_pCurMenu = player'[d].menu
    BY <1>2, <1>12, <2>1 DEF VoteOK
  <2> QED BY <1>3, <1>5, <1>6, <2>1, <2>2, <2>3, VoteKept DEF Starts
<1>14. CountedOK'
  <2>1. ShowsNone(stack', Voted) /\ \A g \in Calls(stack)' : ~Early(g)
    BY <1>3, <1>6 DEF ShowsNone, Starts
  <2> QED BY <1>7, <1>12, <2>1, NobodyVoted DEF IInv, TypeOK
<1> QED BY <1>6, <1>8, <1>9, <1>11, <1>13, <1>14 DEF IInv

-----------------------------------------------------------------------------
(* A menu is shown.                                                        *)

LEMMA ShowStep ==
  ASSUME IInv, \A n \in Menus : ~Doomed(n), NEW c \in Clients, NEW m \in Menus, NEW mh \in {"vote", "plugin"},
         HandledBy(m, mh), ~Gone(m), mh = "vote" => m_pCurMenu = m,
         NEW K, Base(K), Keeps(K), Quiet(K), TodoOK(K, Clients), InCalls(K) = InCalls(stack),
         NEW S, ShowsNone(K, S), c \notin S,
         Display(c, m, mh, K), UNCHANGED <<player, menu, m_pCurMenu, m_bStarted>>
  PROVE  /\ m_Clients' \in Nat /\ stack' \in Seq(Frame) /\ FramesOK(stack') /\ PlayersOK' /\ MenusOK' /\ VoteOK'
         /\ ShowsNone(stack', S)
         /\ \A d \in Clients : InVoteMenu(d)' => InVoteMenu(d)
         /\ \A g \in Calls(stack)' : Early(g) => \E h \in Calls(stack) : Early(h)
<1> DEFINE f == Rooting(Call("DoClientMenu", IF mh = "vote" THEN "start" ELSE "OnMenuStart", c, m, mh))
<1>1. /\ menu[m].m_bCancelling => stack' = K /\ m_Clients' = m_Clients
      /\ ~menu[m].m_bCancelling =>
           stack' = Append(K, f) /\ m_Clients' = IF mh = "vote" THEN m_Clients + 1 ELSE m_Clients
  BY DEF Display
<1>2. m_Clients \in Nat /\ K \in Seq(Frame) /\ InCalls(K) \in Nat
  <2>1. K \in Seq(Frame) /\ m_Clients \in Nat
    BY DEF Base, IInv, TypeOK
  <2>2. InCalls(stack) \in Nat
    BY CountType DEF IInv, TypeOK
  <2> QED BY <2>1, <2>2
<1> HIDE DEF f
<1>3. /\ Base(stack') /\ Quiet(stack') /\ TodoOK(stack', Clients) /\ ShowsNone(stack', S)
      /\ InCalls(stack') \in Nat /\ m_Clients' \in Nat /\ m_Clients' = m_Clients + InCalls(stack') - InCalls(stack)
      /\ m_bStarted /\ m_Clients' = 0 => m_Clients = 0
  <2>1. CASE menu[m].m_bCancelling
    BY <1>1, <1>2, <2>1
  <2>2. CASE ~menu[m].m_bCancelling
    <3>1. \A g \in Calls(K) : g.proc = "Cancel" => \E h \in Calls(stack) : h.proc = "Cancel" /\ h.menu = g.menu
      BY DEF Base, Harmless, Like
    <3>2. \A g \in Calls(stack) : Anchor(g, m) => \E h \in Calls(K) : Anchor(h, m)
      BY DEF Keeps
    <3>3. /\ f \in Frame /\ Fits(Calls(K), f) /\ Harmless(f) /\ ~Rendering(f) /\ f.client = c
          /\ (ForVote(f) <=> mh = "vote") /\ (ForVote(f) => f.menu = m)
      BY <2>2, <3>1, <3>2, DisplayFits DEF f
    <3>4. ForVote(f) => m_pCurMenu = f.menu
      BY <3>3
    <3>5. /\ Base(stack') /\ Quiet(stack') /\ TodoOK(stack', Clients) /\ ShowsNone(stack', S)
          /\ InCalls(stack') = IF ForVote(f) THEN InCalls(K) + 1 ELSE InCalls(K)
      <4>1. stack' = Append(K, f)
        BY <1>1, <2>2
      <4>2. /\ Base(Append(K, f)) /\ InCalls(Append(K, f)) = IF ForVote(f) THEN InCalls(K) + 1 ELSE InCalls(K)
            /\ Quiet(K) /\ ~Rendering(f) => Quiet(Append(K, f))
            /\ TodoOK(K, Clients) => TodoOK(Append(K, f), Clients)
            /\ ShowsNone(K, S) /\ (Showing(f) => f.client \notin S) => ShowsNone(Append(K, f), S)
        BY <3>3, <3>4, BaseCalls
      <4> QED BY <3>3, <4>1, <4>2
    <3>6. m_Clients' = IF ForVote(f) THEN m_Clients + 1 ELSE m_Clients
      BY <1>1, <2>2, <3>3
    <3> QED BY <1>2, <3>5, <3>6
  <2> QED BY <2>1, <2>2
<1>4. /\ (m_Clients = Cardinality({d \in Clients : InVoteMenu(d)}) + InCalls(stack))'
      /\ SeesLess(Clients)
  BY <1>2, <1>3, SameCount
<1>5. /\ MenusOK' /\ VoteOK' /\ FramesOK(stack') /\ stack' \in Seq(Frame)
      /\ \A d \in Clients : InVoteMenu(d)' => InVoteMenu(d)
      /\ \A g \in Calls(stack)' : Early(g) => \E h \in Calls(stack) : Early(h)
  BY <1>3, <1>4, StateKept
<1>6. PlayersOK'
  BY <1>3, PlayersSame DEF IInv, Quiet
<1> QED BY <1>3, <1>5, <1>6

LEMMA DisplayMenuStep ==
  ASSUME IInv, \A n \in Menus : ~Doomed(n), NEW c \in Clients, DisplayMenu(c)
  PROVE  IInv'
<1>1. /\ Display(c, Plain, "plugin", stack) /\ calls' = calls + 1 /\ calls < MaxCalls
      /\ UNCHANGED <<inGame, player, menu, m_pCurMenu, m_bStarted, m_bCancelled, m_NumVotes, m_Votes, m_ClientVotes,
                     m_displayTimer, timers>>
  BY DEF DisplayMenu
<1>2. Base(stack) /\ Keeps(stack) /\ Quiet(stack) /\ TodoOK(stack, Clients) /\ ShowsNone(stack, Voted)
  BY SameGood
<1>3. Plain \in Menus /\ ~Gone(Plain) /\ HandledBy(Plain, "plugin")
  BY NotGone DEF HandledBy, Menus, DisplayMenu
<1>4. ShowsNone(stack, Voted \ {c}) /\ c \notin Voted \ {c}
  BY <1>2 DEF ShowsNone
<1>5. /\ m_Clients' \in Nat /\ stack' \in Seq(Frame) /\ FramesOK(stack') /\ PlayersOK' /\ MenusOK' /\ VoteOK'
      /\ \A d \in Clients : InVoteMenu(d)' => InVoteMenu(d)
      /\ \A g \in Calls(stack)' : Early(g) => \E h \in Calls(stack) : Early(h)
  BY <1>1, <1>2, <1>3, <1>4, ShowStep
<1>6. TypeOK'
  BY <1>1, <1>5, VotingAssumption DEF IInv, TypeOK
<1>7. ShowsNone(stack', Voted)
  <2> DEFINE f == Rooting(Call("DoClientMenu", "OnMenuStart", c, Plain, "plugin"))
  <2>1. stack' = stack \/ stack' = Append(stack, f)
    BY <1>1 DEF Display
  <2>2. /\ "DoClientMenu" \in {"StartVote", "DoClientMenu", "_CancelClientMenu", "ClientPressedKey", "EndVoting",
                      "Cancel", "Destroy", "Disconnect"}
        /\ "OnMenuStart" \in Callbacks \cup {"loop", "start", "render", "end", "done", "delete", "listeners", "votes"}
        /\ c \in Clients \cup {NULL} /\ TypeOK /\ stack \in Seq(Frame)
    BY DEF Callbacks, IInv, TypeOK
  <2>3. f \in Frame /\ f.mh = "plugin"
    BY <1>3, <2>2, RootedCall
  <2> HIDE DEF f
  <2>4. stack' = Append(stack, f) => Calls(stack') = Calls(stack) \cup {f}
    BY <2>2, <2>3, Push
  <2> QED BY <1>2, <2>1, <2>3, <2>4 DEF ShowsNone, Showing
<1>8. CountedOK'
  BY <1>1, <1>5, <1>7, NobodyVoted DEF IInv, TypeOK
<1> QED BY <1>5, <1>6, <1>8 DEF IInv

\* A vote is taken back.
LEMMA Withdraws ==
  ASSUME IInv, NEW c \in Clients, c \in Voted, IsVoteInProgress,
         NEW x \in {VOTE_NOT_VOTING, VOTE_PENDING}, m_ClientVotes' = [m_ClientVotes EXCEPT ![c] = x],
         m_Votes' = Withdrawn(c, m_Votes), m_NumVotes' \in {m_NumVotes, m_NumVotes - 1},
         m_pCurMenu' = m_pCurMenu, \A d \in Clients : InVoteMenu(d)' => InVoteMenu(d),
         ShowsNone(stack', Voted \ {c}),
         \A g \in Calls(stack)' : Early(g) => \E h \in Calls(stack) : Early(h)
  PROVE  /\ m_ClientVotes' \in [Clients -> VOTE_NOT_VOTING..(NItems - 1)]
         /\ m_Votes' \in [Items -> Nat] /\ m_NumVotes' \in Nat
         /\ CountedOK'
<1> DEFINE V == m_ClientVotes
           k == V[c]
<1>1. /\ V \in [Clients -> -2..(NItems - 1)] /\ m_Votes \in [Items -> Nat] /\ m_NumVotes \in Nat
      /\ NItems \in Nat \ {0} /\ x \in {-2, -1}
  BY VotingAssumption DEF IInv, TypeOK, VOTE_NOT_VOTING, VOTE_PENDING
<1>2. k \in Items /\ k \in Int /\ k >= 0
  BY <1>1 DEF Voted, Items
<1>3. V' \in [Clients -> -2..(NItems - 1)] /\ V'[c] = x /\ \A d \in Clients : d # c => V'[d] = V[d]
  BY <1>1
<1>4. m_Votes' = [m_Votes EXCEPT ![k] = @ - 1]
  BY DEF Withdrawn
<1>5. VotesOK /\ m_NumVotes >= Cardinality(Voted)
  BY DEF IInv, CountedOK, VotesOK, Voted
<1>6. \A j \in Items : m_Votes[j] = Cardinality({d \in Clients : V[d] = j})
  BY <1>5 DEF VotesOK
<1>7. ASSUME NEW j \in Items PROVE m_Votes'[j] = Cardinality({d \in Clients : V'[d] = j}) /\ m_Votes'[j] \in Nat
  <2>0. j \in Int /\ j >= 0
    BY <1>1 DEF Items
  <2>1. CASE j = k
    <3> DEFINE A == {d \in Clients : V[d] = k}
    <3>1. {d \in Clients : V'[d] = j} = A \ {c}
      BY <1>1, <1>2, <1>3, <2>0, <2>1
    <3>2. c \in A /\ A \subseteq Clients
      OBVIOUS
    <3>3. Cardinality(A \ {c}) = Cardinality(A) - 1 /\ Cardinality(A \ {c}) \in Nat
      <4>1. A \ {c} \subseteq Clients
        OBVIOUS
      <4> HIDE DEF A
      <4>2. Cardinality(A \ {c}) = Cardinality(A) - 1
        BY <3>2, CountClients
      <4>3. Cardinality(A \ {c}) \in Nat
        BY <4>1, CountClients
      <4> QED BY <4>2, <4>3
    <3>4. m_Votes'[j] = m_Votes[k] - 1
      BY <1>1, <1>2, <1>4, <2>1
    <3>5. m_Votes[k] = Cardinality(A)
      BY <1>2, <1>6
    <3> QED BY <3>1, <3>3, <3>4, <3>5
  <2>2. CASE j # k
    <3>1. {d \in Clients : V'[d] = j} = {d \in Clients : V[d] = j}
      <4>1. \A d \in Clients : V'[d] = j <=> V[d] = j
        BY <1>1, <1>3, <2>0, <2>2
      <4> QED BY <4>1
    <3>2. m_Votes'[j] = m_Votes[j]
      BY <1>1, <1>2, <1>4, <2>2
    <3>3. m_Votes[j] \in Nat
      BY <1>1
    <3> QED BY <1>6, <3>1, <3>2, <3>3
  <2> QED BY <2>1, <2>2
<1>8. m_Votes' \in [Items -> Nat]
  <2>1. DOMAIN m_Votes' = Items /\ m_Votes' = [i \in Items |-> m_Votes'[i]]
    BY <1>1, <1>4
  <2> QED BY <1>7, <2>1
<1>9. Voted' = Voted \ {c}
  BY <1>1, <1>3 DEF Voted
<1>10. Cardinality(Voted \ {c}) = Cardinality(Voted) - 1 /\ Cardinality(Voted) \in Nat /\ Cardinality(Voted \ {c}) \in Nat
  <2>1. Voted \subseteq Clients /\ Voted \ {c} \subseteq Clients
    BY DEF Voted
  <2>2. Cardinality(Voted \ {c}) = Cardinality(Voted) - 1 /\ Cardinality(Voted) \in Nat
    BY <2>1, CountClients
  <2>3. Cardinality(Voted \ {c}) \in Nat
    BY <2>1, CountClients
  <2> QED BY <2>2, <2>3
<1>11. m_NumVotes' \in Nat /\ m_NumVotes' >= Cardinality(Voted \ {c})
  BY <1>1, <1>5, <1>10
<1>12. (m_NumVotes >= Cardinality(Voted))'
  BY <1>9, <1>11
<1>13. VotesOK'
  BY <1>7, <1>12 DEF VotesOK, Voted
<1>14. \A d \in Clients : InVoteMenu(d)' => d \notin Voted'
  BY <1>9 DEF IInv, CountedOK
<1>15. \A g \in Calls(stack)' : ~Early(g)
  BY DEF IInv, CountedOK
<1>16. \A g \in Calls(stack)' : Showing(g) => g.client \notin Voted'
  BY <1>9 DEF ShowsNone
<1>17. CountedOK'
  BY <1>13, <1>14, <1>15, <1>16 DEF CountedOK
<1> QED BY <1>3, <1>8, <1>11, <1>17 DEF VOTE_NOT_VOTING

LEMMA RedrawStep ==
  ASSUME IInv, \A n \in Menus : ~Doomed(n), NEW c \in Clients, NEW b \in BOOLEAN, RedrawToClient(c, b)
  PROVE  IInv'
<1>1. /\ IsVoteInProgress /\ m_ClientVotes[c] > VOTE_NOT_VOTING /\ calls < MaxCalls /\ calls' = calls + 1
      /\ Display(c, m_pCurMenu, "vote", stack)
      /\ UNCHANGED <<inGame, player, menu, m_pCurMenu, m_bStarted, m_bCancelled, m_displayTimer, timers>>
      /\ m_ClientVotes[c] >= 0 =>
           /\ m_Votes' = Withdrawn(c, m_Votes) /\ m_NumVotes' = m_NumVotes - 1
           /\ m_ClientVotes' = [m_ClientVotes EXCEPT ![c] = VOTE_PENDING]
      /\ ~(m_ClientVotes[c] >= 0) => UNCHANGED <<m_Votes, m_NumVotes, m_ClientVotes>>
  BY DEF RedrawToClient
<1>2. Base(stack) /\ Keeps(stack) /\ Quiet(stack) /\ TodoOK(stack, Clients) /\ ShowsNone(stack, Voted)
  BY SameGood
<1>3. m_pCurMenu \in Menus /\ ~Gone(m_pCurMenu) /\ HandledBy(m_pCurMenu, "vote")
  BY <1>1, NotGone DEF HandledBy, IsVoteInProgress
<1>4. ShowsNone(stack, Voted \ {c}) /\ c \notin Voted \ {c}
  BY <1>2 DEF ShowsNone
<1>5. /\ m_Clients' \in Nat /\ stack' \in Seq(Frame) /\ FramesOK(stack') /\ PlayersOK' /\ MenusOK' /\ VoteOK'
      /\ ShowsNone(stack', Voted \ {c})
      /\ \A d \in Clients : InVoteMenu(d)' => InVoteMenu(d)
      /\ \A g \in Calls(stack)' : Early(g) => \E h \in Calls(stack) : Early(h)
  BY <1>1, <1>2, <1>3, <1>4, ShowStep
<1>6. /\ m_ClientVotes' \in [Clients -> VOTE_NOT_VOTING..(NItems - 1)]
      /\ m_Votes' \in [Items -> Nat] /\ m_NumVotes' \in Nat /\ CountedOK'
  <2>1. CASE m_ClientVotes[c] >= 0
    <3>1. c \in Voted
      BY <2>1 DEF Voted
    <3> QED BY <1>1, <1>5, <2>1, <3>1, Withdraws
  <2>2. CASE ~(m_ClientVotes[c] >= 0)
    <3>1. UNCHANGED <<m_Votes, m_NumVotes, m_ClientVotes>> /\ Voted \ {c} = Voted
      BY <1>1, <2>2 DEF Voted
    <3>2. CountedOK'
      BY <1>1, <1>5, <3>1, NobodyVoted DEF IInv, TypeOK
    <3> QED BY <3>1, <3>2 DEF IInv, TypeOK
  <2> QED BY <2>1, <2>2
<1>7. TypeOK'
  BY <1>1, <1>5, <1>6, VotingAssumption DEF IInv, TypeOK
<1> QED BY <1>5, <1>6, <1>7 DEF IInv

-----------------------------------------------------------------------------
(* A vote starts and ends.                                                 *)

\* A call without an AutoHandleRooter, which may have a loop before it, by its
\* parts.
Looping(frame, todo) == [frame EXCEPT !.todo = todo]
Parts(f, proc, pc, c, m) ==
  /\ f \in Frame /\ f.proc = proc /\ f.pc = pc /\ f.client = c /\ f.menu = m
  /\ f.mh = "plugin" /\ f.old = NULL /\ ~f.root

LEMMA PlainCall ==
  ASSUME NEW proc \in {"StartVote", "DoClientMenu", "_CancelClientMenu", "ClientPressedKey", "EndVoting",
                      "Cancel", "Destroy", "Disconnect"},
         NEW pc \in Callbacks \cup {"loop", "start", "render", "end", "done", "delete", "listeners", "votes"},
         NEW c \in Clients \cup {NULL}, NEW m \in Menus \cup {NULL}
  PROVE  Parts(Call(proc, pc, c, m, "plugin"), proc, pc, c, m)
<1> DEFINE f == Call(proc, pc, c, m, "plugin")
           r == FALSE
<1>1. f = [ proc |-> proc, pc |-> pc, client |-> c, menu |-> m, mh |-> "plugin", root |-> r, old |-> NULL,
            todo |-> <<>> ]
  BY DEF Call
<1>2. r \in BOOLEAN /\ ~r /\ NULL \in BOOLEAN \cup {NULL} /\ <<>> \in Seq(Clients)
  OBVIOUS
<1> HIDE DEF r, f
<1>3. f \in Frame
  BY <1>1, <1>2 DEF Frame
<1>4. f.proc = proc /\ f.pc = pc /\ f.client = c /\ f.menu = m /\ f.mh = "plugin" /\ f.old = NULL
  BY <1>1
<1>5. f.root = r
  BY <1>1
<1>6. Parts(f, proc, pc, c, m)
  BY <1>2, <1>3, <1>4, <1>5 DEF Parts
<1> QED BY <1>6 DEF f

LEMMA LoopCall ==
  ASSUME NEW g, NEW proc, NEW pc, NEW c, NEW m, Parts(g, proc, pc, c, m), NEW todo \in Seq(Clients)
  PROVE  Parts(Looping(g, todo), proc, pc, c, m) /\ Looping(g, todo).todo = todo
<1> DEFINE f == Looping(g, todo)
<1>1. g \in Frame
  BY DEF Parts
<1>2. f \in Frame /\ f.proc = g.proc /\ f.pc = g.pc /\ f.client = g.client /\ f.menu = g.menu /\ f.mh = g.mh
      /\ f.old = g.old /\ f.root = g.root /\ f.todo = todo
  BY <1>1 DEF Looping, Frame
<1> HIDE DEF f
<1>3. Parts(f, proc, pc, c, m)
  BY <1>2 DEF Parts
<1> QED BY <1>2, <1>3 DEF f

\* There is no call and no display of a vote without one.
LEMMA NoVoteNoDisplay ==
  ASSUME IInv, m_pCurMenu = NULL
  PROVE  /\ \A f \in Calls(stack) : ~ForVote(f) /\ ~Early(f)
         /\ \A c \in Clients : ~InVoteMenu(c)
<1>1. NULL \notin Votes
  BY VotingAssumption
<1>2. ASSUME NEW f \in Calls(stack) PROVE ~ForVote(f) /\ ~Early(f)
  <2>1. Shape(f) /\ f \in Frame
    BY AllShapes DEF IInv, TypeOK
  <2>2. Early(f) => f.menu \in Votes
    BY <2>1 DEF Early, Shape
  <2>3. ForVote(f) => f.menu \in Votes
    <3>1. f.proc \in {"StartVote", "DoClientMenu", "_CancelClientMenu", "ClientPressedKey", "EndVoting",
                      "Cancel", "Destroy", "Disconnect"}
      BY <2>1 DEF Frame
    <3> QED BY <2>1, <3>1 DEF ForVote, Shape, HandledBy
  <2> QED BY <1>1, <2>2, <2>3 DEF IInv, VoteOK
<1>3. ASSUME NEW c \in Clients PROVE ~InVoteMenu(c)
  <2>1. InVoteMenu(c) => player[c].menu \in Votes
    BY DEF InVoteMenu, IInv, PlayersOK, HandledBy
  <2> QED BY <1>1, <2>1 DEF IInv, VoteOK
<1> QED BY <1>2, <1>3

LEMMA StartVoteStep ==
  ASSUME IInv, NEW m \in Votes, NEW cs \in UNION {[1..n -> Clients] : n \in 0..Cardinality(Clients)}, StartVote(m, cs)
  PROVE  IInv'
<1> DEFINE f == [Call("StartVote", "OnMenuStart", NULL, m, "plugin") EXCEPT !.todo = cs]
<1>1. /\ m_pCurMenu = NULL /\ ~menu[m].closed /\ calls < MaxCalls /\ calls' = calls + 1 /\ stack' = stack \o <<f>>
      /\ m_pCurMenu' = m /\ m_bStarted' = FALSE /\ m_bCancelled' = FALSE
      /\ m_Clients' = 0 /\ m_NumVotes' = 0 /\ m_displayTimer' = FALSE
      /\ m_Votes' = [i \in Items |-> 0]
      /\ m_ClientVotes' = [c \in Clients |-> VOTE_NOT_VOTING]
      /\ UNCHANGED <<inGame, player, menu, timers>>
  BY DEF StartVote, Native, IsVoteInProgress
<1>2. cs \in Seq(Clients)
  <2>1. PICK n \in 0..Cardinality(Clients) : cs \in [1..n -> Clients]
    OBVIOUS
  <2>2. Cardinality(Clients) \in Nat
    BY CountClients
  <2>3. n \in Nat
    BY <2>2
  <2> QED BY <2>1, <2>3
<1>3. m \in Menus /\ NULL \notin Menus /\ NULL \notin BOOLEAN
  BY VotingAssumption DEF Menus
<1>4. Parts(Call("StartVote", "OnMenuStart", NULL, m, "plugin"), "StartVote", "OnMenuStart", NULL, m)
  BY <1>3, PlainCall DEF Callbacks
<1>a. Parts(f, "StartVote", "OnMenuStart", NULL, m)
  <2> DEFINE g == Call("StartVote", "OnMenuStart", NULL, m, "plugin")
  <2> HIDE DEF g
  <2>1. Parts(Looping(g, cs), "StartVote", "OnMenuStart", NULL, m)
    BY <1>2, <1>4, LoopCall DEF g
  <2> QED BY <2>1 DEF g, Looping
<1> HIDE DEF f
<1>5. /\ f \in Frame /\ f.proc = "StartVote" /\ f.pc = "OnMenuStart" /\ f.client = NULL /\ f.menu = m
      /\ f.mh = "plugin" /\ f.old = NULL
  BY <1>a DEF Parts
<1>6. Early(f) /\ ~Starting(f) /\ ~Rendering(f) /\ ~ForVote(f) /\ ~Showing(f) /\ ~Ignoring(f)
  BY <1>5 DEF Early, Starting, Rendering, ForVote, Showing, Ignoring
<1>7. /\ \A g \in Calls(stack) : ~ForVote(g) /\ ~Early(g)
      /\ \A c \in Clients : ~InVoteMenu(c)
  BY <1>1, NoVoteNoDisplay
<1>8. Fits(Calls(stack), f)
  <2>1. Shape(f)
    BY <1>5 DEF Shape
  <2>2. Anchor(f, m)
    BY <1>5, <1>6 DEF Anchor
  <2>3. \A g \in Calls(stack) : Pair(g, f)
    BY <1>3, <1>5, <1>6, <1>7 DEF Pair
  <2> QED BY <1>3, <1>5, <2>1, <2>2, <2>3 DEF Fits
<1>9. stack \in Seq(Frame) /\ FramesOK(stack)
  BY DEF IInv, TypeOK
<1>10. stack' = Append(stack, f)
  BY <1>1, <1>5, <1>9
<1>11. /\ stack' \in Seq(Frame) /\ FramesOK(stack') /\ Calls(stack') = Calls(stack) \cup {f}
       /\ InCalls(stack') = 0
  <2>1. stack' \in Seq(Frame) /\ FramesOK(stack') /\ Calls(stack') = Calls(stack) \cup {f}
    BY <1>5, <1>8, <1>9, <1>10, Push
  <2>2. InCalls(stack') = 0
    BY <1>5, <1>6, <1>7, <1>9, <1>10, CountPush
  <2> QED BY <2>1, <2>2
<1>12. TypeOK'
  <2>1. m_Votes' \in [Items -> Nat] /\ m_ClientVotes' \in [Clients -> VOTE_NOT_VOTING..(NItems - 1)]
    <3>1. VOTE_NOT_VOTING \in VOTE_NOT_VOTING..(NItems - 1)
      BY VotingAssumption DEF VOTE_NOT_VOTING
    <3> QED BY <1>1, <3>1
  <2>2. calls' \in 0..MaxCalls
    BY <1>1, VotingAssumption DEF IInv, TypeOK
  <2> QED BY <1>1, <1>11, <2>1, <2>2 DEF IInv, TypeOK
<1>13. PlayersOK'
  BY <1>1, <1>6, <1>11, PlayersSame DEF IInv
<1>14. \A c \in Clients : \A n : InMenu(c, n)' <=> InMenu(c, n)
  BY <1>1 DEF InMenu
<1>15. MenusOK'
  <2>1. MenusOK /\ menu' = menu
    BY <1>1 DEF IInv
  <2>2. \A n \in Menus : (\E g \in Calls(stack)' : g.proc = "Destroy" /\ g.menu = n) <=> \E g \in Calls(stack) : g.proc = "Destroy" /\ g.menu = n
    BY <1>5, <1>11
  <2>3. \A n \in Menus : (\E g \in Calls(stack)' : g.proc = "Cancel" /\ g.menu = n) <=> \E g \in Calls(stack) : g.proc = "Cancel" /\ g.menu = n
    BY <1>5, <1>11
  <2>4. \A n \in Menus : (Gone(n)' <=> Gone(n)) /\ (Condemned(n)' <=> Condemned(n))
    BY <2>1, <2>2 DEF Gone, Condemned
  <2>5. ~Gone(m) /\ ~Condemned(m)
    BY <1>1, <1>3, <2>1 DEF MenusOK, Gone, Condemned
  <2>6. ASSUME NEW n \in Menus
        PROVE  /\ menu[n].deleted \/ Condemned(n)' => menu[n].closed
               /\ Condemned(n)' => \A g \in Calls(stack)' : g.menu = n => ~g.root
               /\ menu[n].m_bCancelling <=> \E g \in Calls(stack)' : g.proc = "Cancel" /\ g.menu = n
               /\ menu[n].m_bShouldDelete =>
                    /\ menu[n].deleted \/ menu[n].m_bCancelling
                    /\ \A g \in Calls(stack)' : g.menu = n => g.proc # "Destroy"
               /\ Gone(n)' =>
                    /\ m_pCurMenu' # n
                    /\ \A c \in Clients : ~InMenu(c, n)'
                    /\ \A g \in Calls(stack)' : g.menu = n => g.proc = "Destroy" /\ ~menu[n].deleted
    <3>1. CASE n = m
      BY <1>5, <1>11, <2>1, <2>3, <2>4, <2>5, <3>1, <2>6 DEF MenusOK
    <3>2. CASE n # m
      BY <1>1, <1>5, <1>11, <1>14, <2>1, <2>3, <2>4, <3>2, <2>6 DEF MenusOK
    <3> QED BY <3>1, <3>2
  <2>7. ASSUME NEW g \in Calls(stack)'
        PROVE  /\ Early(g) => ~menu[g.menu].closed
               /\ g.proc = "Cancel" => \A c \in Clients : InMenu(c, g.menu)' => Has(g.todo, c)
    BY <1>1, <1>5, <1>7, <1>11, <1>14, <2>1, <2>7 DEF MenusOK
  <2> QED BY <2>1, <2>6, <2>7 DEF MenusOK
<1>16. VoteOK'
  <2>1. \A c \in Clients : ~InVoteMenu(c)'
    BY <1>1, <1>7 DEF InVoteMenu
  <2>2. Cardinality({c \in Clients : InVoteMenu(c)})' = 0
    <3>1. {c \in Clients : InVoteMenu(c)}' = {}
      BY <2>1
    <3> QED BY <3>1, FS_EmptySet
  <2>3. \A g \in Calls(stack)' : ~ForVote(g) /\ (Early(g) => g = f)
    BY <1>6, <1>7, <1>11
  <2>4. (m_Clients = Cardinality({c \in Clients : InVoteMenu(c)}) + InCalls(stack))'
    BY <1>1, <1>11, <2>2
  <2> QED BY <1>1, <1>3, <1>5, <1>6, <1>11, <2>1, <2>3, <2>4 DEF VoteOK
<1>17. CountedOK'
  <2>1. Voted' = {}
    BY <1>1 DEF Voted, VOTE_NOT_VOTING
  <2>2. Cardinality(Voted)' = 0 /\ m_NumVotes' = 0
    BY <1>1, <2>1, FS_EmptySet
  <2>3. VotesOK'
    <3>1. ASSUME NEW i \in Items PROVE m_Votes'[i] = Cardinality({c \in Clients : m_ClientVotes'[c] = i})
      <4>1. i # -2
        BY VotingAssumption DEF Items
      <4>2. {c \in Clients : m_ClientVotes'[c] = i} = {}
        BY <1>1, <4>1 DEF VOTE_NOT_VOTING
      <4> QED BY <1>1, <4>2, FS_EmptySet
    <3>2. (m_NumVotes >= Cardinality(Voted))'
      BY <2>2
    <3> QED BY <3>1, <3>2 DEF VotesOK, Voted
  <2> QED BY <2>1, <2>3 DEF CountedOK
<1> QED BY <1>11, <1>12, <1>13, <1>15, <1>16, <1>17 DEF IInv

\* StartVote shows the menu to the next client.
LEMMA StartVoteNext ==
  ASSUME IInv, \A n \in Menus : ~Doomed(n), StartVoteLoop, Top.todo # <<>>
  PROVE  IInv'
<1> DEFINE c == Head(Top.todo)
           K == [stack EXCEPT ![Len(stack)].todo = Tail(@)]
<1>1. /\ stack # <<>> /\ Top.proc = "StartVote" /\ Top.pc = "loop" /\ Display(c, Top.menu, "vote", K)
      /\ UNCHANGED <<inGame, player, menu, m_pCurMenu, m_bStarted, m_bCancelled, m_NumVotes, m_Votes,
                     m_ClientVotes, m_displayTimer, timers, calls>>
  BY DEF StartVoteLoop
<1>2. /\ Base(K) /\ Keeps(K) /\ Quiet(K) /\ ShowsNone(K, Voted) /\ InCalls(K) = InCalls(stack)
      /\ c \in Clients /\ TodoOK(K, Clients)
  BY <1>1, NextClient
<1>3. Early(Top) /\ Top \in Calls(stack)
  BY <1>1, TopView DEF Early
<1>4. m_pCurMenu = Top.menu /\ Voted = {} /\ Top.menu \in Votes
  BY <1>1, <1>3, TopView DEF IInv, VoteOK, CountedOK, Shape
<1>5. m_pCurMenu \in Menus /\ ~Gone(m_pCurMenu) /\ HandledBy(m_pCurMenu, "vote")
  BY <1>4, NotGone, VotingAssumption DEF HandledBy
<1> HIDE DEF K, c
<1>6. /\ m_Clients' \in Nat /\ stack' \in Seq(Frame) /\ FramesOK(stack') /\ PlayersOK' /\ MenusOK' /\ VoteOK'
      /\ ShowsNone(stack', Voted)
      /\ \A d \in Clients : InVoteMenu(d)' => InVoteMenu(d)
      /\ \A g \in Calls(stack)' : Early(g) => \E h \in Calls(stack) : Early(h)
  BY <1>1, <1>2, <1>4, <1>5, ShowStep
<1>7. TypeOK'
  BY <1>1, <1>6 DEF IInv, TypeOK
<1>8. CountedOK'
  BY <1>1, <1>6, NobodyVoted DEF IInv, TypeOK
<1> QED BY <1>6, <1>7, <1>8 DEF IInv

\* StartVoting, up to its callback.
LEMMA StartVoting ==
  ASSUME IInv, StartVoteLoop, Top.todo = <<>>
  PROVE  IInv'
<1> DEFINE r == ~menu[Top.menu].closed
           f == [Top EXCEPT !.pc = "OnMenuVoteStart", !.root = r]
<1>1. /\ stack # <<>> /\ Top.proc = "StartVote" /\ Top.pc = "loop"
      /\ UNCHANGED <<inGame, player, menu, m_pCurMenu, m_bCancelled, m_Clients, m_NumVotes, m_Votes,
                     m_ClientVotes, m_displayTimer, timers, calls>>
      /\ IsVoteInProgress => m_bStarted' = TRUE /\ stack' = Append(Caller, f)
  BY DEF StartVoteLoop
<1>2. /\ Caller \in Seq(Frame) /\ Top \in Frame /\ Calls(stack) = Calls(Caller) \cup {Top}
      /\ FramesOK(Caller) /\ Fits(Calls(Caller), Top)
      /\ \A g \in Calls(stack) : Shape(g) /\ g \in Frame
      /\ InCalls(Caller) \in Nat
      /\ InCalls(stack) = IF ForVote(Top) THEN InCalls(Caller) + 1 ELSE InCalls(Caller)
  BY <1>1, TopView
<1>3. Early(Top) /\ Top.menu \in Votes /\ Top.mh = "plugin" /\ Top.client = NULL /\ Top.old = NULL
  BY <1>1, <1>2 DEF Early, Shape
<1>4. m_pCurMenu = Top.menu /\ m_pCurMenu # NULL /\ Top.menu \in Menus /\ ~menu[Top.menu].closed
  BY <1>2, <1>3, VotingAssumption DEF IInv, VoteOK, MenusOK, Menus
<1>5. m_bStarted' = TRUE /\ stack' = Append(Caller, f)
  BY <1>1, <1>4 DEF IsVoteInProgress
<1>6. r = TRUE
  BY <1>4
<1> HIDE DEF r
<1>7. /\ f \in Frame /\ f.proc = "StartVote" /\ f.pc = "OnMenuVoteStart" /\ f.client = NULL /\ f.menu = Top.menu
      /\ f.mh = "plugin" /\ f.old = NULL /\ f.root = TRUE
  BY <1>1, <1>2, <1>3, <1>6 DEF Frame, Callbacks
<1> HIDE DEF f
<1>8. ~Early(f) /\ Starting(f) /\ ~Rendering(f) /\ ~ForVote(f) /\ ~ForVote(Top) /\ ~Showing(f)
  BY <1>3, <1>7 DEF Early, Starting, Rendering, ForVote, Showing
<1>9. ~Ignoring(Top)
  BY <1>1, <1>3 DEF Ignoring, Rendering
<1>10. \A g \in Calls(Caller) : ~Early(g)
  BY <1>2, <1>3 DEF Fits, Pair
<1>11. Fits(Calls(Caller), f)
  <2>0. NULL \notin BOOLEAN /\ NULL \notin Menus
    BY VotingAssumption DEF Menus
  <2>1. Shape(f)
    BY <1>3, <1>7 DEF Shape
  <2>2. Anchor(f, f.menu)
    BY <1>7 DEF Anchor
  <2>3. \A g \in Calls(Caller) : Pair(g, f)
    BY <1>7, <1>8, <1>10, <2>0 DEF Pair
  <2> QED BY <1>7, <2>0, <2>1, <2>2, <2>3 DEF Fits
<1>12. /\ stack' \in Seq(Frame) /\ FramesOK(stack') /\ Calls(stack') = Calls(Caller) \cup {f}
       /\ InCalls(stack') = InCalls(stack)
  <2>1. stack' \in Seq(Frame) /\ FramesOK(stack') /\ Calls(stack') = Calls(Caller) \cup {f}
    BY <1>2, <1>5, <1>7, <1>11, Push
  <2>2. InCalls(stack') = InCalls(Caller)
    BY <1>2, <1>5, <1>7, <1>8, CountPush
  <2> QED BY <1>2, <1>8, <2>1, <2>2
<1>13. TypeOK'
  BY <1>1, <1>5, <1>12 DEF IInv, TypeOK
<1>14. PlayersOK'
  BY <1>1, <1>2, <1>8, <1>9, <1>12, PlayersSame DEF IInv
<1>15. MenusOK'
  <2>1. Harmless(f)
    <3>1. ~Gone(Top.menu)
      BY <1>4, NotGone
    <3> QED BY <1>4, <1>7, <1>8, <3>1 DEF Harmless
  <2>2. \A g \in Calls(Caller) : Like(g, g)
    BY DEF Like
  <2>3. \A g \in Calls(stack)' : Harmless(g) \/ \E h \in Calls(stack) : Like(g, h)
    BY <1>2, <1>12, <2>1, <2>2
  <2>4. \A g \in Calls(stack) : g.proc \in {"Cancel", "Destroy"} =>
           \E h \in Calls(stack)' : h.proc = g.proc /\ h.menu = g.menu
    BY <1>1, <1>2, <1>12
  <2>5. \A c \in Clients : \A m : InMenu(c, m)' <=> InMenu(c, m)
    BY <1>1 DEF InMenu
  <2>6. \A g \in Calls(stack)' : g.proc = "Cancel" => \A c \in Clients : InMenu(c, g.menu)' => Has(g.todo, c)
    <3>1. \A g \in Calls(stack) : g.proc = "Cancel" => \A c \in Clients : InMenu(c, g.menu) => Has(g.todo, c)
      BY DEF IInv, MenusOK
    <3> QED BY <1>2, <1>7, <1>12, <2>5, <3>1
  <2> QED BY <1>1, <2>3, <2>4, <2>5, <2>6, MenusKept DEF IInv
<1>16. \A c \in Clients : InVoteMenu(c)' <=> InVoteMenu(c)
  BY <1>1 DEF InVoteMenu
<1>17. VoteOK'
  <2>1. VoteOK
    BY DEF IInv
  <2>2. {c \in Clients : InVoteMenu(c)}' = {c \in Clients : InVoteMenu(c)}
    BY <1>16
  <2>3. (m_Clients = Cardinality({c \in Clients : InVoteMenu(c)}) + InCalls(stack))'
    BY <1>1, <1>12, <2>1, <2>2 DEF VoteOK
  <2>4. \A c \in Clients : InVoteMenu(c)' => m_pCurMenu = player'[c].menu
    BY <1>1, <1>16, <2>1 DEF VoteOK
  <2>5. \A g \in Calls(stack)' : (ForVote(g) => m_pCurMenu = g.menu) /\ ~Early(g)
    BY <1>2, <1>8, <1>10, <1>12, <2>1 DEF VoteOK
  <2> QED BY <1>1, <1>4, <1>5, <1>7, <1>8, <1>12, <2>3, <2>4, <2>5 DEF VoteOK
<1>18. CountedOK'
  <2>1. ShowsNone(stack', Voted)
    BY <1>2, <1>8, <1>12 DEF ShowsNone, IInv, CountedOK
  <2>2. \A g \in Calls(stack)' : Early(g) => \E h \in Calls(stack) : Early(h)
    BY <1>2, <1>3
  <2> QED BY <1>1, <1>16, <2>1, <2>2, NobodyVoted DEF IInv, TypeOK
<1> QED BY <1>12, <1>13, <1>14, <1>15, <1>17, <1>18 DEF IInv

\* A display timer that is set exists.
TimerThere == m_displayTimer => timers > 0

\* The calls K, as far as menus are concerned.
Remains(K) ==
  /\ K \in Seq(Frame) /\ FramesOK(K)
  /\ \A f \in Calls(K) : Harmless(f) \/ \E g \in Calls(stack) : Like(f, g)
  /\ \A g \in Calls(stack) : g.proc \in {"Cancel", "Destroy"} =>
       \E f \in Calls(K) : f.proc = g.proc /\ f.menu = g.menu

\* The vote is over.
LEMMA EndVotingStep ==
  ASSUME IInv, TimerThere, \A n \in Menus : ~Doomed(n), m_bStarted, UNCHANGED <<inGame, player, menu, calls>>,
         NEW K, EndVoting(K), Remains(K), Keeps(K), Quiet(K), TodoOK(K, Clients),
         InCalls(K) = 0, \A c \in Clients : ~InVoteMenu(c)
  PROVE  IInv'
<1> DEFINE f == Rooting(Call("EndVoting", "OnMenuVoteEnd", NULL, m_pCurMenu, "plugin"))
           m == m_pCurMenu
<1>1. /\ timers' = TimersLeft /\ stack' = Append(K, f) /\ UNCHANGED <<m_Votes, m_ClientVotes>>
      /\ m_Clients' = 0 /\ m_bStarted' = FALSE /\ m_pCurMenu' = NULL /\ m_NumVotes' = 0
      /\ m_bCancelled' = FALSE /\ m_displayTimer' = FALSE
  BY DEF EndVoting, InternalReset
<1>2. m # NULL /\ m \in Votes /\ m \in Menus /\ ~Gone(m) /\ NULL \notin Menus /\ NULL \notin BOOLEAN
  <2>1. m # NULL
    BY DEF IInv, VoteOK
  <2> QED BY <2>1, NotGone, VotingAssumption DEF Menus
<1>3. /\ "EndVoting" \in {"StartVote", "DoClientMenu", "_CancelClientMenu", "ClientPressedKey", "EndVoting",
                      "Cancel", "Destroy", "Disconnect"}
      /\ "OnMenuVoteEnd" \in Callbacks \cup {"loop", "start", "render", "end", "done", "delete", "listeners", "votes"}
      /\ NULL \in Clients \cup {NULL} /\ TypeOK /\ "plugin" \in {"vote", "plugin"}
  BY DEF Callbacks, IInv
<1>4. /\ f \in Frame /\ f.proc = "EndVoting" /\ f.pc = "OnMenuVoteEnd" /\ f.client = NULL /\ f.menu = m
      /\ f.mh = "plugin" /\ f.old = NULL /\ RootedIf(f)
  BY <1>2, <1>3, RootedCall
<1> HIDE DEF f, m
<1>5. Harmless(f) /\ ~Early(f) /\ ~Starting(f) /\ ~Rendering(f) /\ ~ForVote(f) /\ ~Showing(f)
  BY <1>2, <1>4 DEF Harmless, RootedIf, Early, Starting, Rendering, ForVote, Showing
<1>6. K \in Seq(Frame) /\ FramesOK(K)
  BY DEF Remains
<1>7. \A g \in Calls(K) : ~Early(g)
  <2>1. \A g \in Calls(stack) : ~Early(g)
    BY DEF IInv, VoteOK
  <2> QED BY <2>1 DEF Remains, Harmless, Like
<1>8. Fits(Calls(K), f)
  <2>1. Shape(f)
    BY <1>2, <1>4 DEF Shape
  <2>2. \E g \in Calls(K) \cup {f} : Anchor(g, m)
    <3>1. CASE menu[m].closed
      BY <1>2, <3>1, Anchored DEF Keeps
    <3>2. CASE ~menu[m].closed
      BY <1>4, <3>2 DEF Anchor, RootedIf
    <3> QED BY <3>1, <3>2
  <2>3. \A g \in Calls(K) : Pair(g, f)
    BY <1>2, <1>4, <1>5, <1>7 DEF Pair
  <2> QED BY <1>2, <1>4, <2>1, <2>2, <2>3 DEF Fits
<1>9. stack' \in Seq(Frame) /\ Calls(stack') = Calls(K) \cup {f} /\ FramesOK(stack')
  BY <1>1, <1>4, <1>6, <1>8, Push
<1>10. InCalls(stack') = 0 /\ \A g \in Calls(K) : ~ForVote(g)
  BY <1>1, <1>4, <1>5, <1>6, CountPush
<1>11. TypeOK'
  <2>1. timers' \in Nat
    BY <1>1 DEF TimersLeft, TimerThere, IInv, TypeOK
  <2> QED BY <1>1, <1>9, <2>1 DEF IInv, TypeOK
<1>12. PlayersOK'
  BY <1>5, <1>9, PlayersSame DEF IInv, Quiet
<1>13. \A c \in Clients : \A n : InMenu(c, n)' <=> InMenu(c, n)
  BY DEF InMenu
<1>14. MenusOK'
  <2>1. \A g \in Calls(stack)' : Harmless(g) \/ \E h \in Calls(stack) : Like(g, h)
    BY <1>5, <1>9 DEF Remains
  <2>2. \A g \in Calls(stack) : g.proc \in {"Cancel", "Destroy"} =>
           \E h \in Calls(stack)' : h.proc = g.proc /\ h.menu = g.menu
    BY <1>9 DEF Remains
  <2>3. \A g \in Calls(stack)' : g.proc = "Cancel" => \A c \in Clients : InMenu(c, g.menu)' => Has(g.todo, c)
    BY <1>4, <1>9, <1>13 DEF TodoOK
  <2> QED BY <1>1, <1>13, <2>1, <2>2, <2>3, MenusKept DEF IInv
<1>15. \A g \in Calls(stack)' : ~ForVote(g) /\ ~Early(g) /\ ~Showing(g)
  BY <1>5, <1>7, <1>9, <1>10 DEF ForVote, Showing
<1>16. \A c \in Clients : ~InVoteMenu(c)'
  BY DEF InVoteMenu
<1>17. VoteOK'
  <2>1. Cardinality({c \in Clients : InVoteMenu(c)})' = 0
    <3>1. {c \in Clients : InVoteMenu(c)}' = {}
      BY <1>16
    <3> QED BY <3>1, FS_EmptySet
  <2>2. (m_Clients = Cardinality({c \in Clients : InVoteMenu(c)}) + InCalls(stack))'
    BY <1>1, <1>10, <2>1
  <2> QED BY <1>1, <1>15, <1>16, <2>2 DEF VoteOK
<1>18. CountedOK'
  BY <1>1, <1>15, <1>16 DEF CountedOK, IsVoteInProgress, VotesOK
<1> QED BY <1>9, <1>11, <1>12, <1>14, <1>17, <1>18 DEF IInv

LEMMA VoteStartedStep ==
  ASSUME IInv, TimerThere, \A n \in Menus : ~Doomed(n), VoteStarted
  PROVE  IInv'
<1>1. stack # <<>> /\ Top.pc = "OnMenuVoteStart" /\ UNCHANGED <<inGame, player, menu, calls>>
  BY DEF VoteStarted
<1>2. /\ Top \in Frame /\ Calls(stack) = Calls(Caller) \cup {Top} /\ Caller \in Seq(Frame)
      /\ FramesOK(Caller) /\ Fits(Calls(Caller), Top) /\ Shape(Top)
      /\ InCalls(Caller) \in Nat
      /\ InCalls(stack) = IF ForVote(Top) THEN InCalls(Caller) + 1 ELSE InCalls(Caller)
  BY <1>1, TopView
<1>3. Top.proc = "StartVote"
  <2>1. Top.proc \in {"StartVote", "DoClientMenu", "_CancelClientMenu", "ClientPressedKey", "EndVoting",
                      "Cancel", "Destroy", "Disconnect"}
    BY <1>2 DEF Frame
  <2> QED BY <1>1, <1>2, <2>1 DEF Shape
<1>4. Top.mh = "plugin" /\ Top.old = NULL
  BY <1>2, <1>3 DEF Shape
<1>5. ~Early(Top) /\ ~Rendering(Top) /\ ~Ignoring(Top) /\ ~ForVote(Top) /\ Starting(Top)
  BY <1>1, <1>4 DEF Early, Rendering, Ignoring, ForVote, Starting
<1>6. CASE stack' = Caller /\ (m_bStarted => m_Clients # 0) /\ UNCHANGED <<m_pCurMenu, m_bStarted, m_NumVotes, m_Votes, m_ClientVotes, m_Clients, m_bCancelled>>
          /\ m_displayTimer' \in BOOLEAN /\ timers' \in Nat
  <2>1. Base(Caller) /\ TodoOK(Caller, Clients) /\ ShowsNone(Caller, Voted) /\ Quiet(Caller)
    BY <1>1, <1>3, <1>5, <1>6, BaseReturns
  <2>2. /\ inGame' \subseteq Clients /\ m_bCancelled' \in BOOLEAN /\ calls' \in 0..MaxCalls
        /\ m_Clients' \in Nat /\ m_Clients' = m_Clients
    BY <1>1, <1>6 DEF IInv, TypeOK
  <2>3. InCalls(stack') = InCalls(stack) /\ InCalls(stack) \in Nat
    BY <1>2, <1>5, <1>6
  <2>4. m_Clients' = m_Clients + InCalls(stack') - InCalls(stack) /\ InCalls(stack') \in Nat
    BY <2>2, <2>3
  <2>5. UNCHANGED <<player, menu, m_pCurMenu, m_bStarted, m_NumVotes, m_Votes, m_ClientVotes>>
    BY <1>1, <1>6
  <2>6. Base(stack') /\ Quiet(stack') /\ TodoOK(stack', Clients) /\ ShowsNone(stack', Voted)
    BY <1>6, <2>1
  <2> QED BY <1>6, <2>2, <2>3, <2>4, <2>5, <2>6, CallsChange
<1>7. CASE ~m_bStarted
  <2>1. stack' = Caller /\ UNCHANGED vote
    BY <1>7 DEF VoteStarted
  <2> QED BY <1>6, <1>7, <2>1 DEF vote, IInv, TypeOK
<1>8. CASE m_bStarted /\ m_Clients # 0
  <2>1. stack' = Caller /\ m_displayTimer' = TRUE /\ timers' = timers + 1
        /\ UNCHANGED <<m_pCurMenu, m_bStarted, m_bCancelled, m_Clients, m_NumVotes, m_Votes, m_ClientVotes>>
    BY <1>8 DEF VoteStarted, NobodyVotes
  <2> QED BY <1>6, <1>8, <2>1 DEF IInv, TypeOK
<1>9. CASE m_bStarted /\ m_Clients = 0
  <2> DEFINE t == [Top EXCEPT !.pc = "done"]
             K == Append(Caller, t)
  <2>1. EndVoting(At(stack, "done"))
    BY <1>9 DEF VoteStarted, NobodyVotes
  <2>2. t.pc = "done" /\ t = [Top EXCEPT !.pc = t.pc]
    BY <1>2 DEF Frame
  <2> HIDE DEF t
  <2>3. /\ t \in Frame /\ Same(t, Top) /\ t.todo = Top.todo
        /\ t.proc = Top.proc /\ t.client = Top.client /\ t.menu = Top.menu /\ t.mh = Top.mh /\ t.root = Top.root
        /\ t.old = Top.old
        /\ At(stack, t.pc) = K
    BY <1>1, <2>2, AtPc
  <2>4. Shape(t) /\ ~Early(t) /\ ~Rendering(t) /\ ~ForVote(t) /\ Like(t, Top)
    BY <1>1, <1>2, <1>3, <1>5, <2>2, <2>3 DEF Shape, Early, Rendering, ForVote, Like
  <2>5. K \in Seq(Frame) /\ FramesOK(K) /\ Calls(K) = Calls(Caller) \cup {t} /\ InCalls(K) = InCalls(Caller)
    BY <1>1, <1>5, <2>3, <2>4, GoesOn
  <2> HIDE DEF K
  <2>6. InCalls(K) = 0 /\ \A c \in Clients : ~InVoteMenu(c)
    <3> DEFINE A == {c \in Clients : InVoteMenu(c)}
    <3>1. m_Clients = Cardinality(A) + InCalls(stack)
      BY DEF IInv, VoteOK
    <3>2. Cardinality(A) \in Nat /\ (Cardinality(A) = 0 <=> A = {})
      BY CountClients
    <3>3. Cardinality(A) = 0 /\ InCalls(stack) = 0
      BY <1>2, <1>5, <1>9, <3>1, <3>2
    <3> QED BY <1>2, <1>5, <2>5, <3>2, <3>3
  <2>7. Remains(K)
    <3>1. \A g \in Calls(Caller) : Like(g, g)
      BY DEF Like
    <3> QED BY <1>2, <1>3, <2>3, <2>4, <2>5, <3>1 DEF Remains
  <2>8. Keeps(K)
    <3>1. \A m \in Menus : Anchor(Top, m) => Anchor(t, m)
      BY <1>5, <2>3 DEF Anchor
    <3> QED BY <1>2, <2>5, <3>1 DEF Keeps
  <2>9. Quiet(K)
    BY <1>2, <1>5, <2>4, <2>5 DEF Quiet
  <2>10. TodoOK(K, Clients)
    <3>1. \A g \in Calls(stack) : g.proc = "Cancel" => \A c \in Clients : InMenu(c, g.menu) => Has(g.todo, c)
      BY DEF IInv, MenusOK
    <3> QED BY <1>2, <1>3, <2>3, <2>5, <3>1 DEF TodoOK
  <2>11. EndVoting(K)
    BY <2>1, <2>2, <2>3
  <2> QED BY <1>1, <1>9, <2>6, <2>7, <2>8, <2>9, <2>10, <2>11, EndVotingStep
<1> QED BY <1>7, <1>8, <1>9

LEMMA DisplayEndsStep ==
  ASSUME IInv, TimerThere, \A n \in Menus : ~Doomed(n), DisplayEnds
  PROVE  IInv'
<1> DEFINE pc == IF Top.mh = "plugin" THEN "OnMenuEnd" ELSE "done"
           t == [Top EXCEPT !.pc = pc]
           K == Append(Caller, t)
<1>1. stack # <<>> /\ Top.pc = "end" /\ OnMenuEnd(Top.mh) /\ UNCHANGED <<inGame, player, menu, calls>>
  BY DEF DisplayEnds
<1>2. /\ Top \in Frame /\ Calls(stack) = Calls(Caller) \cup {Top} /\ Caller \in Seq(Frame) /\ Shape(Top)
      /\ InCalls(Caller) \in Nat
      /\ InCalls(stack) = IF ForVote(Top) THEN InCalls(Caller) + 1 ELSE InCalls(Caller)
  BY <1>1, TopView
<1>3. Top.proc \in {"DoClientMenu", "_CancelClientMenu", "ClientPressedKey"} /\ Top.mh \in {"vote", "plugin"}
  <2>1. /\ Top.proc \in {"StartVote", "DoClientMenu", "_CancelClientMenu", "ClientPressedKey", "EndVoting",
                      "Cancel", "Destroy", "Disconnect"}
        /\ Top.mh \in {"vote", "plugin"}
    BY <1>2 DEF Frame
  <2> QED BY <1>1, <1>2, <2>1 DEF Shape
<1>4. pc \in {"OnMenuEnd", "done"} /\ (pc = "OnMenuEnd" <=> Top.mh = "plugin")
  OBVIOUS
<1> HIDE DEF pc
<1>5. t.pc = pc /\ t = [Top EXCEPT !.pc = t.pc]
  BY <1>2 DEF Frame
<1> HIDE DEF t
<1>6. /\ t \in Frame /\ Same(t, Top) /\ t.todo = Top.todo
      /\ t.proc = Top.proc /\ t.client = Top.client /\ t.menu = Top.menu /\ t.mh = Top.mh /\ t.root = Top.root
      /\ t.old = Top.old
      /\ At(stack, t.pc) = K
  BY <1>1, <1>4, <1>5, AtPc
<1>7. /\ ~Early(t) /\ ~Rendering(t) /\ (Ignoring(Top) => Ignoring(t)) /\ ~Starting(t) /\ ~Showing(t)
      /\ ~Early(Top) /\ ~Rendering(Top) /\ ~Starting(Top)
      /\ ForVote(Top) <=> Top.mh = "vote"
      /\ ~ForVote(t)
  BY <1>1, <1>3, <1>4, <1>5, <1>6 DEF Early, Rendering, Ignoring, Starting, Showing, ForVote
<1>8. Shape(t)
  BY <1>1, <1>2, <1>3, <1>4, <1>5, <1>6 DEF Shape, Redrawing
<1>9. CASE Top.mh = "plugin"
  <2>1. stack' = At(stack, "OnMenuEnd") /\ UNCHANGED vote
    BY <1>1, <1>9 DEF OnMenuEnd
  <2>2. stack' = Append(Caller, t)
    BY <1>4, <1>5, <1>6, <1>9, <2>1
  <2>3. ForVote(t) <=> ForVote(Top)
    BY <1>7, <1>9
  <2> QED BY <1>1, <1>6, <1>7, <1>8, <2>1, <2>2, <2>3, OnlyGoesOn
<1>10. CASE Top.mh = "vote"
  <2>1. At(stack, "done") = K /\ ForVote(Top) /\ Top.mh # "plugin"
    BY <1>4, <1>5, <1>6, <1>7, <1>10
  <2>2. /\ Base(K) /\ Calls(K) = Calls(Caller) \cup {t} /\ Keeps(K) /\ ShowsNone(K, Voted) /\ Quiet(K)
        /\ TodoOK(K, Clients) /\ InCalls(K) = InCalls(Caller)
    BY <1>1, <1>6, <1>7, <1>8, BaseGoesOn
  <2> HIDE DEF K
  <2>3. InCalls(stack) = InCalls(K) + 1 /\ InCalls(K) \in Nat /\ InCalls(stack) \in Nat
    BY <1>2, <2>1, <2>2
  <2>4. CASE LastDisplay
    <3>1. EndVoting(K) /\ m_bStarted
      BY <1>1, <2>1, <2>4 DEF OnMenuEnd, LastDisplay
    <3>2. InCalls(K) = 0 /\ \A c \in Clients : ~InVoteMenu(c)
      <4> DEFINE A == {c \in Clients : InVoteMenu(c)}
      <4>1. m_Clients = Cardinality(A) + InCalls(stack) /\ m_Clients = 1
        BY <2>4 DEF IInv, VoteOK, LastDisplay
      <4>2. Cardinality(A) \in Nat /\ (Cardinality(A) = 0 <=> A = {})
        BY CountClients
      <4>3. Cardinality(A) = 0 /\ InCalls(K) = 0
        BY <2>3, <4>1, <4>2
      <4> QED BY <4>2, <4>3
    <3>3. Remains(K)
      BY <2>2 DEF Base, Remains
    <3> QED BY <1>1, <2>2, <3>1, <3>2, <3>3, EndVotingStep
  <2>5. CASE ~LastDisplay
    <3>1. /\ m_Clients' = m_Clients - 1 /\ stack' = K
          /\ UNCHANGED <<m_pCurMenu, m_bStarted, m_bCancelled, m_NumVotes, m_Votes, m_ClientVotes,
                         m_displayTimer, timers>>
      BY <1>1, <2>1, <2>5 DEF OnMenuEnd
    <3>2. m_Clients \in Nat /\ m_Clients >= 1
      <4> DEFINE A == {c \in Clients : InVoteMenu(c)}
      <4>1. m_Clients = Cardinality(A) + InCalls(stack)
        BY DEF IInv, VoteOK
      <4>2. Cardinality(A) \in Nat
        BY CountClients
      <4> HIDE DEF A
      <4> QED BY <2>3, <4>1, <4>2
    <3>3. m_Clients' \in Nat /\ m_Clients' = m_Clients + InCalls(stack') - InCalls(stack) /\ InCalls(stack') \in Nat
      BY <2>3, <3>1, <3>2
    <3>4. m_bStarted /\ m_Clients' = 0 => m_Clients = 0
      BY <2>5, <3>1, <3>2 DEF LastDisplay
    <3>5. /\ inGame' \subseteq Clients /\ m_bCancelled' \in BOOLEAN /\ calls' \in 0..MaxCalls
          /\ m_displayTimer' \in BOOLEAN /\ timers' \in Nat
      BY <1>1, <3>1 DEF IInv, TypeOK
    <3>6. UNCHANGED <<player, menu, m_pCurMenu, m_bStarted, m_NumVotes, m_Votes, m_ClientVotes>>
      BY <1>1, <3>1
    <3>7. Base(stack') /\ Quiet(stack') /\ TodoOK(stack', Clients) /\ ShowsNone(stack', Voted)
      BY <2>2, <3>1
    <3> QED BY <2>3, <3>3, <3>4, <3>5, <3>6, <3>7, CallsChange
  <2> QED BY <2>4, <2>5
<1> QED BY <1>3, <1>9, <1>10

-----------------------------------------------------------------------------
(* A menu is cancelled, closed and deleted.                                *)

LEMMA EachClientHas ==
  EachClient \in Seq(Clients) /\ \A c \in Clients : Has(EachClient, c)
<1>1. MaxClients \in Nat
  BY VotingAssumption
<1>2. EachClient \in [1..MaxClients -> Clients] /\ \A c \in Clients : EachClient[c] = c
  BY DEF EachClient, Clients
<1>3. EachClient \in Seq(Clients) /\ Len(EachClient) = MaxClients
  BY <1>1, <1>2
<1>4. \A c \in Clients : c \in 1..Len(EachClient)
  BY <1>3 DEF Clients
<1> QED BY <1>2, <1>3, <1>4 DEF Has

\* A menu with no call that keeps it has none but Destroy.
LEMMA Unanchored ==
  ASSUME NEW K \in Seq(Frame), FramesOK(K), NEW m, m # NULL, \A g \in Calls(K) : ~Anchor(g, m)
  PROVE  \A f \in Calls(K) : f.menu = m => f.proc = "Destroy"
<1> SUFFICES ASSUME NEW i \in 1..Len(K), K[i].menu = m, K[i].proc # "Destroy" PROVE FALSE
  BY DEF Calls
<1>1. PICK g \in Below(K, i) \cup {K[i]} : Anchor(g, m)
  BY DEF FramesOK, Fits
<1>2. Below(K, i) \subseteq Calls(K) /\ K[i] \in Calls(K)
  BY DEF Below, Calls
<1> QED BY <1>1, <1>2

\* Menus change, and nothing else that the invariant is about.
LEMMA OnlyMenus ==
  ASSUME IInv, menu' \in [Menus -> CBaseMenu], MenusOK', calls' \in 0..MaxCalls, m_bCancelled' \in BOOLEAN,
         UNCHANGED <<inGame, player, m_pCurMenu, m_bStarted, m_Clients, m_NumVotes, m_Votes, m_ClientVotes,
                     m_displayTimer, timers>>,
         stack' \in Seq(Frame), FramesOK(stack'), InCalls(stack') = InCalls(stack),
         \A f \in Calls(stack) : f \in Calls(stack') \/ f.proc \in {"Cancel", "Destroy"},
         \A f \in Calls(stack') : f \in Calls(stack) \/ f.proc \in {"Cancel", "Destroy"}
  PROVE  IInv'
<1>1. \A f \in Calls(stack) : Shape(f)
  BY AllShapes DEF IInv, TypeOK
<1>2. \A f \in Calls(stack') : Shape(f)
  BY AllShapes
<1>3. \A f : Shape(f) /\ f.proc \in {"Cancel", "Destroy"} =>
        ~Ignoring(f) /\ ~Rendering(f) /\ ~ForVote(f) /\ ~Early(f) /\ ~Starting(f) /\ ~Showing(f)
  BY DEF Shape, Ignoring, Rendering, ForVote, Early, Starting, Showing
<1>4. TypeOK'
  BY DEF IInv, TypeOK
<1>5. PlayersOK'
  <2>1. \A g \in Calls(stack) : Ignoring(g) => \E f \in Calls(stack)' : f.client = g.client /\ Ignoring(f)
    BY <1>1, <1>3
  <2>2. \A f \in Calls(stack)' : Rendering(f) => f \in Calls(stack)
    BY <1>2, <1>3
  <2> QED BY <2>1, <2>2, PlayersSame DEF IInv
<1>6. \A c \in Clients : InVoteMenu(c)' <=> InVoteMenu(c)
  BY DEF InVoteMenu
<1>7. VoteOK'
  <2>1. (m_Clients = Cardinality({c \in Clients : InVoteMenu(c)}) + InCalls(stack))'
    <3>1. {c \in Clients : InVoteMenu(c)}' = {c \in Clients : InVoteMenu(c)}
      BY <1>6
    <3> QED BY <3>1 DEF IInv, VoteOK
  <2>2. \A c \in Clients : InVoteMenu(c)' => m_pCurMenu = player'[c].menu
    BY <1>6 DEF IInv, VoteOK
  <2>3. \A f \in Calls(stack)' : ForVote(f) => m_pCurMenu = f.menu
    BY <1>2, <1>3 DEF IInv, VoteOK
  <2>4. \A f \in Calls(stack) : Early(f) => \E g \in Calls(stack)' : Early(g)
    BY <1>1, <1>3
  <2>5. \A f \in Calls(stack) : Starting(f) => \E g \in Calls(stack)' : Starting(g) /\ g.menu = f.menu
    BY <1>1, <1>3
  <2>6. \A f \in Calls(stack)' : Early(f) => \E g \in Calls(stack) : Early(g) /\ g.menu = f.menu
    BY <1>2, <1>3
  <2> QED BY <2>1, <2>2, <2>3, <2>4, <2>5, <2>6, VoteKept DEF IInv
<1>8. CountedOK'
  <2>1. ShowsNone(stack', Voted)
    BY <1>2, <1>3 DEF ShowsNone, IInv, CountedOK
  <2>2. \A f \in Calls(stack)' : Early(f) => \E g \in Calls(stack) : Early(g)
    BY <1>2, <1>3
  <2> QED BY <1>6, <2>1, <2>2, NobodyVoted DEF IInv, TypeOK
<1> QED BY <1>4, <1>5, <1>7, <1>8 DEF IInv

\* What is said of menu m, of the menus M and the calls F.
MenuOK(m) ==
  /\ menu[m].deleted \/ Condemned(m) => menu[m].closed
  /\ Condemned(m) => \A f \in Calls(stack) : f.menu = m => ~f.root
  /\ menu[m].m_bCancelling <=> \E f \in Calls(stack) : f.proc = "Cancel" /\ f.menu = m
  /\ menu[m].m_bShouldDelete =>
       /\ menu[m].deleted \/ menu[m].m_bCancelling
       /\ \A f \in Calls(stack) : f.menu = m => f.proc # "Destroy"
  /\ Gone(m) =>
       /\ m_pCurMenu # m
       /\ \A c \in Clients : ~InMenu(c, m)
       /\ \A f \in Calls(stack) : f.menu = m => f.proc = "Destroy" /\ ~menu[m].deleted

\* Only menu m changes, and the calls for it.
LEMMA OneMenu ==
  ASSUME IInv, NEW m \in Menus, MenuOK(m)', UNCHANGED <<player, m_pCurMenu>>,
         \A n \in Menus : n # m => menu'[n] = menu[n],
         \A f \in Calls(stack) : f \in Calls(stack') \/ f.menu = m,
         \A f \in Calls(stack') : f \in Calls(stack) \/ f.menu = m,
         \A f \in Calls(stack') : Early(f) => ~menu'[f.menu].closed,
         \A f \in Calls(stack') : f.proc = "Cancel" => \A c \in Clients : InMenu(c, f.menu) => Has(f.todo, c)
  PROVE  MenusOK'
<1>1. \A n \in Menus : MenuOK(n)
  BY DEF IInv, MenusOK, MenuOK
<1>2. \A c \in Clients : \A n : InMenu(c, n)' <=> InMenu(c, n)
  BY DEF InMenu
<1>3. ASSUME NEW n \in Menus, n # m PROVE MenuOK(n)'
  <2>1. menu'[n] = menu[n] /\ MenuOK(n)
    BY <1>1, <1>3
  <2>2. \A f : f.menu = n => (f \in Calls(stack)' <=> f \in Calls(stack))
    BY <1>3
  <2>3. (Gone(n)' <=> Gone(n)) /\ (Condemned(n)' <=> Condemned(n))
    BY <2>1, <2>2 DEF Gone, Condemned
  <2>4. /\ menu'[n].deleted \/ Condemned(n)' => menu'[n].closed
        /\ Condemned(n)' => \A f \in Calls(stack)' : f.menu = n => ~f.root
    BY <2>1, <2>2, <2>3 DEF MenuOK
  <2>5. /\ menu'[n].m_bCancelling <=> \E f \in Calls(stack)' : f.proc = "Cancel" /\ f.menu = n
        /\ menu'[n].m_bShouldDelete =>
             /\ menu'[n].deleted \/ menu'[n].m_bCancelling
             /\ \A f \in Calls(stack)' : f.menu = n => f.proc # "Destroy"
    BY <2>1, <2>2 DEF MenuOK
  <2>6. Gone(n)' =>
          /\ m_pCurMenu' # n
          /\ \A c \in Clients : ~InMenu(c, n)'
          /\ \A f \in Calls(stack)' : f.menu = n => f.proc = "Destroy" /\ ~menu'[n].deleted
    BY <1>2, <2>1, <2>2, <2>3 DEF MenuOK
  <2> QED BY <2>4, <2>5, <2>6 DEF MenuOK
<1>4. \A n \in Menus : MenuOK(n)'
  BY <1>3
<1>5. \A f \in Calls(stack)' :
        /\ Early(f) => ~menu'[f.menu].closed
        /\ f.proc = "Cancel" => \A c \in Clients : InMenu(c, f.menu)' => Has(f.todo, c)
  BY <1>2
<1> QED BY <1>4, <1>5 DEF MenusOK, MenuOK

\* One of the calls that Destroy and Cancel make.
Ends(f, m) == f.menu = m /\ f.proc \in {"Cancel", "Destroy"} /\ ~f.root /\ ~Early(f)

\* Menu m may be destroyed.
Free(m) ==
  /\ menu[m].closed /\ ~menu[m].m_bShouldDelete
  /\ \A f \in Calls(stack) : f.menu = m => ~f.root

\* Cancel is called for menu m, on the calls K.
LEMMA CancelStarts ==
  ASSUME IInv, NEW m \in Menus, ~Gone(m), ~menu[m].m_bCancelling,
         menu' = [menu EXCEPT ![m].m_bCancelling = TRUE],
         UNCHANGED <<inGame, player, m_pCurMenu, m_bStarted, m_Clients, m_NumVotes, m_Votes, m_ClientVotes,
                     m_displayTimer, timers>>,
         m_bCancelled' \in BOOLEAN, calls' \in 0..MaxCalls,
         NEW K, K \in Seq(Frame), FramesOK(K), InCalls(K) = InCalls(stack),
         \A g \in Calls(stack) : g \in Calls(K),
         \A g \in Calls(K) : g \in Calls(stack) \/ (Ends(g, m) /\ g.proc = "Destroy"),
         (\E g \in Calls(K) : g.proc = "Destroy" /\ g.menu = m) => Free(m),
         \A g \in Calls(stack) : Redrawing(g) => g.menu # m,
         stack' = Append(K, Looping(Call("Cancel", "loop", NULL, m, "plugin"), EachClient))
  PROVE  IInv'
<1> DEFINE c0 == Call("Cancel", "loop", NULL, m, "plugin")
           f == Looping(c0, EachClient)
<1>0. NULL \notin Menus /\ NULL \notin BOOLEAN
  BY VotingAssumption DEF Menus
<1>1. Parts(c0, "Cancel", "loop", NULL, m)
  BY PlainCall DEF Callbacks
<1> HIDE DEF c0
<1>2. Parts(f, "Cancel", "loop", NULL, m) /\ f.todo = EachClient
  BY <1>1, LoopCall, EachClientHas
<1>3. stack' = Append(K, f)
  BY DEF c0
<1> HIDE DEF f
<1>4. /\ f \in Frame /\ f.proc = "Cancel" /\ f.pc = "loop" /\ f.client = NULL /\ f.menu = m
      /\ f.mh = "plugin" /\ f.old = NULL /\ ~f.root
  BY <1>2 DEF Parts
<1>5. ~Early(f) /\ ~Rendering(f) /\ ~ForVote(f)
  BY <1>4 DEF Early, Rendering, ForVote
<1>6. \A g \in Calls(stack) : g.proc = "Cancel" => g.menu # m
  BY DEF IInv, MenusOK
<1>7. Fits(Calls(K), f)
  <2>1. Shape(f)
    BY <1>4 DEF Shape
  <2>2. Anchor(f, m)
    BY <1>4 DEF Anchor
  <2>3. \A g \in Calls(K) : Redrawing(g) => g.menu # m
    <3>1. \A g \in Calls(K) : g \in Calls(stack) \/ (g.proc = "Destroy" /\ Shape(g))
      BY AllShapes
    <3> QED BY <3>1 DEF Shape, Redrawing
  <2>4. \A g \in Calls(K) : Pair(g, f)
    BY <1>0, <1>4, <1>5, <1>6, <2>3 DEF Pair
  <2> QED BY <1>0, <1>4, <2>1, <2>2, <2>4 DEF Fits
<1>8. stack' \in Seq(Frame) /\ FramesOK(stack') /\ Calls(stack') = Calls(K) \cup {f}
  BY <1>3, <1>4, <1>7, Push
<1>9. InCalls(stack') = InCalls(stack)
  BY <1>3, <1>4, <1>5, CountPush
<1>10. menu \in [Menus -> CBaseMenu]
  BY DEF IInv, TypeOK
<1>11. /\ \A n \in Menus : n # m => menu'[n] = menu[n]
       /\ menu'[m].m_bCancelling /\ menu'[m].closed = menu[m].closed /\ menu'[m].deleted = menu[m].deleted
       /\ menu'[m].m_bShouldDelete = menu[m].m_bShouldDelete
  BY <1>10 DEF CBaseMenu
<1>12. menu' \in [Menus -> CBaseMenu]
  BY <1>10 DEF CBaseMenu
<1>13. \A n \in Menus : menu'[n].closed = menu[n].closed
  BY <1>11
<1>14. \A g \in Calls(stack)' : g \in Calls(stack) \/ Ends(g, m)
  BY <1>4, <1>5, <1>8 DEF Ends
<1>15. MenuOK(m)'
  <2>1. ~menu[m].deleted
    BY DEF Gone
  <2>2. (\E g \in Calls(stack)' : g.proc = "Destroy" /\ g.menu = m) => Free(m)
    BY <1>4, <1>8
  <2>3. Condemned(m)' => Free(m) \/ menu[m].m_bShouldDelete
    BY <1>11, <2>2 DEF Condemned
  <2>4. ~menu[m].m_bShouldDelete
    BY <2>1 DEF IInv, MenusOK
  <2>5. Condemned(m)' => menu'[m].closed /\ \A g \in Calls(stack)' : g.menu = m => ~g.root
    BY <1>11, <1>14, <2>3, <2>4 DEF Free, Ends
  <2>6. \E g \in Calls(stack)' : g.proc = "Cancel" /\ g.menu = m
    BY <1>4, <1>8
  <2>7. ~Gone(m)'
    BY <1>11, <2>1 DEF Gone
  <2> QED BY <1>11, <2>1, <2>4, <2>5, <2>6, <2>7 DEF MenuOK
<1>16. \A g \in Calls(stack') : Early(g) => ~menu'[g.menu].closed
  <2>1. \A g \in Calls(stack) : Early(g) => ~menu[g.menu].closed /\ g.menu \in Menus
    <3>1. \A g \in Calls(stack) : Shape(g)
      BY AllShapes DEF IInv, TypeOK
    <3> QED BY <3>1 DEF IInv, MenusOK, Early, Shape, Menus
  <2> QED BY <1>13, <1>14, <2>1 DEF Ends
<1>17. \A g \in Calls(stack') : g.proc = "Cancel" => \A c \in Clients : InMenu(c, g.menu) => Has(g.todo, c)
  <2>1. \A g \in Calls(stack) : g.proc = "Cancel" => \A c \in Clients : InMenu(c, g.menu) => Has(g.todo, c)
    BY DEF IInv, MenusOK
  <2>2. \A g \in Calls(stack)' : g \in Calls(stack) \/ g = f \/ g.proc = "Destroy"
    BY <1>8
  <2> QED BY <1>2, <2>1, <2>2, EachClientHas
<1>18. MenusOK'
  BY <1>8, <1>11, <1>14, <1>15, <1>16, <1>17, OneMenu DEF Ends
<1>19. /\ \A g \in Calls(stack) : g \in Calls(stack')
       /\ \A g \in Calls(stack') : g \in Calls(stack) \/ g.proc \in {"Cancel", "Destroy"}
  BY <1>8, <1>14 DEF Ends
<1> QED BY <1>8, <1>9, <1>12, <1>18, <1>19, OnlyMenus

LEMMA CancelVotingStep ==
  ASSUME IInv, "EndInRedraw" \notin Habits, CancelVoting
  PROVE  IInv'
<1> DEFINE m == m_pCurMenu
           c0 == Call("Cancel", "loop", NULL, m, "plugin")
<1>1. /\ m # NULL /\ m_bCancelled' = TRUE /\ calls < MaxCalls /\ calls' = calls + 1
      /\ UNCHANGED <<inGame, player, m_pCurMenu, m_bStarted, m_Clients, m_NumVotes, m_Votes, m_ClientVotes,
                     m_displayTimer, timers>>
      /\ menu[m].m_bCancelling => stack' = stack \o <<>> /\ menu' = menu
      /\ ~menu[m].m_bCancelling =>
           stack' = stack \o <<Looping(c0, EachClient)>> /\ menu' = [menu EXCEPT ![m].m_bCancelling = TRUE]
  BY DEF CancelVoting, Native, IsVoteInProgress, Looping
<1>2. m \in Menus /\ ~Gone(m)
  BY <1>1, NotGone
<1>3. calls' \in 0..MaxCalls /\ m_bCancelled' \in BOOLEAN /\ stack \in Seq(Frame) /\ FramesOK(stack)
  BY <1>1, VotingAssumption DEF IInv, TypeOK
<1>4. CASE menu[m].m_bCancelling
  <2>1. stack' = stack /\ menu' = menu
    BY <1>1, <1>3, <1>4
  <2>2. menu' \in [Menus -> CBaseMenu]
    BY <2>1 DEF IInv, TypeOK
  <2>3. MenusOK'
    <3>1. \A c \in Clients : \A n : InMenu(c, n)' <=> InMenu(c, n)
      BY <1>1 DEF InMenu
    <3>2. \A f \in Calls(stack) : Like(f, f)
      BY DEF Like
    <3>3. \A f \in Calls(stack) : f.proc = "Cancel" => \A c \in Clients : InMenu(c, f.menu) => Has(f.todo, c)
      BY DEF IInv, MenusOK
    <3> QED BY <1>1, <2>1, <3>1, <3>2, <3>3, MenusKept DEF IInv
  <2> QED BY <1>1, <1>3, <2>1, <2>2, <2>3, OnlyMenus
<1>5. CASE ~menu[m].m_bCancelling
  <2>1. Parts(c0, "Cancel", "loop", NULL, m)
    BY <1>2, PlainCall DEF Callbacks
  <2> HIDE DEF c0
  <2>2. Parts(Looping(c0, EachClient), "Cancel", "loop", NULL, m)
    BY <2>1, LoopCall, EachClientHas
  <2>3. Looping(c0, EachClient) \in Frame
    BY <2>2 DEF Parts
  <2>4. stack' = Append(stack, Looping(c0, EachClient))
    BY <1>1, <1>3, <1>5, <2>3
  <2>5. \A g \in Calls(stack) : ~(g.proc = "Destroy" /\ g.menu = m)
    BY <1>2, <1>5 DEF Gone
  <2>6. stack' = Append(stack, Looping(Call("Cancel", "loop", NULL, m, "plugin"), EachClient))
    BY <2>4 DEF c0
  <2>7. menu' = [menu EXCEPT ![m].m_bCancelling = TRUE]
    BY <1>1, <1>5
  <2>8. ASSUME NEW g \in Calls(stack), Redrawing(g) PROVE g.menu # m
    <3>1. Shape(g) /\ g \in Frame
      BY AllShapes DEF IInv, TypeOK
    <3>2. g.client \in Clients
      <4>1. g.proc \in {"StartVote", "DoClientMenu", "_CancelClientMenu", "ClientPressedKey", "EndVoting",
                        "Cancel", "Destroy", "Disconnect"}
        BY <3>1 DEF Frame
      <4> QED BY <2>8, <3>1, <4>1 DEF Shape, Redrawing
    <3>3. InMenu(g.client, g.menu)
      BY <2>8 DEF IInv, PlayersOK, InMenu, Rendering, Redrawing
    <3>4. Redrawn(g.client)
      BY <2>8, RedrawnCalls
    <3>5. ~InMenu(g.client, m)
      BY <3>2, <3>4 DEF CancelVoting
    <3> QED BY <3>3, <3>5
  <2> HIDE DEF m
  <2> QED BY <1>1, <1>2, <1>3, <1>5, <2>5, <2>6, <2>7, <2>8, CancelStarts
<1> QED BY <1>4, <1>5

LEMMA DestroyMenuStep ==
  ASSUME IInv, NEW m \in Menus, DestroyMenu(m)
  PROVE  IInv'
<1> DEFINE d == Call("Destroy", "delete", NULL, m, "plugin")
           c0 == Call("Cancel", "loop", NULL, m, "plugin")
<1>1. /\ Doomed(m) /\ UNCHANGED <<inGame, player, vote, calls>>
      /\ menu[m].m_bCancelling => menu' = [menu EXCEPT ![m].m_bShouldDelete = TRUE] /\ stack' = stack
      /\ ~menu[m].m_bCancelling =>
           menu' = [menu EXCEPT ![m].m_bCancelling = TRUE] /\ stack' = stack \o <<d, Looping(c0, EachClient)>>
  BY DEF DestroyMenu, Looping
<1>2. /\ stack \in Seq(Frame) /\ FramesOK(stack) /\ menu \in [Menus -> CBaseMenu] /\ MenuOK(m)
      /\ NULL \notin Menus /\ NULL \notin BOOLEAN
  BY VotingAssumption DEF IInv, TypeOK, MenusOK, MenuOK, Menus
<1>3. /\ menu[m].closed /\ ~menu[m].deleted /\ ~menu[m].m_bShouldDelete
      /\ \A f \in Calls(stack) : f.menu = m => ~f.root /\ f.proc # "Destroy"
  <2>1. DOMAIN stack = 1..Len(stack)
    BY <1>2
  <2> QED BY <1>1, <2>1 DEF Doomed, Rooted, Calls
<1>4. Free(m) /\ ~Gone(m)
  BY <1>3 DEF Free, Gone
<1>5. /\ UNCHANGED <<inGame, player, m_pCurMenu, m_bStarted, m_Clients, m_NumVotes, m_Votes, m_ClientVotes,
                     m_displayTimer, timers>>
      /\ m_bCancelled' \in BOOLEAN /\ calls' \in 0..MaxCalls
  BY <1>1 DEF vote, IInv, TypeOK
<1>6. CASE menu[m].m_bCancelling
  <2>1. menu' = [menu EXCEPT ![m].m_bShouldDelete = TRUE] /\ stack' = stack
    BY <1>1, <1>6
  <2>2. /\ \A n \in Menus : n # m => menu'[n] = menu[n]
        /\ menu'[m].m_bCancelling = menu[m].m_bCancelling /\ menu'[m].closed = menu[m].closed
        /\ menu'[m].deleted = menu[m].deleted /\ menu'[m].m_bShouldDelete
    BY <1>2, <2>1 DEF CBaseMenu
  <2>3. menu' \in [Menus -> CBaseMenu]
    BY <1>2, <2>1 DEF CBaseMenu
  <2>4. ~Gone(m)'
    BY <1>3, <2>1, <2>2 DEF Gone
  <2>5. MenuOK(m)'
    BY <1>2, <1>3, <1>6, <2>1, <2>2, <2>4 DEF MenuOK
  <2>6. \A n \in Menus : menu'[n].closed = menu[n].closed
    BY <2>2
  <2>7. \A f \in Calls(stack') : Early(f) => ~menu'[f.menu].closed
    <3>1. \A g \in Calls(stack) : Shape(g)
      BY AllShapes DEF IInv, TypeOK
    <3>2. \A g \in Calls(stack) : Early(g) => ~menu[g.menu].closed /\ g.menu \in Menus
      BY <3>1 DEF IInv, MenusOK, Early, Shape, Menus
    <3> QED BY <2>1, <2>6, <3>2
  <2>8. \A f \in Calls(stack') : f.proc = "Cancel" => \A c \in Clients : InMenu(c, f.menu) => Has(f.todo, c)
    BY <2>1, <2>6 DEF IInv, MenusOK, Menus
  <2>9. MenusOK'
    BY <1>5, <2>1, <2>2, <2>5, <2>7, <2>8, OneMenu
  <2> QED BY <1>2, <1>5, <2>1, <2>3, <2>9, OnlyMenus
<1>7. CASE ~menu[m].m_bCancelling
  <2>1. menu' = [menu EXCEPT ![m].m_bCancelling = TRUE] /\ stack' = stack \o <<d, Looping(c0, EachClient)>>
    BY <1>1, <1>7
  <2>2. Parts(d, "Destroy", "delete", NULL, m) /\ Parts(c0, "Cancel", "loop", NULL, m)
    <3>1. Parts(d, "Destroy", "delete", NULL, m)
      BY PlainCall DEF Callbacks
    <3>2. Parts(c0, "Cancel", "loop", NULL, m)
      BY PlainCall DEF Callbacks
    <3> QED BY <3>1, <3>2
  <2> HIDE DEF c0, d
  <2>3. Parts(Looping(c0, EachClient), "Cancel", "loop", NULL, m)
    BY <2>2, LoopCall, EachClientHas
  <2>4. /\ d \in Frame /\ d.proc = "Destroy" /\ d.pc = "delete" /\ d.client = NULL /\ d.menu = m
        /\ d.mh = "plugin" /\ d.old = NULL /\ ~d.root
    BY <2>2 DEF Parts
  <2>5. Looping(c0, EachClient) \in Frame
    BY <2>3 DEF Parts
  <2>6. stack' = Append(Append(stack, d), Looping(c0, EachClient))
    BY <1>2, <2>1, <2>4, <2>5, Joined
  <2>7. \A g \in Calls(stack) : ~Anchor(g, m)
    <3>1. \A g \in Calls(stack) : g.proc = "Cancel" => g.menu # m
      BY <1>2, <1>7 DEF MenuOK
    <3>2. \A g \in Calls(stack) : Early(g) => g.menu # m
      BY <1>3 DEF IInv, MenusOK
    <3> QED BY <1>3, <3>1, <3>2 DEF Anchor
  <2>8. \A g \in Calls(stack) : g.menu # m
    BY <1>2, <1>3, <2>7, Unanchored
  <2>9. ~Early(d) /\ ~Rendering(d) /\ ~ForVote(d)
    BY <2>4 DEF Early, Rendering, ForVote
  <2>10. Fits(Calls(stack), d)
    <3>1. Shape(d)
      BY <2>4 DEF Shape
    <3>2. \A g \in Calls(stack) : Pair(g, d)
      BY <1>2, <2>4, <2>8, <2>9 DEF Pair
    <3> QED BY <1>2, <2>4, <3>1, <3>2 DEF Fits
  <2> DEFINE K == Append(stack, d)
  <2>11. K \in Seq(Frame) /\ FramesOK(K) /\ Calls(K) = Calls(stack) \cup {d}
    BY <1>2, <2>4, <2>10, Push
  <2>12. InCalls(K) = InCalls(stack)
    BY <1>2, <2>4, <2>9, CountPush
  <2> HIDE DEF K
  <2>13. stack' = Append(K, Looping(Call("Cancel", "loop", NULL, m, "plugin"), EachClient))
    BY <2>6 DEF K, c0
  <2>14. \A g \in Calls(K) : g \in Calls(stack) \/ (Ends(g, m) /\ g.proc = "Destroy")
    BY <2>4, <2>9, <2>11 DEF Ends
  <2>15. \A g \in Calls(stack) : g \in Calls(K)
    BY <2>11
  <2> QED BY <1>4, <1>5, <1>7, <2>1, <2>8, <2>11, <2>12, <2>13, <2>14, <2>15, CancelStarts
<1> QED BY <1>6, <1>7

\* The loop of CancelMenu is over.
LEMMA CancelMenuEnds ==
  ASSUME IInv, CancelMenu, Top.todo = <<>>
  PROVE  IInv'
<1>0. PICK m : m = Top.menu
  OBVIOUS
<1>1. /\ stack # <<>> /\ Top.proc = "Cancel" /\ stack' = Caller
      /\ menu' = [menu EXCEPT ![m].m_bCancelling = FALSE, ![m].deleted = @ \/ menu[m].m_bShouldDelete]
      /\ UNCHANGED <<inGame, player, vote, calls>>
  BY <1>0 DEF CancelMenu
<1>2. /\ Top \in Frame /\ Calls(stack) = Calls(Caller) \cup {Top} /\ Caller \in Seq(Frame)
      /\ FramesOK(Caller) /\ Fits(Calls(Caller), Top) /\ Shape(Top)
      /\ \A g \in Calls(stack) : Shape(g) /\ g \in Frame
      /\ InCalls(Caller) \in Nat
      /\ InCalls(stack) = IF ForVote(Top) THEN InCalls(Caller) + 1 ELSE InCalls(Caller)
      /\ InCalls(Caller) = 0 <=> \A g \in Calls(Caller) : ~ForVote(g)
  BY <1>1, TopView
<1>3. m \in Menus /\ ~ForVote(Top) /\ m # NULL /\ ~Early(Top)
  BY <1>0, <1>1, <1>2, VotingAssumption DEF Shape, ForVote, Menus, Early
<1>4. InCalls(stack') = InCalls(stack)
  BY <1>1, <1>2, <1>3
<1>5. menu \in [Menus -> CBaseMenu] /\ MenuOK(m) /\ menu[m] \in CBaseMenu
  BY <1>3 DEF IInv, TypeOK, MenusOK, MenuOK
<1>6. /\ \A n \in Menus : n # m => menu'[n] = menu[n]
      /\ menu'[m].closed = menu[m].closed /\ menu'[m].m_bShouldDelete = menu[m].m_bShouldDelete
      /\ menu'[m] \in CBaseMenu /\ menu' \in [Menus -> CBaseMenu]
  <2>1. (menu[m].deleted \/ menu[m].m_bShouldDelete) \in BOOLEAN
    OBVIOUS
  <2>2. menu'[m] = [menu[m] EXCEPT !.m_bCancelling = FALSE, !.deleted = menu[m].deleted \/ menu[m].m_bShouldDelete]
    BY <1>1, <1>3, <1>5
  <2>3. menu'[m].closed = menu[m].closed /\ menu'[m].m_bShouldDelete = menu[m].m_bShouldDelete /\ menu'[m] \in CBaseMenu
    BY <1>5, <2>1, <2>2 DEF CBaseMenu
  <2>4. \A n \in Menus : n # m => menu'[n] = menu[n]
    BY <1>1, <1>5
  <2>5. menu' \in [Menus -> CBaseMenu]
    BY <1>1, <1>5, <2>3, <2>4
  <2> QED BY <2>3, <2>4, <2>5
<1>7. ~menu'[m].m_bCancelling /\ (menu'[m].deleted <=> menu[m].deleted \/ menu[m].m_bShouldDelete)
  <2>1. menu'[m] = [menu[m] EXCEPT !.m_bCancelling = FALSE, !.deleted = menu[m].deleted \/ menu[m].m_bShouldDelete]
    BY <1>1, <1>3, <1>5
  <2> QED BY <1>5, <2>1 DEF CBaseMenu
<1>8. \A c \in Clients : ~InMenu(c, m)
  <2>1. \A c \in Clients : InMenu(c, m) => Has(Top.todo, c)
    BY <1>0, <1>1, <1>2 DEF IInv, MenusOK
  <2>2. \A c : ~Has(<<>>, c)
    BY DEF Has
  <2> QED BY <2>1, <2>2
<1>9. \A g \in Calls(Caller) : g.proc = "Cancel" => g.menu # m
  BY <1>0, <1>1, <1>2 DEF Fits, Pair
<1>10. \A g \in Calls(stack) : Early(g) => ~menu[g.menu].closed /\ g.menu \in Menus
  BY <1>2 DEF IInv, MenusOK, Early, Shape, Menus
<1>11. ~menu[m].deleted
  BY <1>0, <1>1, <1>2, <1>5 DEF MenuOK, Gone
<1>12. ASSUME Condemned(m)
       PROVE  menu[m].closed /\ m_pCurMenu # m /\ \A g \in Calls(Caller) : g.menu = m => g.proc = "Destroy"
  <2>1. menu[m].closed /\ \A g \in Calls(stack) : g.menu = m => ~g.root
    BY <1>5, <1>12 DEF MenuOK
  <2>2. \A g \in Calls(Caller) : ~Anchor(g, m)
    BY <1>2, <1>9, <1>10, <2>1 DEF Anchor
  <2>3. \A g \in Calls(Caller) : g.menu = m => g.proc = "Destroy"
    BY <1>2, <1>3, <2>2, Unanchored
  <2>4. ASSUME m_pCurMenu = m PROVE FALSE
    <3>1. \A c \in Clients : ~InVoteMenu(c)
      BY <1>8, <2>4 DEF IInv, VoteOK, InVoteMenu, InMenu
    <3>2. \A g \in Calls(Caller) : ~ForVote(g)
      <4>1. \A g \in Calls(Caller) : ForVote(g) => g.menu = m
        BY <1>2, <2>4 DEF IInv, VoteOK
      <4>2. \A g \in Calls(Caller) : g.proc = "Destroy" => ~ForVote(g)
        BY <1>2 DEF Shape, ForVote
      <4> QED BY <2>3, <4>1, <4>2
    <3>3. m_Clients = 0
      <4>1. InCalls(stack) = 0
        BY <1>2, <1>3, <3>2
      <4>2. {c \in Clients : InVoteMenu(c)} = {}
        BY <3>1
      <4>3. Cardinality({c \in Clients : InVoteMenu(c)}) = 0
        BY <4>2, FS_EmptySet
      <4> QED BY <4>1, <4>3 DEF IInv, VoteOK
    <3>4. ~m_bStarted
      <4> SUFFICES ASSUME m_bStarted PROVE FALSE
        OBVIOUS
      <4>1. PICK g \in Calls(stack) : Starting(g) /\ g.menu = m
        BY <2>4, <3>3 DEF IInv, VoteOK
      <4>2. g # Top /\ g.proc # "Destroy"
        BY <1>1, <1>2, <4>1 DEF Starting, Shape
      <4> QED BY <1>2, <2>3, <4>1, <4>2
    <3>5. PICK g \in Calls(stack) : Early(g)
      BY <1>3, <2>4, <3>4 DEF IInv, VoteOK
    <3>6. g.menu = m
      BY <2>4, <3>5 DEF IInv, VoteOK
    <3> QED BY <1>10, <2>1, <3>5, <3>6
  <2> QED BY <2>1, <2>3, <2>4
<1>13. Condemned(m)' <=> Condemned(m)
  <2>1. (\E g \in Calls(stack)' : g.proc = "Destroy" /\ g.menu = m) <=> \E g \in Calls(stack) : g.proc = "Destroy" /\ g.menu = m
    BY <1>1, <1>2
  <2> QED BY <1>6, <2>1 DEF Condemned
<1>14. Gone(m)' => Condemned(m)
  BY <1>1, <1>2, <1>7, <1>11 DEF Gone, Condemned
<1>15. \A c \in Clients : \A n : InMenu(c, n)' <=> InMenu(c, n)
  BY <1>1 DEF InMenu
<1>16. m_pCurMenu' = m_pCurMenu
  BY <1>1 DEF vote
<1>17. MenuOK(m)'
  <2>1. menu'[m].deleted \/ Condemned(m)' => menu'[m].closed
    BY <1>6, <1>7, <1>11, <1>12, <1>13 DEF Condemned
  <2>2. Condemned(m)' => \A f \in Calls(stack)' : f.menu = m => ~f.root
    BY <1>1, <1>2, <1>5, <1>13 DEF MenuOK
  <2>3. menu'[m].m_bCancelling <=> \E f \in Calls(stack)' : f.proc = "Cancel" /\ f.menu = m
    BY <1>1, <1>7, <1>9
  <2>4. menu'[m].m_bShouldDelete =>
          /\ menu'[m].deleted \/ menu'[m].m_bCancelling
          /\ \A f \in Calls(stack)' : f.menu = m => f.proc # "Destroy"
    BY <1>1, <1>2, <1>5, <1>6, <1>7 DEF MenuOK
  <2>5. Gone(m)' =>
          /\ m_pCurMenu' # m
          /\ \A c \in Clients : ~InMenu(c, m)'
          /\ \A f \in Calls(stack)' : f.menu = m => f.proc = "Destroy" /\ ~menu'[m].deleted
    <3> SUFFICES ASSUME Gone(m)'
                 PROVE  /\ m_pCurMenu' # m
                        /\ \A c \in Clients : ~InMenu(c, m)'
                        /\ \A f \in Calls(stack)' : f.menu = m => f.proc = "Destroy" /\ ~menu'[m].deleted
      OBVIOUS
    <3>1. m_pCurMenu # m /\ \A g \in Calls(Caller) : g.menu = m => g.proc = "Destroy"
      BY <1>12, <1>14
    <3>2. \A g \in Calls(Caller) : g.menu = m => ~menu'[m].deleted
      BY <1>2, <1>5, <1>7, <1>11, <3>1 DEF MenuOK
    <3> QED BY <1>1, <1>8, <1>15, <1>16, <3>1, <3>2
  <2> QED BY <2>1, <2>2, <2>3, <2>4, <2>5 DEF MenuOK
<1>18. MenusOK'
  <2>1. \A n \in Menus : menu'[n].closed = menu[n].closed
    BY <1>6
  <2>3. \A f \in Calls(stack') : Early(f) => ~menu'[f.menu].closed
    BY <1>1, <1>2, <1>10, <2>1
  <2>4. \A f \in Calls(stack') : f.proc = "Cancel" => \A c \in Clients : InMenu(c, f.menu) => Has(f.todo, c)
    BY <1>1, <1>2 DEF IInv, MenusOK
  <2>5. \A f \in Calls(stack) : f \in Calls(stack') \/ f.menu = m
    BY <1>0, <1>1, <1>2
  <2>6. \A f \in Calls(stack') : f \in Calls(stack) \/ f.menu = m
    BY <1>1, <1>2
  <2> QED BY <1>1, <1>3, <1>6, <1>16, <1>17, <2>3, <2>4, <2>5, <2>6, OneMenu
<1>19. /\ UNCHANGED <<inGame, player, m_pCurMenu, m_bStarted, m_Clients, m_NumVotes, m_Votes, m_ClientVotes,
                     m_displayTimer, timers>>
      /\ m_bCancelled' \in BOOLEAN /\ calls' \in 0..MaxCalls
  BY <1>1 DEF vote, IInv, TypeOK
<1>20. /\ stack' \in Seq(Frame) /\ FramesOK(stack')
       /\ \A f \in Calls(stack) : f \in Calls(stack') \/ f.proc \in {"Cancel", "Destroy"}
       /\ \A f \in Calls(stack') : f \in Calls(stack)
  BY <1>1, <1>2
<1> QED BY <1>4, <1>6, <1>18, <1>19, <1>20, OnlyMenus

LEMMA InternalDeleteStep ==
  ASSUME IInv, InternalDelete
  PROVE  IInv'
<1>0. PICK m : m = Top.menu
  OBVIOUS
<1>1. /\ stack # <<>> /\ Top.proc = "Destroy" /\ stack' = Caller
      /\ menu' = [menu EXCEPT ![m].deleted = TRUE]
      /\ UNCHANGED <<inGame, player, vote, calls>>
  BY <1>0 DEF InternalDelete
<1>2. /\ Top \in Frame /\ Calls(stack) = Calls(Caller) \cup {Top} /\ Caller \in Seq(Frame)
      /\ FramesOK(Caller) /\ Fits(Calls(Caller), Top) /\ Shape(Top)
      /\ \A g \in Calls(stack) : Shape(g)
      /\ InCalls(Caller) \in Nat
      /\ InCalls(stack) = IF ForVote(Top) THEN InCalls(Caller) + 1 ELSE InCalls(Caller)
  BY <1>1, TopView
<1>3. m \in Menus /\ ~ForVote(Top)
  BY <1>0, <1>1, <1>2 DEF Shape, ForVote
<1>4. InCalls(stack') = InCalls(stack)
  BY <1>1, <1>2, <1>3
<1>5. menu \in [Menus -> CBaseMenu] /\ MenuOK(m) /\ menu[m] \in CBaseMenu
  BY <1>3 DEF IInv, TypeOK, MenusOK, MenuOK
<1>6. \A g \in Calls(Caller) : g.menu # m
  BY <1>0, <1>1, <1>2 DEF Fits, Pair
<1>7. Top \in Calls(stack) /\ Top.menu = m
  BY <1>0, <1>2
<1>8. /\ \A n \in Menus : n # m => menu'[n] = menu[n]
      /\ menu'[m].closed = menu[m].closed /\ menu'[m].m_bShouldDelete = menu[m].m_bShouldDelete
      /\ menu'[m].m_bCancelling = menu[m].m_bCancelling /\ menu'[m].deleted
      /\ menu' \in [Menus -> CBaseMenu]
  BY <1>1, <1>3, <1>5 DEF CBaseMenu
<1>9. ~menu[m].m_bCancelling
  BY <1>1, <1>2, <1>5, <1>6, <1>7 DEF MenuOK
<1>10. Gone(m) /\ Condemned(m)
  BY <1>1, <1>7, <1>9 DEF Gone, Condemned
<1>11. menu[m].closed /\ m_pCurMenu # m /\ (\A c \in Clients : ~InMenu(c, m)) /\ ~menu[m].m_bShouldDelete
  BY <1>1, <1>5, <1>7, <1>10 DEF MenuOK
<1>12. \A c \in Clients : \A n : InMenu(c, n)' <=> InMenu(c, n)
  BY <1>1 DEF InMenu
<1>13. /\ UNCHANGED <<inGame, player, m_pCurMenu, m_bStarted, m_Clients, m_NumVotes, m_Votes, m_ClientVotes,
                     m_displayTimer, timers>>
      /\ m_bCancelled' \in BOOLEAN /\ calls' \in 0..MaxCalls
  BY <1>1 DEF vote, IInv, TypeOK
<1>14. \A g \in Calls(stack)' : g.menu # m
  BY <1>1, <1>6
<1>15. ~Condemned(m)'
  BY <1>8, <1>11, <1>14 DEF Condemned
<1>16. MenuOK(m)'
  BY <1>8, <1>9, <1>11, <1>12, <1>13, <1>14, <1>15 DEF MenuOK
<1>17. MenusOK'
  <2>1. \A n \in Menus : menu'[n].closed = menu[n].closed
    BY <1>8
  <2>3. \A f \in Calls(stack') : Early(f) => ~menu'[f.menu].closed
    <3>1. \A g \in Calls(stack) : Early(g) => ~menu[g.menu].closed /\ g.menu \in Menus
      BY <1>2 DEF IInv, MenusOK, Early, Shape, Menus
    <3> QED BY <1>1, <1>2, <2>1, <3>1
  <2>4. \A f \in Calls(stack') : f.proc = "Cancel" => \A c \in Clients : InMenu(c, f.menu) => Has(f.todo, c)
    BY <1>1, <1>2 DEF IInv, MenusOK
  <2>5. \A f \in Calls(stack) : f \in Calls(stack') \/ f.menu = m
    BY <1>1, <1>2, <1>7
  <2>6. \A f \in Calls(stack') : f \in Calls(stack) \/ f.menu = m
    BY <1>1, <1>2
  <2> QED BY <1>3, <1>8, <1>13, <1>16, <2>3, <2>4, <2>5, <2>6, OneMenu
<1>18. /\ stack' \in Seq(Frame) /\ FramesOK(stack')
       /\ \A f \in Calls(stack) : f \in Calls(stack') \/ f.proc \in {"Cancel", "Destroy"}
       /\ \A f \in Calls(stack') : f \in Calls(stack)
  BY <1>1, <1>2
<1> QED BY <1>4, <1>8, <1>13, <1>17, <1>18, OnlyMenus

LEMMA CloseMenuStep ==
  ASSUME IInv, "CloseInStart" \notin Habits, NEW m \in Menus, CloseMenu(m)
  PROVE  IInv'
<1>1. /\ ~menu[m].closed /\ ~BeingStarted(m)
      /\ stack' = stack \o <<>> /\ calls < MaxCalls /\ calls' = calls + 1
      /\ menu' = [menu EXCEPT ![m].closed = TRUE]
      /\ UNCHANGED <<inGame, player, vote>>
  BY DEF CloseMenu, Native
<1>2. /\ \A g \in Calls(stack) : Shape(g)
      /\ stack \in Seq(Frame) /\ FramesOK(stack)
  BY AllShapes DEF IInv, TypeOK
<1>3. stack' = stack
  BY <1>1, <1>2
<1>4. DOMAIN stack = 1..Len(stack)
  BY <1>2
<1>5. \A g \in Calls(stack) : Early(g) => g.menu # m /\ g.menu \in Menus
  BY <1>1, <1>2, <1>4 DEF BeingStarted, Calls, Early, Shape, Menus
<1>7. menu \in [Menus -> CBaseMenu] /\ MenuOK(m) /\ menu[m] \in CBaseMenu
  BY DEF IInv, TypeOK, MenusOK, MenuOK
<1>8. /\ \A n \in Menus : n # m => menu'[n] = menu[n]
      /\ menu'[m].closed /\ menu'[m].m_bShouldDelete = menu[m].m_bShouldDelete
      /\ menu'[m].m_bCancelling = menu[m].m_bCancelling /\ menu'[m].deleted = menu[m].deleted
      /\ menu' \in [Menus -> CBaseMenu]
  BY <1>1, <1>7 DEF CBaseMenu
<1>9. \A c \in Clients : \A n : InMenu(c, n)' <=> InMenu(c, n)
  BY <1>1 DEF InMenu
<1>10. /\ UNCHANGED <<inGame, player, m_pCurMenu, m_bStarted, m_Clients, m_NumVotes, m_Votes, m_ClientVotes,
                     m_displayTimer, timers>>
      /\ m_bCancelled' \in BOOLEAN /\ calls' \in 0..MaxCalls
  BY <1>1, VotingAssumption DEF vote, IInv, TypeOK
<1>11. (Gone(m)' <=> Gone(m)) /\ (Condemned(m)' <=> Condemned(m))
  BY <1>3, <1>8 DEF Gone, Condemned
<1>12. MenuOK(m)'
  BY <1>3, <1>7, <1>8, <1>9, <1>10, <1>11 DEF MenuOK
<1>13. MenusOK'
  <2>1. \A f \in Calls(stack') : Early(f) => ~menu'[f.menu].closed
    BY <1>3, <1>5, <1>8 DEF IInv, MenusOK
  <2>2. \A f \in Calls(stack') : f.proc = "Cancel" => \A c \in Clients : InMenu(c, f.menu) => Has(f.todo, c)
    BY <1>3 DEF IInv, MenusOK
  <2> QED BY <1>3, <1>8, <1>10, <1>12, <2>1, <2>2, OneMenu
<1> QED BY <1>2, <1>3, <1>8, <1>10, <1>13, OnlyMenus

-----------------------------------------------------------------------------
(* A menu is drawn.                                                        *)

\* The innermost call is for a client.
LEMMA TopClient ==
  ASSUME IInv, stack # <<>>,
         Top.pc \in {"start", "render", "OnMenuDrawItem", "OnMenuDisplay", "OnMenuRedrawItem", "OnMenuRedraw",
                     "OnClientDisconnect_Post", "votes"}
  PROVE  /\ Top.client \in Clients /\ Top.old = NULL /\ Top.mh \in {"vote", "plugin"}
         /\ Top.pc \in {"start", "render", "OnMenuDrawItem", "OnMenuDisplay"} =>
              Top.proc = "DoClientMenu" /\ Top.menu \in Menus /\ HandledBy(Top.menu, Top.mh)
         /\ Top.pc \in {"OnMenuRedrawItem", "OnMenuRedraw"} =>
              Top.proc = "ClientPressedKey" /\ Top.menu \in Menus /\ HandledBy(Top.menu, Top.mh)
         /\ Top.pc \in {"OnClientDisconnect_Post", "votes"} =>
              Top.proc = "Disconnect" /\ Top.menu = NULL /\ Top.mh = "plugin"
<1>1. Top \in Frame /\ Shape(Top)
  BY TopView
<1>2. Top.proc \in {"StartVote", "DoClientMenu", "_CancelClientMenu", "ClientPressedKey", "EndVoting",
                      "Cancel", "Destroy", "Disconnect"} /\ Top.mh \in {"vote", "plugin"}
  BY <1>1 DEF Frame
<1>3. /\ Top.pc \in {"start", "render", "OnMenuDrawItem", "OnMenuDisplay"} => Top.proc = "DoClientMenu"
      /\ Top.pc \in {"OnMenuRedrawItem", "OnMenuRedraw"} => Top.proc = "ClientPressedKey"
      /\ Top.pc \in {"OnClientDisconnect_Post", "votes"} => Top.proc = "Disconnect"
  BY <1>1, <1>2 DEF Shape
<1> QED BY <1>1, <1>2, <1>3 DEF Shape, HandledBy, Menus

\* Client c is drawn a menu, by the call t that was innermost.
LEMMA PlayersDrawn ==
  ASSUME IInv, stack # <<>>, NEW c, c = Top.client, NEW t, t.client = c, Ignoring(t),
         \A g \in Calls(Caller) : Rendering(g) => g.client # c,
         \A d \in Clients : d # c => player'[d] = player[d],
         player'[c].bAutoIgnore, ~player'[c].bInMenu, ~Redrawing(t),
         t.pc # "render" => player'[c].menu = t.menu /\ player'[c].mh = t.mh,
         \A g \in Calls(Caller) : g \in Calls(stack'), t \in Calls(stack'),
         \A g \in Calls(stack') : g \in Calls(Caller) \/ g = t \/ ~Rendering(g)
  PROVE  PlayersOK'
<1>1. Calls(stack) = Calls(Caller) \cup {Top} /\ PlayersOK /\ \A g \in Calls(stack) : Shape(g) /\ g \in Frame
  BY TopView DEF IInv
<1>2. ASSUME NEW d \in Clients, player'[d].bInMenu PROVE HandledBy(player'[d].menu, player'[d].mh)
  BY <1>1, <1>2 DEF PlayersOK
<1>3. ASSUME NEW d \in Clients, player'[d].bAutoIgnore
      PROVE  \E f \in Calls(stack)' : f.client = d /\ Ignoring(f)
  <2>1. CASE d = c
    BY <2>1
  <2>2. CASE d # c
    <3>1. PICK f \in Calls(stack) : f.client = d /\ Ignoring(f)
      BY <1>1, <1>3, <2>2 DEF PlayersOK
    <3> QED BY <1>1, <2>2, <3>1
  <2> QED BY <2>1, <2>2
<1>4. ASSUME NEW f \in Calls(stack)', Rendering(f)
      PROVE  /\ player'[f.client].bAutoIgnore /\ (player'[f.client].bInMenu <=> Redrawing(f))
             /\ f.pc # "render" => player'[f.client].menu = f.menu /\ player'[f.client].mh = f.mh
  <2>1. CASE f = t
    BY <2>1
  <2>2. CASE f # t
    <3>1. f \in Calls(Caller) /\ f.client # c
      BY <1>4, <2>2
    <3>2. f.client \in Clients
      <4>1. Shape(f) /\ f \in Frame
        BY <1>1, <3>1
      <4>2. f.proc \in {"StartVote", "DoClientMenu", "_CancelClientMenu", "ClientPressedKey", "EndVoting",
                      "Cancel", "Destroy", "Disconnect"}
        BY <4>1 DEF Frame
      <4> QED BY <1>4, <4>1, <4>2 DEF Shape, Rendering
    <3> QED BY <1>1, <1>4, <3>1, <3>2 DEF PlayersOK
  <2> QED BY <2>1, <2>2
<1> QED BY <1>2, <1>3, <1>4 DEF PlayersOK

\* No menu is drawn for client c any more.
LEMMA PlayersRest ==
  ASSUME IInv, stack # <<>>, NEW c, c = Top.client,
         \A g \in Calls(Caller) : Rendering(g) => g.client # c,
         \A d \in Clients : d # c => player'[d] = player[d],
         ~player'[c].bAutoIgnore, player'[c].bInMenu => HandledBy(player'[c].menu, player'[c].mh),
         \A g \in Calls(Caller) : g \in Calls(stack'),
         \A g \in Calls(stack') : g \in Calls(Caller) \/ ~Rendering(g)
  PROVE  PlayersOK'
<1>1. Calls(stack) = Calls(Caller) \cup {Top} /\ PlayersOK /\ \A g \in Calls(stack) : Shape(g) /\ g \in Frame
  BY TopView DEF IInv
<1>2. ASSUME NEW d \in Clients, player'[d].bInMenu PROVE HandledBy(player'[d].menu, player'[d].mh)
  BY <1>1, <1>2 DEF PlayersOK
<1>3. ASSUME NEW d \in Clients, player'[d].bAutoIgnore
      PROVE  \E f \in Calls(stack)' : f.client = d /\ Ignoring(f)
  <2>1. d # c
    BY <1>3
  <2>2. PICK f \in Calls(stack) : f.client = d /\ Ignoring(f)
    BY <1>1, <1>3, <2>1 DEF PlayersOK
  <2> QED BY <1>1, <2>1, <2>2
<1>4. ASSUME NEW f \in Calls(stack)', Rendering(f)
      PROVE  /\ player'[f.client].bAutoIgnore /\ (player'[f.client].bInMenu <=> Redrawing(f))
             /\ f.pc # "render" => player'[f.client].menu = f.menu /\ player'[f.client].mh = f.mh
  <2>1. f \in Calls(Caller) /\ f.client # c
    BY <1>4
  <2>2. f.client \in Clients
    <3>1. Shape(f) /\ f \in Frame
      BY <1>1, <2>1
    <3>2. f.proc \in {"StartVote", "DoClientMenu", "_CancelClientMenu", "ClientPressedKey", "EndVoting",
                      "Cancel", "Destroy", "Disconnect"}
      BY <3>1 DEF Frame
    <3> QED BY <1>4, <3>1, <3>2 DEF Shape, Rendering
  <2> QED BY <1>1, <1>4, <2>1, <2>2 DEF PlayersOK
<1> QED BY <1>2, <1>3, <1>4 DEF PlayersOK

\* The innermost call draws: no other one draws for its client.
LEMMA DrawsAlone ==
  ASSUME IInv, stack # <<>>, Rendering(Top)
  PROVE  /\ \A g \in Calls(Caller) : Rendering(g) => g.client # Top.client
         /\ player[Top.client].bAutoIgnore /\ (player[Top.client].bInMenu <=> Redrawing(Top))
         /\ Top.pc # "render" => player[Top.client].menu = Top.menu /\ player[Top.client].mh = Top.mh
<1>1. Fits(Calls(Caller), Top) /\ Calls(stack) = Calls(Caller) \cup {Top}
  BY TopView
<1> QED BY <1>1 DEF Fits, Pair, IInv, PlayersOK

LEMMA DoClientMenuStep ==
  ASSUME IInv, \A n \in Menus : ~Doomed(n), DoClientMenu
  PROVE  IInv'
<1>0. PICK c : c = Top.client
  OBVIOUS
<1> DEFINE pc == IF c \notin inGame \/ player[c].bAutoIgnore THEN "OnMenuCancel" ELSE "render"
           t == [Top EXCEPT !.pc = pc]
           K == Append(Caller, t)
<1>1. /\ stack # <<>> /\ Top.pc = "start" /\ UNCHANGED <<inGame, menu, vote, calls>>
      /\ c \notin inGame \/ player[c].bAutoIgnore => stack' = At(stack, "OnMenuCancel") /\ player' = player
      /\ ~(c \notin inGame \/ player[c].bAutoIgnore) =>
           /\ player' = IF OldMenu(c)
                        THEN [player EXCEPT ![c].bInMenu = FALSE, ![c].bAutoIgnore = TRUE]
                        ELSE [player EXCEPT ![c].bAutoIgnore = TRUE]
           /\ stack' = At(stack, "render") \o
                IF OldMenu(c) THEN <<[CancelFrame(c, TRUE) EXCEPT !.old = TRUE]>> ELSE <<>>
  BY <1>0 DEF DoClientMenu
<1>2. /\ Top \in Frame /\ Calls(stack) = Calls(Caller) \cup {Top} /\ Caller \in Seq(Frame) /\ Shape(Top)
      /\ Fits(Calls(Caller), Top)
      /\ InCalls(Caller) \in Nat
      /\ InCalls(stack) = IF ForVote(Top) THEN InCalls(Caller) + 1 ELSE InCalls(Caller)
  BY <1>1, TopView
<1>3. c \in Clients /\ Top.old = NULL /\ Top.proc = "DoClientMenu" /\ Top.menu \in Menus /\ Top.mh \in {"vote", "plugin"}
  BY <1>0, <1>1, TopClient
<1>4. pc \in {"OnMenuCancel", "render"} /\ (pc = "OnMenuCancel" <=> c \notin inGame \/ player[c].bAutoIgnore)
  OBVIOUS
<1> HIDE DEF pc
<1>5. t.pc = pc /\ t = [Top EXCEPT !.pc = t.pc]
  BY <1>2 DEF Frame
<1> HIDE DEF t
<1>6. /\ t \in Frame /\ Same(t, Top) /\ t.todo = Top.todo
      /\ t.proc = Top.proc /\ t.client = Top.client /\ t.menu = Top.menu /\ t.mh = Top.mh /\ t.root = Top.root
      /\ t.old = Top.old
      /\ At(stack, t.pc) = K
  BY <1>1, <1>4, <1>5, AtPc
<1>7. /\ ~Early(t) /\ ~Starting(t) /\ ~Early(Top) /\ ~Rendering(Top) /\ ~Ignoring(Top) /\ ~Starting(Top)
      /\ ForVote(t) <=> ForVote(Top)
      /\ Showing(t) => Showing(Top)
      /\ Rendering(t) <=> pc = "render"
      /\ Rendering(t) => Ignoring(t)
  BY <1>1, <1>3, <1>4, <1>5, <1>6 DEF Early, Rendering, Ignoring, Starting, Showing, ForVote
<1>8. Shape(t)
  BY <1>1, <1>2, <1>3, <1>4, <1>5, <1>6 DEF Shape
<1>9. CASE pc = "OnMenuCancel"
  <2>1. stack' = Append(Caller, t) /\ player' = player
    BY <1>1, <1>4, <1>5, <1>6, <1>9
  <2>2. ~Rendering(t)
    BY <1>7, <1>9
  <2> QED BY <1>1, <1>6, <1>7, <1>8, <2>1, <2>2, OnlyGoesOn
<1>10. CASE pc = "render"
  <2>1. /\ ~player[c].bAutoIgnore /\ c \in inGame
        /\ player' = IF OldMenu(c)
                     THEN [player EXCEPT ![c].bInMenu = FALSE, ![c].bAutoIgnore = TRUE]
                     ELSE [player EXCEPT ![c].bAutoIgnore = TRUE]
        /\ stack' = K \o IF OldMenu(c) THEN <<[CancelFrame(c, TRUE) EXCEPT !.old = TRUE]>> ELSE <<>>
    BY <1>1, <1>4, <1>5, <1>6, <1>10
  <2>2. \A g \in Calls(Caller) : Rendering(g) => g.client # c
    BY <1>2, <2>1 DEF IInv, PlayersOK
  <2>3. Fits(Calls(Caller), t)
    <3>0. NULL \notin BOOLEAN
      BY VotingAssumption
    <3>1. t.menu # NULL /\ t.proc # "Destroy" => \E g \in Calls(Caller) \cup {t} : Anchor(g, t.menu)
      <4>1. Top.menu # NULL /\ Top.proc # "Destroy" => \E g \in Calls(Caller) \cup {Top} : Anchor(g, Top.menu)
        BY <1>2 DEF Fits
      <4>2. Anchor(Top, Top.menu) => Anchor(t, t.menu)
        BY <1>6, <1>7 DEF Anchor
      <4> QED BY <1>6, <4>1, <4>2
    <3>2. \A g \in Calls(Caller) : Pair(g, t)
      <4>1. \A g \in Calls(Caller) : Pair(g, Top)
        BY <1>2 DEF Fits
      <4> QED BY <1>0, <1>3, <1>6, <1>7, <2>2, <3>0, <4>1 DEF Pair
    <3> QED BY <1>3, <1>6, <1>8, <3>0, <3>1, <3>2 DEF Fits
  <2>4. /\ Base(K) /\ Calls(K) = Calls(Caller) \cup {t} /\ Keeps(K) /\ ShowsNone(K, Voted)
        /\ TodoOK(K, Clients)
        /\ InCalls(K) = IF ForVote(t) THEN InCalls(Caller) + 1 ELSE InCalls(Caller)
    BY <1>1, <1>6, <1>7, <2>3, BaseRefits
  <2> HIDE DEF K
  <2>5. InCalls(K) = InCalls(stack) /\ InCalls(stack) \in Nat
    BY <1>2, <1>7, <2>4
  <2>6. K \in Seq(Frame) /\ player \in [Clients -> CBaseMenuPlayer] /\ player[c] \in CBaseMenuPlayer
    BY <1>3, <2>4 DEF Base, IInv, TypeOK
  <2>7. Ignoring(t) /\ t.client = c /\ t.pc = "render" /\ ~Redrawing(t)
    BY <1>0, <1>5, <1>6, <1>7, <1>10 DEF Redrawing
  <2>8. /\ UNCHANGED <<inGame, menu, m_pCurMenu, m_bStarted, m_bCancelled, m_Clients, m_NumVotes, m_Votes, m_ClientVotes,
                       m_displayTimer, timers, calls>>
        /\ m_ClientVotes' \in [Clients -> VOTE_NOT_VOTING..(NItems - 1)]
    BY <1>1 DEF vote, IInv, TypeOK
  <2>11. NotPaging(c)
    BY <2>1 DEF NotPaging, Redrawing, Rendering, IInv, PlayersOK
  <2>9. CASE ~OldMenu(c)
    <3>1. player' = [player EXCEPT ![c].bAutoIgnore = TRUE] /\ stack' = K
      BY <2>1, <2>6, <2>9
    <3>2. player'[c] = [player[c] EXCEPT !.bAutoIgnore = TRUE]
      BY <1>3, <2>6, <3>1
    <3>3. /\ player'[c] \in CBaseMenuPlayer /\ player'[c].bAutoIgnore /\ player'[c].bInMenu = player[c].bInMenu
          /\ player'[c].menu = player[c].menu /\ player'[c].mh = player[c].mh
      BY <2>6, <3>2 DEF CBaseMenuPlayer
    <3>4. \A d \in Clients : d # c => player'[d] = player[d]
      BY <2>6, <3>1
    <3>5. player' \in [Clients -> CBaseMenuPlayer]
      BY <2>6, <3>1, <3>3, <3>4
    <3>6. ~player'[c].bInMenu
      BY <2>9, <3>3 DEF OldMenu
    <3>7. \A d \in Clients :
            /\ player'[d].bInMenu <=> player[d].bInMenu
            /\ player[d].bInMenu => player'[d].menu = player[d].menu /\ player'[d].mh = player[d].mh
      BY <3>3, <3>4
    <3>8. m_Clients' = m_Clients + InCalls(stack') - InCalls(stack) /\ InCalls(stack') \in Nat
      BY <2>5, <2>8, <3>1 DEF IInv, TypeOK
    <3>9. /\ (m_Clients = Cardinality({d \in Clients : InVoteMenu(d)}) + InCalls(stack))'
          /\ SeesLess(Clients)
      BY <2>5, <3>7, <3>8, SameCount
    <3>10. Base(stack') /\ TodoOK(stack', Clients) /\ ShowsNone(stack', Voted)
      BY <2>4, <3>1
    <3>11. /\ MenusOK' /\ VoteOK' /\ FramesOK(stack') /\ stack' \in Seq(Frame)
           /\ \A d \in Clients : InVoteMenu(d)' => InVoteMenu(d)
           /\ \A f \in Calls(stack)' : Early(f) => \E g \in Calls(stack) : Early(g)
      BY <2>8, <3>9, <3>10, StateKept
    <3>12. PlayersOK'
      BY <1>0, <1>1, <2>2, <2>4, <2>7, <3>1, <3>3, <3>4, <3>6, PlayersDrawn
    <3>13. TypeOK'
      BY <2>8, <3>5, <3>11 DEF IInv, TypeOK
    <3>14. CountedOK'
      BY <2>8, <3>10, <3>11, NobodyVoted
    <3> QED BY <3>11, <3>12, <3>13, <3>14 DEF IInv
  <2>10. CASE OldMenu(c)
    <3> DEFINE f0 == CancelFrame(c, TRUE)
               f == [f0 EXCEPT !.old = TRUE]
    <3>1. player[c].bInMenu /\ player' = [player EXCEPT ![c].bInMenu = FALSE, ![c].bAutoIgnore = TRUE] /\ stack' = K \o <<f>>
      BY <2>1, <2>10 DEF OldMenu
    <3>2. player' = Cancelled(c, TRUE)
      <4>1. (player[c].bAutoIgnore \/ TRUE) = TRUE
        OBVIOUS
      <4>2. [[player[c] EXCEPT !.bInMenu = FALSE] EXCEPT !.bAutoIgnore = TRUE]
              = [[player[c] EXCEPT !.bInMenu = FALSE] EXCEPT !.bAutoIgnore = @ \/ TRUE]
        BY <2>6 DEF CBaseMenuPlayer
      <4> QED BY <1>3, <2>6, <3>1, <4>2 DEF Cancelled
    <3>3. Cancels(f0, c)
      BY <1>3, <3>1, NotGone, CancelFrameParts DEF IInv
    <3> HIDE DEF f0
    <3>4. f0 \in Frame
      BY <3>3 DEF Cancels
    <3>5. /\ f \in Frame /\ f.proc = f0.proc /\ f.pc = f0.pc /\ f.client = f0.client /\ f.menu = f0.menu /\ f.mh = f0.mh
          /\ f.root = f0.root
      BY <3>4 DEF Frame
    <3>6. f.old = TRUE
      BY <3>4 DEF Frame
    <3> HIDE DEF f
    <3>7. Cancels(f, c) /\ f.client = c
      BY <3>3, <3>5 DEF Cancels
    <3>8. PutsBackFor(f, Calls(K))
      BY <2>4, <2>7, <3>6, <3>7 DEF PutsBackFor
    <3>9. \A g \in Calls(stack) : Anchor(g, player[c].menu) => \E h \in Calls(K) : Anchor(h, player[c].menu)
      BY <1>3, <2>4, <3>1, NotGone DEF Keeps
    <3>10. /\ Fits(Calls(K), f) /\ Harmless(f) /\ ~Rendering(f) /\ ~Starts(f)
           /\ (ForVote(f) <=> InVoteMenu(c)) /\ ~Showing(f)
      BY <1>3, <3>1, <3>7, <3>8, <3>9, CancelFits
    <3>11. EndsFor(f, c)
      BY <3>5, <3>7, <3>10 DEF EndsFor, Cancels
    <3>12. stack' = Append(K, f)
      BY <2>6, <3>1, <3>5
    <3>13. TodoOK(K, Clients \ {c})
      BY <2>4 DEF TodoOK
    <3>14. /\ player' \in [Clients -> CBaseMenuPlayer] /\ stack' \in Seq(Frame)
           /\ FramesOK(stack') /\ MenusOK' /\ VoteOK'
           /\ Calls(stack') = Calls(K) \cup {f}
           /\ \A d \in Clients : InVoteMenu(d)' => InVoteMenu(d)
           /\ ShowsNone(stack', Voted)
           /\ \A g \in Calls(stack)' : Early(g) => \E h \in Calls(stack) : Early(h)
      BY <1>3, <2>4, <2>5, <2>8, <2>11, <3>1, <3>2, <3>10, <3>11, <3>12, <3>13, EndStep
    <3>15. \A d \in Clients : d # c => player'[d] = player[d]
      BY <2>6, <3>1
    <3>16. player'[c].bAutoIgnore /\ ~player'[c].bInMenu
      <4>1. player'[c] = [player[c] EXCEPT !.bInMenu = FALSE, !.bAutoIgnore = TRUE]
        BY <1>3, <2>6, <3>1
      <4> QED BY <2>6, <4>1 DEF CBaseMenuPlayer
    <3>17. PlayersOK'
      BY <1>0, <1>1, <2>2, <2>4, <2>7, <3>10, <3>14, <3>15, <3>16, PlayersDrawn
    <3>18. TypeOK'
      BY <2>8, <3>14 DEF IInv, TypeOK
    <3>19. CountedOK'
      BY <2>8, <3>14, NobodyVoted
    <3> QED BY <3>14, <3>17, <3>18, <3>19 DEF IInv
  <2> QED BY <2>9, <2>10
<1> QED BY <1>4, <1>9, <1>10

\* The innermost call goes on drawing its menu for client c, or gives up.
LEMMA DrawsOn ==
  ASSUME IInv, stack # <<>>, Displaying(Top), NEW c, c = Top.client,
         NEW pc \in {"OnMenuDrawItem", "OnMenuDisplay", "OnMenuCancel"}, stack' = At(stack, pc),
         player' \in [Clients -> CBaseMenuPlayer], \A d \in Clients : d # c => player'[d] = player[d],
         player'[c].menu = Top.menu, player'[c].mh = Top.mh,
         ~player'[c].bInMenu, player'[c].bAutoIgnore <=> pc # "OnMenuCancel",
         \/ m_ClientVotes' = m_ClientVotes
         \/ Top.mh = "vote" /\ m_ClientVotes' = [m_ClientVotes EXCEPT ![c] = VOTE_PENDING],
         UNCHANGED <<inGame, menu, m_pCurMenu, m_bStarted, m_bCancelled, m_Clients, m_NumVotes, m_Votes,
                     m_displayTimer, timers, calls>>
  PROVE  IInv'
<1> DEFINE t == [Top EXCEPT !.pc = pc]
<1>2. /\ Top \in Frame /\ Calls(stack) = Calls(Caller) \cup {Top} /\ Caller \in Seq(Frame) /\ Shape(Top)
      /\ InCalls(Caller) \in Nat
      /\ InCalls(stack) = IF ForVote(Top) THEN InCalls(Caller) + 1 ELSE InCalls(Caller)
  BY TopView
<1>3. /\ c \in Clients /\ Top.old = NULL /\ Top.proc = "DoClientMenu" /\ Top.menu \in Menus
      /\ Top.mh \in {"vote", "plugin"}
  BY TopClient DEF Displaying
<1>5. t.pc = pc /\ t = [Top EXCEPT !.pc = t.pc]
  BY <1>2 DEF Frame
<1> HIDE DEF t
<1>6. /\ t \in Frame /\ Same(t, Top) /\ t.todo = Top.todo
      /\ t.proc = Top.proc /\ t.client = Top.client /\ t.menu = Top.menu /\ t.mh = Top.mh /\ t.root = Top.root
      /\ t.old = Top.old
      /\ At(stack, t.pc) = Append(Caller, t)
  BY <1>5, AtPc
<1>7. /\ ~Early(t) /\ ~Starting(t) /\ ~Early(Top) /\ Rendering(Top) /\ ~Redrawing(Top) /\ ~Redrawing(t) /\ ~Starting(Top)
      /\ ForVote(t) <=> ForVote(Top)
      /\ Showing(t) => Showing(Top)
      /\ Rendering(t) <=> pc # "OnMenuCancel"
      /\ Rendering(t) => Ignoring(t)
      /\ Top.mh = "vote" => Showing(Top)
  BY <1>3, <1>5, <1>6 DEF Early, Displaying, Rendering, Redrawing, Ignoring, Starting, Showing, ForVote
<1>8. Shape(t)
  BY <1>2, <1>3, <1>5, <1>6 DEF Shape, Displaying
<1>9. stack' = Append(Caller, t)
  BY <1>5, <1>6
<1>10. /\ Base(stack') /\ Calls(stack') = Calls(Caller) \cup {t} /\ ShowsNone(stack', Voted) /\ TodoOK(stack', Clients)
       /\ InCalls(stack') = IF ForVote(t) THEN InCalls(Caller) + 1 ELSE InCalls(Caller)
  BY <1>6, <1>7, <1>8, <1>9, BaseGoesOn
<1>11. InCalls(stack') = InCalls(stack) /\ InCalls(stack) \in Nat
  BY <1>2, <1>7, <1>10
<1>12. /\ \A g \in Calls(Caller) : Rendering(g) => g.client # c
       /\ player[c].bAutoIgnore /\ ~player[c].bInMenu
  BY <1>7, DrawsAlone
<1>17. \A d \in Clients :
         /\ player'[d].bInMenu <=> player[d].bInMenu
         /\ player[d].bInMenu => player'[d].menu = player[d].menu /\ player'[d].mh = player[d].mh
  BY <1>12
<1>18. m_Clients' = m_Clients + InCalls(stack') - InCalls(stack) /\ InCalls(stack') \in Nat
  BY <1>11 DEF IInv, TypeOK
<1>19. /\ (m_Clients = Cardinality({d \in Clients : InVoteMenu(d)}) + InCalls(stack))'
       /\ SeesLess(Clients)
  BY <1>11, <1>17, <1>18, SameCount
<1>20. /\ MenusOK' /\ VoteOK' /\ FramesOK(stack') /\ stack' \in Seq(Frame)
       /\ \A d \in Clients : InVoteMenu(d)' => InVoteMenu(d)
       /\ \A f \in Calls(stack)' : Early(f) => \E g \in Calls(stack) : Early(g)
  BY <1>10, <1>19, StateKept
<1>21. PlayersOK'
  <2>1. CASE pc # "OnMenuCancel"
    <3>1. t.client = c /\ Ignoring(t) /\ player'[c].bAutoIgnore /\ player'[c].menu = t.menu /\ player'[c].mh = t.mh
      BY <1>6, <1>7, <2>1
    <3> QED BY <1>7, <1>10, <1>12, <3>1, PlayersDrawn
  <2>2. CASE pc = "OnMenuCancel"
    <3>1. ~Rendering(t) /\ ~player'[c].bAutoIgnore
      BY <1>7, <2>2
    <3> QED BY <1>10, <1>12, <3>1, PlayersRest
  <2> QED BY <2>1, <2>2
<1>22. m_ClientVotes' \in [Clients -> VOTE_NOT_VOTING..(NItems - 1)]
  <2>1. m_ClientVotes \in [Clients -> VOTE_NOT_VOTING..(NItems - 1)]
    BY DEF IInv, TypeOK
  <2>2. VOTE_PENDING \in VOTE_NOT_VOTING..(NItems - 1)
    BY VotingAssumption DEF VOTE_NOT_VOTING, VOTE_PENDING
  <2> QED BY <1>3, <2>1, <2>2
<1>23. TypeOK'
  BY <1>20, <1>22 DEF IInv, TypeOK
<1>24. CountedOK'
  <2>1. Top.mh = "vote" => c \notin Voted
    BY <1>2, <1>7 DEF IInv, CountedOK
  <2>2. \A d \in Clients : m_ClientVotes'[d] = m_ClientVotes[d] \/ (d \notin Voted /\ m_ClientVotes'[d] < 0)
    <3>1. m_ClientVotes \in [Clients -> VOTE_NOT_VOTING..(NItems - 1)]
      BY DEF IInv, TypeOK
    <3>2. \A d \in Clients : d # c => m_ClientVotes'[d] = m_ClientVotes[d]
      BY <3>1
    <3>3. m_ClientVotes'[c] = m_ClientVotes[c] \/ (c \notin Voted /\ m_ClientVotes'[c] < 0)
      BY <1>3, <2>1, <3>1 DEF VOTE_PENDING
    <3> QED BY <3>2, <3>3
  <2> QED BY <1>10, <1>20, <1>22, <2>2, NobodyVoted
<1> QED BY <1>20, <1>21, <1>23, <1>24 DEF IInv

LEMMA DrawItemsStep ==
  ASSUME IInv, DrawItems
  PROVE  IInv'
<1>0. PICK c : c = Top.client
  OBVIOUS
<1>1. /\ stack # <<>> /\ Top.pc = "render" /\ stack' = At(stack, "OnMenuDrawItem")
      /\ player' = [player EXCEPT ![c].menu = Top.menu, ![c].mh = Top.mh]
      /\ UNCHANGED <<inGame, menu, vote, calls>>
  BY <1>0 DEF DrawItems
<1>2. c \in Clients /\ Top.menu \in Menus /\ Top.mh \in {"vote", "plugin"}
  BY <1>0, <1>1, TopClient
<1>3. Displaying(Top) /\ Rendering(Top) /\ ~Redrawing(Top)
  BY <1>1 DEF Displaying, Rendering, Redrawing
<1>4. player[c].bAutoIgnore /\ ~player[c].bInMenu
  BY <1>0, <1>1, <1>3, DrawsAlone
<1>5. player \in [Clients -> CBaseMenuPlayer] /\ player[c] \in CBaseMenuPlayer
  BY <1>2 DEF IInv, TypeOK
<1>6. player'[c] = [player[c] EXCEPT !.menu = Top.menu, !.mh = Top.mh]
  BY <1>1, <1>2, <1>5
<1>7. /\ player'[c].bInMenu = player[c].bInMenu /\ player'[c].bAutoIgnore = player[c].bAutoIgnore
      /\ player'[c] \in CBaseMenuPlayer /\ player'[c].menu = Top.menu /\ player'[c].mh = Top.mh
  BY <1>2, <1>5, <1>6 DEF CBaseMenuPlayer
<1>8. \A d \in Clients : d # c => player'[d] = player[d]
  BY <1>1, <1>5
<1>9. player' \in [Clients -> CBaseMenuPlayer]
  BY <1>1, <1>5, <1>7, <1>8
<1>10. UNCHANGED <<m_pCurMenu, m_bStarted, m_bCancelled, m_Clients, m_NumVotes, m_Votes, m_ClientVotes, m_displayTimer, timers>>
  BY <1>1 DEF vote
<1> QED BY <1>0, <1>1, <1>3, <1>4, <1>7, <1>8, <1>9, <1>10, DrawsOn

LEMMA RenderMenuStep ==
  ASSUME IInv, NEW drawn \in BOOLEAN, RenderMenu(drawn)
  PROVE  IInv'
<1>0. PICK c : c = Top.client
  OBVIOUS
<1> DEFINE pc == IF drawn THEN "OnMenuDisplay" ELSE "OnMenuCancel"
<1>1. /\ stack # <<>> /\ Top.pc = "OnMenuDrawItem" /\ stack' = At(stack, pc)
      /\ player' = IF drawn THEN player ELSE [player EXCEPT ![c].bAutoIgnore = FALSE, ![c].bInMenu = FALSE]
      /\ m_ClientVotes' = IF drawn /\ Top.mh = "vote" THEN [m_ClientVotes EXCEPT ![c] = VOTE_PENDING]
                          ELSE m_ClientVotes
      /\ UNCHANGED <<inGame, menu, m_pCurMenu, m_bStarted, m_bCancelled, m_Clients, m_NumVotes, m_Votes,
                     m_displayTimer, timers, calls>>
  BY <1>0 DEF RenderMenu
<1>2. pc \in {"OnMenuDrawItem", "OnMenuDisplay", "OnMenuCancel"} /\ (pc # "OnMenuCancel" <=> drawn)
  OBVIOUS
<1> HIDE DEF pc
<1>3. Displaying(Top) /\ Rendering(Top) /\ ~Redrawing(Top) /\ c \in Clients
  BY <1>0, <1>1, TopClient DEF Displaying, Rendering, Redrawing
<1>4. player[c].bAutoIgnore /\ ~player[c].bInMenu /\ player[c].menu = Top.menu /\ player[c].mh = Top.mh
  BY <1>0, <1>1, <1>3, DrawsAlone
<1>5. player \in [Clients -> CBaseMenuPlayer] /\ player[c] \in CBaseMenuPlayer
  BY <1>3 DEF IInv, TypeOK
<1>6. /\ player' \in [Clients -> CBaseMenuPlayer] /\ \A d \in Clients : d # c => player'[d] = player[d]
      /\ player'[c].menu = Top.menu /\ player'[c].mh = Top.mh
      /\ ~player'[c].bInMenu /\ (player'[c].bAutoIgnore <=> pc # "OnMenuCancel")
  <2>1. CASE drawn
    BY <1>1, <1>2, <1>4, <1>5, <2>1
  <2>2. CASE ~drawn
    <3>1. player' = [player EXCEPT ![c].bAutoIgnore = FALSE, ![c].bInMenu = FALSE]
      BY <1>1, <2>2
    <3>2. player'[c] = [player[c] EXCEPT !.bAutoIgnore = FALSE, !.bInMenu = FALSE]
      BY <1>3, <1>5, <3>1
    <3>3. /\ player'[c].bInMenu = FALSE /\ player'[c].bAutoIgnore = FALSE
          /\ player'[c] \in CBaseMenuPlayer /\ player'[c].menu = player[c].menu /\ player'[c].mh = player[c].mh
      BY <1>5, <3>2 DEF CBaseMenuPlayer
    <3>4. \A d \in Clients : d # c => player'[d] = player[d]
      BY <1>5, <3>1
    <3>5. player' \in [Clients -> CBaseMenuPlayer]
      BY <1>5, <3>1, <3>3, <3>4
    <3> QED BY <1>2, <1>4, <2>2, <3>3, <3>4, <3>5
  <2> QED BY <2>1, <2>2
<1> QED BY <1>0, <1>1, <1>2, <1>3, <1>6, DrawsOn

\* Another page is drawn, or the menu ends.
LEMMA RedoClientMenuStep ==
  ASSUME IInv, "EndInRedraw" \notin Habits, NEW drawn \in BOOLEAN, RedoClientMenu(drawn)
  PROVE  IInv'
<1>0. PICK c : c = Top.client
  OBVIOUS
<1> DEFINE pc == IF drawn THEN "OnMenuRedraw" ELSE "OnMenuCancel"
           t == [Top EXCEPT !.pc = pc]
<1>1. /\ stack # <<>> /\ Top.pc = "OnMenuRedrawItem" /\ (~drawn => ~menu[Top.menu].closed)
      /\ player' = IF drawn THEN player ELSE [player EXCEPT ![c].bAutoIgnore = FALSE, ![c].bInMenu = FALSE]
      /\ m_ClientVotes' = IF drawn /\ Top.mh = "vote" THEN [m_ClientVotes EXCEPT ![c] = VOTE_PENDING]
                          ELSE m_ClientVotes
      /\ stack' = IF drawn THEN At(stack, "OnMenuRedraw")
                  ELSE Append(Caller, [Rooting(Top) EXCEPT !.pc = "OnMenuCancel"])
      /\ UNCHANGED <<inGame, menu, m_pCurMenu, m_bStarted, m_bCancelled, m_Clients, m_NumVotes, m_Votes,
                     m_displayTimer, timers, calls>>
  BY <1>0 DEF RedoClientMenu
<1>2. /\ Top \in Frame /\ Calls(stack) = Calls(Caller) \cup {Top} /\ Caller \in Seq(Frame) /\ Shape(Top)
      /\ Fits(Calls(Caller), Top)
      /\ InCalls(Caller) \in Nat
      /\ InCalls(stack) = IF ForVote(Top) THEN InCalls(Caller) + 1 ELSE InCalls(Caller)
  BY <1>1, TopView
<1>3. /\ c \in Clients /\ Top.old = NULL /\ Top.proc = "ClientPressedKey" /\ Top.menu \in Menus
      /\ Top.mh \in {"vote", "plugin"} /\ HandledBy(Top.menu, Top.mh) /\ Top.root
  BY <1>0, <1>1, <1>2, TopClient DEF Shape, Redrawing
<1>4. pc \in {"OnMenuRedraw", "OnMenuCancel"} /\ (pc = "OnMenuRedraw" <=> drawn)
  OBVIOUS
<1> HIDE DEF pc
<1>5. t.pc = pc /\ t = [Top EXCEPT !.pc = t.pc]
  BY <1>2 DEF Frame
<1>6. /\ t \in Frame /\ Same(t, Top) /\ t.todo = Top.todo
      /\ t.proc = Top.proc /\ t.client = Top.client /\ t.menu = Top.menu /\ t.mh = Top.mh /\ t.root = Top.root
      /\ t.old = Top.old
      /\ At(stack, t.pc) = Append(Caller, t)
  <2> HIDE DEF t
  <2> QED BY <1>1, <1>4, <1>5, AtPc
<1>7. stack' = Append(Caller, t)
  <2>1. CASE drawn
    BY <1>1, <1>4, <1>5, <1>6, <2>1
  <2>2. CASE ~drawn
    <3>1. Top.root = TRUE
      BY <1>2, <1>3 DEF Frame
    <3>2. [Top EXCEPT !.root = ~menu[Top.menu].closed] = Top
      <4>1. ~menu[Top.menu].closed
        BY <1>1, <2>2
      <4>2. (~menu[Top.menu].closed) = TRUE
        BY <4>1
      <4> QED BY <1>2, <3>1, <4>2 DEF Frame
    <3> QED BY <1>1, <1>4, <2>2, <3>2 DEF Rooting
  <2> QED BY <2>1, <2>2
<1> HIDE DEF t
<1>8. /\ ~Early(t) /\ ~Starting(t) /\ ~Early(Top) /\ Rendering(Top) /\ Redrawing(Top) /\ ~Starting(Top)
      /\ ~ForVote(Top) /\ (ForVote(t) <=> ~drawn /\ Top.mh = "vote")
      /\ ~Showing(t) /\ ~Rendering(t) /\ (drawn => Ignoring(t))
  BY <1>1, <1>3, <1>4, <1>5, <1>6 DEF Early, Rendering, Redrawing, Ignoring, Starting, Showing, ForVote
<1>9. Shape(t)
  BY <1>1, <1>2, <1>3, <1>4, <1>5, <1>6 DEF Shape, Redrawing
<1>10. /\ \A g \in Calls(Caller) : Rendering(g) => g.client # c
       /\ player[c].bInMenu /\ player[c].menu = Top.menu /\ player[c].mh = Top.mh
  BY <1>0, <1>1, <1>8, DrawsAlone
<1>11. /\ player \in [Clients -> CBaseMenuPlayer] /\ player[c] \in CBaseMenuPlayer
       /\ m_ClientVotes \in [Clients -> VOTE_NOT_VOTING..(NItems - 1)] /\ m_Clients \in Nat
  BY <1>3 DEF IInv, TypeOK
<1>12. /\ m_ClientVotes' \in [Clients -> VOTE_NOT_VOTING..(NItems - 1)]
       /\ \A d \in Clients : m_ClientVotes'[d] = m_ClientVotes[d] \/ (d \notin Voted /\ m_ClientVotes'[d] < 0)
  <2>1. VOTE_PENDING \in VOTE_NOT_VOTING..(NItems - 1)
    BY VotingAssumption DEF VOTE_NOT_VOTING, VOTE_PENDING
  <2>2. Top.mh = "vote" => c \notin Voted
    BY <1>3, <1>10 DEF IInv, CountedOK, InVoteMenu
  <2>3. \A d \in Clients : d # c => m_ClientVotes'[d] = m_ClientVotes[d]
    BY <1>1, <1>11
  <2>4. m_ClientVotes'[c] = m_ClientVotes[c] \/ (c \notin Voted /\ m_ClientVotes'[c] < 0)
    BY <1>1, <1>3, <1>11, <2>2 DEF VOTE_PENDING
  <2> QED BY <1>1, <1>3, <1>11, <2>1, <2>3, <2>4
<1>13. CASE drawn
  <2>1. player' = player
    BY <1>1, <1>13
  <2>2. /\ Base(stack') /\ Calls(stack') = Calls(Caller) \cup {t} /\ ShowsNone(stack', Voted) /\ TodoOK(stack', Clients)
        /\ Quiet(stack')
        /\ InCalls(stack') = IF ForVote(t) THEN InCalls(Caller) + 1 ELSE InCalls(Caller)
    BY <1>1, <1>6, <1>7, <1>8, <1>9, <1>13, BaseGoesOn
  <2>3. InCalls(stack') = InCalls(stack) /\ InCalls(stack) \in Nat
    BY <1>2, <1>8, <1>13, <2>2
  <2>4. m_Clients' = m_Clients + InCalls(stack') - InCalls(stack) /\ InCalls(stack') \in Nat
    BY <1>1, <1>11, <2>3
  <2>5. /\ (m_Clients = Cardinality({d \in Clients : InVoteMenu(d)}) + InCalls(stack))'
        /\ SeesLess(Clients)
    BY <2>1, <2>3, <2>4, SameCount
  <2>6. /\ MenusOK' /\ VoteOK' /\ FramesOK(stack') /\ stack' \in Seq(Frame)
        /\ \A d \in Clients : InVoteMenu(d)' => InVoteMenu(d)
        /\ \A f \in Calls(stack)' : Early(f) => \E g \in Calls(stack) : Early(g)
    BY <1>1, <2>2, <2>5, StateKept
  <2>7. PlayersOK'
    BY <2>1, <2>2, PlayersSame DEF IInv, Quiet
  <2>8. TypeOK'
    BY <1>1, <1>12, <2>1, <2>6 DEF IInv, TypeOK
  <2>9. CountedOK'
    BY <1>1, <1>12, <2>2, <2>6, NobodyVoted
  <2> QED BY <2>6, <2>7, <2>8, <2>9 DEF IInv
<1>14. CASE ~drawn
  <2>1. player' = [player EXCEPT ![c].bAutoIgnore = FALSE, ![c].bInMenu = FALSE]
    BY <1>1, <1>14
  <2>2. player'[c] = [player[c] EXCEPT !.bAutoIgnore = FALSE, !.bInMenu = FALSE]
    BY <1>3, <1>11, <2>1
  <2>3. player'[c].bInMenu = FALSE /\ player'[c].bAutoIgnore = FALSE /\ player'[c] \in CBaseMenuPlayer
    BY <1>11, <2>2 DEF CBaseMenuPlayer
  <2>4. \A d \in Clients : d # c => player'[d] = player[d]
    BY <1>11, <2>1
  <2>5. player' \in [Clients -> CBaseMenuPlayer]
    BY <1>11, <2>1, <2>3, <2>4
  <2>6. SeesLess(Clients \ {c})
    BY <2>3, <2>4 DEF SeesLess
  <2>7. Base(Caller) /\ TodoOK(Caller, Clients) /\ ShowsNone(Caller, Voted)
    BY <1>1, <1>3, <1>8, BaseReturns
  <2>8. Harmless(t) /\ (ForVote(t) => m_pCurMenu = t.menu)
    <3>1. ~Gone(Top.menu) /\ ~menu[Top.menu].closed
      BY <1>1, <1>2, <1>3, <1>14 DEF IInv, MenusOK
    <3>2. ForVote(t) => m_pCurMenu = t.menu
      BY <1>3, <1>6, <1>8, <1>10 DEF IInv, VoteOK, InVoteMenu
    <3> QED BY <1>3, <1>6, <1>8, <3>1, <3>2 DEF Harmless
  <2>9. Fits(Calls(Caller), t)
    BY <1>2, <1>6, <1>8, <1>9, Refit
  <2>10. /\ Base(stack') /\ Calls(stack') = Calls(Caller) \cup {t}
         /\ InCalls(stack') = (IF ForVote(t) THEN InCalls(Caller) + 1 ELSE InCalls(Caller))
         /\ TodoOK(stack', Clients) /\ ShowsNone(stack', Voted)
    BY <1>6, <1>7, <1>8, <2>7, <2>8, <2>9, BaseCalls
  <2>11. TodoOK(stack', Clients \ {c})
    BY <2>10 DEF TodoOK
  <2>12. (m_Clients = Cardinality({d \in Clients : InVoteMenu(d)}) + InCalls(stack))'
    <3> DEFINE V == {d \in Clients : InVoteMenu(d)}
    <3>1. {d \in Clients : InVoteMenu(d)}' = V \ {c}
      <4>1. \A d \in Clients : d # c => (InVoteMenu(d)' <=> InVoteMenu(d))
        BY <2>4 DEF InVoteMenu
      <4>2. ~InVoteMenu(c)'
        BY <2>3 DEF InVoteMenu
      <4> QED BY <4>1, <4>2
    <3>2. c \in V <=> Top.mh = "vote"
      BY <1>3, <1>10 DEF InVoteMenu
    <3>3. Cardinality(V \ {c}) = (IF c \in V THEN Cardinality(V) - 1 ELSE Cardinality(V)) /\ Cardinality(V) \in Nat
      BY <1>3, CountClients
    <3>4. m_Clients = Cardinality(V) + InCalls(stack)
      BY DEF IInv, VoteOK
    <3> HIDE DEF V
    <3>5. Cardinality({d \in Clients : InVoteMenu(d)})' = Cardinality(V \ {c})
      BY <3>1
    <3>6. CASE Top.mh = "vote"
      <4>1. /\ InCalls(stack') = InCalls(Caller) + 1 /\ InCalls(stack) = InCalls(Caller) /\ m_Clients' = m_Clients
            /\ Cardinality(V \ {c}) = Cardinality(V) - 1
        BY <1>1, <1>2, <1>8, <1>14, <2>10, <3>2, <3>3, <3>6
      <4> QED BY <1>2, <3>3, <3>4, <3>5, <4>1
    <3>7. CASE Top.mh # "vote"
      BY <1>1, <1>2, <1>8, <1>14, <2>10, <3>2, <3>3, <3>4, <3>5, <3>7
    <3> QED BY <3>6, <3>7
  <2>13. /\ MenusOK' /\ VoteOK' /\ FramesOK(stack') /\ stack' \in Seq(Frame)
         /\ \A d \in Clients : InVoteMenu(d)' => InVoteMenu(d)
         /\ \A f \in Calls(stack)' : Early(f) => \E g \in Calls(stack) : Early(g)
    BY <1>1, <2>6, <2>10, <2>11, <2>12, StateKept
  <2>14. PlayersOK'
    BY <1>0, <1>1, <1>8, <1>10, <2>3, <2>4, <2>10, PlayersRest
  <2>15. TypeOK'
    BY <1>1, <1>12, <2>5, <2>13 DEF IInv, TypeOK
  <2>16. CountedOK'
    BY <1>1, <1>12, <2>10, <2>13, NobodyVoted
  <2> QED BY <2>13, <2>14, <2>15, <2>16 DEF IInv
<1> QED BY <1>13, <1>14

\* The client is in the menu.
LEMMA ReturnShownStep ==
  ASSUME IInv, ReturnShown
  PROVE  IInv'
<1>0. PICK c : c = Top.client
  OBVIOUS
<1>1. /\ stack # <<>> /\ Top.pc = "OnMenuDisplay" /\ stack' = Caller /\ player' = Shown(c)
      /\ UNCHANGED <<inGame, menu, vote, calls>>
  BY <1>0 DEF ReturnShown
<1>2. /\ Top \in Frame /\ Calls(stack) = Calls(Caller) \cup {Top} /\ Caller \in Seq(Frame)
      /\ Fits(Calls(Caller), Top) /\ FramesOK(Caller)
      /\ InCalls(Caller) \in Nat
      /\ InCalls(stack) = IF ForVote(Top) THEN InCalls(Caller) + 1 ELSE InCalls(Caller)
  BY <1>1, TopView
<1>3. /\ c \in Clients /\ Top.old = NULL /\ Top.proc = "DoClientMenu" /\ Top.menu \in Menus
      /\ Top.mh \in {"vote", "plugin"} /\ HandledBy(Top.menu, Top.mh)
  BY <1>0, <1>1, TopClient
<1>4. /\ ~Early(Top) /\ ~Starting(Top) /\ Rendering(Top) /\ ~Redrawing(Top) /\ (ForVote(Top) <=> Top.mh = "vote")
      /\ Top.mh = "vote" => Showing(Top)
  BY <1>1, <1>3 DEF Early, Starting, Rendering, Redrawing, ForVote, Showing
<1>5. /\ \A g \in Calls(Caller) : Rendering(g) => g.client # c
      /\ player[c].bAutoIgnore /\ ~player[c].bInMenu /\ player[c].menu = Top.menu /\ player[c].mh = Top.mh
  BY <1>0, <1>1, <1>4, DrawsAlone
<1>6. player \in [Clients -> CBaseMenuPlayer] /\ player[c] \in CBaseMenuPlayer
  BY <1>3 DEF IInv, TypeOK
<1>7. /\ player'[c] \in CBaseMenuPlayer /\ player'[c].menu = Top.menu /\ player'[c].mh = Top.mh
      /\ player'[c].bInMenu /\ ~player'[c].bAutoIgnore
  <2>1. player'[c] = [player[c] EXCEPT !.bInMenu = TRUE, !.bAutoIgnore = FALSE]
    BY <1>1, <1>3, <1>6 DEF Shown
  <2>2. /\ player'[c] \in CBaseMenuPlayer /\ player'[c].menu = player[c].menu /\ player'[c].mh = player[c].mh
        /\ player'[c].bInMenu = TRUE /\ player'[c].bAutoIgnore = FALSE
    BY <1>6, <2>1 DEF CBaseMenuPlayer
  <2> QED BY <1>5, <2>2
<1>8. \A d \in Clients : d # c => player'[d] = player[d]
  BY <1>1, <1>6 DEF Shown
<1>9. player' \in [Clients -> CBaseMenuPlayer]
  <2>1. DOMAIN player' = Clients /\ player' = [d \in Clients |-> player'[d]]
    BY <1>1, <1>6 DEF Shown
  <2>2. \A d \in Clients : player'[d] \in CBaseMenuPlayer
    BY <1>6, <1>7, <1>8
  <2> QED BY <2>1, <2>2
<1>10. /\ UNCHANGED <<inGame, menu, m_pCurMenu, m_bStarted, m_bCancelled, m_Clients, m_NumVotes, m_Votes, m_ClientVotes,
                      m_displayTimer, timers, calls>>
       /\ m_ClientVotes' \in [Clients -> VOTE_NOT_VOTING..(NItems - 1)]
  BY <1>1 DEF vote, IInv, TypeOK
<1>11. TypeOK'
  BY <1>1, <1>2, <1>9, <1>10 DEF IInv, TypeOK
<1>12. PlayersOK'
  BY <1>0, <1>1, <1>3, <1>5, <1>7, <1>8, PlayersRest
<1>13. MenusOK'
  <2>1. ~Gone(Top.menu)
    BY <1>2, <1>3 DEF IInv, MenusOK
  <2>2. \A d \in Clients, m \in Menus : InMenu(d, m)' => InMenu(d, m) \/ (d = c /\ m = Top.menu)
    BY <1>7, <1>8 DEF InMenu
  <2>3. \A f \in Calls(Caller) : Like(f, f)
    BY DEF Like
  <2>4. \A g \in Calls(Caller) : g.proc = "Cancel" => g.menu # Top.menu /\ g.menu \in Menus
    <3>1. \A g \in Calls(stack) : Shape(g)
      BY <1>1, TopView
    <3> QED BY <1>2, <1>3, <3>1 DEF Fits, Pair, Shape
  <2>5. \A f \in Calls(stack)' : f.proc = "Cancel" => \A d \in Clients : InMenu(d, f.menu)' => Has(f.todo, d)
    <3>1. \A g \in Calls(stack) : g.proc = "Cancel" => \A d \in Clients : InMenu(d, g.menu) => Has(g.todo, d)
      BY DEF IInv, MenusOK
    <3> QED BY <1>1, <1>2, <2>2, <2>4, <3>1
  <2>6. \A f \in Calls(stack)' : \E g \in Calls(stack) : Like(f, g)
    BY <1>1, <1>2, <2>3
  <2>7. \A g \in Calls(stack) : g.proc \in {"Cancel", "Destroy"} =>
          \E f \in Calls(stack)' : f.proc = g.proc /\ f.menu = g.menu
    BY <1>1, <1>2, <1>3
  <2> QED BY <1>10, <2>1, <2>2, <2>5, <2>6, <2>7, MenusKept DEF IInv
<1>14. VoteOK'
  <2> DEFINE V == {d \in Clients : InVoteMenu(d)}
  <2>1. {d \in Clients : InVoteMenu(d)}' = IF Top.mh = "vote" THEN V \cup {c} ELSE V
    <3>1. \A d \in Clients : d # c => (InVoteMenu(d)' <=> InVoteMenu(d))
      BY <1>8 DEF InVoteMenu
    <3>2. (InVoteMenu(c)' <=> Top.mh = "vote") /\ ~InVoteMenu(c)
      BY <1>5, <1>7 DEF InVoteMenu
    <3> QED BY <1>3, <3>1, <3>2
  <2>2. c \notin V
    BY <1>5 DEF InVoteMenu
  <2>3. Cardinality(V \cup {c}) = Cardinality(V) + 1 /\ Cardinality(V) \in Nat
    BY <1>3, <2>2, CountClients
  <2>4. m_Clients = Cardinality(V) + InCalls(stack)
    BY DEF IInv, VoteOK
  <2> HIDE DEF V
  <2>5. (m_Clients = Cardinality({d \in Clients : InVoteMenu(d)}) + InCalls(stack))'
    <3>1. CASE Top.mh = "vote"
      <4>1. Cardinality({d \in Clients : InVoteMenu(d)})' = Cardinality(V) + 1
        BY <2>1, <2>3, <3>1
      <4> QED BY <1>1, <1>2, <1>4, <1>10, <2>3, <2>4, <3>1, <4>1
    <3>2. CASE Top.mh # "vote"
      <4>1. Cardinality({d \in Clients : InVoteMenu(d)})' = Cardinality(V)
        BY <2>1, <3>2
      <4> QED BY <1>1, <1>2, <1>4, <1>10, <2>3, <2>4, <3>2, <4>1
    <3> QED BY <3>1, <3>2
  <2>6. \A d \in Clients : InVoteMenu(d)' => m_pCurMenu = player'[d].menu
    <3>1. Top.mh = "vote" => m_pCurMenu = Top.menu
      BY <1>2, <1>4 DEF IInv, VoteOK
    <3>2. \A d \in Clients : d # c => (InVoteMenu(d)' => m_pCurMenu = player'[d].menu)
      BY <1>8 DEF InVoteMenu, IInv, VoteOK
    <3>3. InVoteMenu(c)' => m_pCurMenu = player'[c].menu
      BY <1>7, <3>1 DEF InVoteMenu
    <3> QED BY <3>2, <3>3
  <2> QED BY <1>1, <1>2, <1>4, <1>10, <2>5, <2>6, VoteKept DEF IInv, VoteOK
<1>15. CountedOK'
  <2>1. Top.mh = "vote" => c \notin Voted
    BY <1>0, <1>2, <1>4 DEF IInv, CountedOK
  <2>2. \A d \in Clients : InVoteMenu(d)' => InVoteMenu(d) \/ d \notin Voted
    BY <1>7, <1>8, <2>1 DEF InVoteMenu
  <2>3. ShowsNone(stack', Voted) /\ \A f \in Calls(stack)' : Early(f) => \E g \in Calls(stack) : Early(g)
    BY <1>1, <1>2 DEF ShowsNone, IInv, CountedOK
  <2> QED BY <1>10, <2>2, <2>3, NobodyVoted
<1> QED BY <1>1, <1>2, <1>11, <1>12, <1>13, <1>14, <1>15 DEF IInv

\* A call ends that leaves the menus of the clients alone.
LEMMA CallEnds ==
  ASSUME IInv, stack # <<>>, stack' = Caller, ~ForVote(Top), ~Early(Top), ~Starting(Top), Top.proc \notin {"Cancel", "Destroy"},
         UNCHANGED <<inGame, menu, vote, calls>>, player' \in [Clients -> CBaseMenuPlayer], PlayersOK',
         \A d \in Clients :
           /\ player'[d].bInMenu <=> player[d].bInMenu
           /\ player[d].bInMenu => player'[d].menu = player[d].menu /\ player'[d].mh = player[d].mh
  PROVE  IInv'
<1>1. Base(stack') /\ TodoOK(stack', Clients) /\ ShowsNone(stack', Voted)
  BY BaseReturns
<1>2. /\ UNCHANGED <<inGame, menu, m_pCurMenu, m_bStarted, m_bCancelled, m_Clients, m_NumVotes, m_Votes, m_ClientVotes,
                     m_displayTimer, timers, calls>>
      /\ m_ClientVotes' \in [Clients -> VOTE_NOT_VOTING..(NItems - 1)] /\ m_Clients \in Nat
  BY DEF vote, IInv, TypeOK
<1>3. InCalls(stack') = InCalls(stack) /\ InCalls(stack) \in Nat
  BY TopView
<1>4. m_Clients' = m_Clients + InCalls(stack') - InCalls(stack) /\ InCalls(stack') \in Nat
  BY <1>2, <1>3
<1>5. /\ (m_Clients = Cardinality({d \in Clients : InVoteMenu(d)}) + InCalls(stack))'
      /\ SeesLess(Clients)
  BY <1>3, <1>4, SameCount
<1>6. /\ MenusOK' /\ VoteOK' /\ FramesOK(stack') /\ stack' \in Seq(Frame)
      /\ \A d \in Clients : InVoteMenu(d)' => InVoteMenu(d)
      /\ \A f \in Calls(stack)' : Early(f) => \E g \in Calls(stack) : Early(g)
  BY <1>1, <1>2, <1>5, StateKept
<1>7. TypeOK'
  BY <1>2, <1>6 DEF IInv, TypeOK
<1>8. CountedOK'
  BY <1>1, <1>2, <1>6, NobodyVoted
<1> QED BY <1>6, <1>7, <1>8 DEF IInv

LEMMA ReturnRedrawnStep ==
  ASSUME IInv, ReturnRedrawn
  PROVE  IInv'
<1>0. PICK c : c = Top.client
  OBVIOUS
<1>1. /\ stack # <<>> /\ Top.pc = "OnMenuRedraw" /\ stack' = Caller /\ player' = [player EXCEPT ![c].bAutoIgnore = FALSE]
      /\ UNCHANGED <<inGame, menu, vote, calls>>
  BY <1>0 DEF ReturnRedrawn
<1>2. c \in Clients /\ Top.proc = "ClientPressedKey"
  BY <1>0, <1>1, TopClient
<1>3. Calls(Caller) = {} /\ PlayersOK
  BY <1>1, <1>2, TopView DEF Fits, IInv
<1>4. ~ForVote(Top) /\ ~Early(Top) /\ ~Starting(Top)
  BY <1>1, <1>2 DEF ForVote, Early, Starting
<1>5. player \in [Clients -> CBaseMenuPlayer] /\ player[c] \in CBaseMenuPlayer
  BY <1>2 DEF IInv, TypeOK
<1>6. player'[c] = [player[c] EXCEPT !.bAutoIgnore = FALSE]
  BY <1>1, <1>2, <1>5
<1>7. /\ player'[c] \in CBaseMenuPlayer /\ player'[c].menu = player[c].menu /\ player'[c].mh = player[c].mh
      /\ player'[c].bInMenu = player[c].bInMenu /\ player'[c].bAutoIgnore = FALSE
  BY <1>5, <1>6 DEF CBaseMenuPlayer
<1>8. \A d \in Clients : d # c => player'[d] = player[d]
  BY <1>1, <1>5
<1>9. player' \in [Clients -> CBaseMenuPlayer]
  <2>1. player' = [d \in Clients |-> player'[d]]
    BY <1>1, <1>5
  <2>2. \A d \in Clients : player'[d] \in CBaseMenuPlayer
    BY <1>5, <1>7, <1>8
  <2> QED BY <2>1, <2>2
<1>10. PlayersOK'
  <2>1. player'[c].bInMenu => HandledBy(player'[c].menu, player'[c].mh)
    BY <1>2, <1>3, <1>7 DEF PlayersOK
  <2> QED BY <1>0, <1>1, <1>3, <1>7, <1>8, <2>1, PlayersRest
<1> QED BY <1>1, <1>2, <1>4, <1>7, <1>8, <1>9, <1>10, CallEnds

LEMMA DoneStep ==
  ASSUME IInv, Done
  PROVE  IInv'
<1>0. PICK c : c = Top.client
  OBVIOUS
<1>1. /\ stack # <<>> /\ Top.pc = "done" /\ stack' = Caller
      /\ player' = IF Top.old # NULL THEN [player EXCEPT ![c].bAutoIgnore = Top.old] ELSE player
      /\ UNCHANGED <<inGame, menu, vote, calls>>
  BY <1>0 DEF Done
<1>2. /\ Top \in Frame /\ Calls(stack) = Calls(Caller) \cup {Top} /\ Fits(Calls(Caller), Top) /\ Shape(Top)
      /\ \A g \in Calls(stack) : Shape(g) /\ g \in Frame
  BY <1>1, TopView
<1>3. /\ Top.proc \in {"StartVote", "DoClientMenu", "_CancelClientMenu", "ClientPressedKey", "EndVoting"}
      /\ Top.old \in BOOLEAN \cup {NULL}
      /\ Top.old # NULL => Top.proc = "_CancelClientMenu"
  <2>1. /\ Top.proc \in {"StartVote", "DoClientMenu", "_CancelClientMenu", "ClientPressedKey", "EndVoting",
                      "Cancel", "Destroy", "Disconnect"}
        /\ Top.old \in BOOLEAN \cup {NULL}
    BY <1>2 DEF Frame
  <2> QED BY <1>1, <1>2, <2>1 DEF Shape
<1>4. ~ForVote(Top) /\ ~Early(Top) /\ ~Starting(Top) /\ ~Rendering(Top) /\ (Top.old = NULL => ~Ignoring(Top))
  BY <1>1 DEF ForVote, Early, Starting, Rendering, Ignoring
<1>5. player \in [Clients -> CBaseMenuPlayer] /\ PlayersOK
  BY DEF IInv, TypeOK
<1>6. CASE Top.old = NULL
  <2>1. player' = player
    BY <1>1, <1>6
  <2>2. PlayersOK'
    BY <1>1, <1>2, <1>4, <1>5, <1>6, <2>1, PlayersSame
  <2> QED BY <1>1, <1>3, <1>4, <1>5, <2>1, <2>2, CallEnds
<1>7. CASE Top.old # NULL
  <2>1. Top.proc = "_CancelClientMenu" /\ c \in Clients /\ Top.old \in BOOLEAN
    BY <1>0, <1>2, <1>3, <1>7 DEF Shape
  <2>2. PICK b \in BOOLEAN : b = Top.old
    BY <2>1
  <2>3. player' = [player EXCEPT ![c].bAutoIgnore = b] /\ player[c] \in CBaseMenuPlayer
    BY <1>1, <1>5, <1>7, <2>1, <2>2
  <2>4. player'[c] = [player[c] EXCEPT !.bAutoIgnore = b]
    BY <1>5, <2>1, <2>3
  <2>5. /\ player'[c] \in CBaseMenuPlayer /\ player'[c].menu = player[c].menu /\ player'[c].mh = player[c].mh
        /\ player'[c].bInMenu = player[c].bInMenu /\ player'[c].bAutoIgnore = b
    BY <2>2, <2>3, <2>4 DEF CBaseMenuPlayer
  <2>6. \A d \in Clients : d # c => player'[d] = player[d]
    BY <1>5, <2>3
  <2>7. player' \in [Clients -> CBaseMenuPlayer]
    <3>1. player' = [d \in Clients |-> player'[d]]
      BY <1>5, <2>3
    <3>2. \A d \in Clients : player'[d] \in CBaseMenuPlayer
      BY <1>5, <2>5, <2>6
    <3> QED BY <3>1, <3>2
  <2>8. b => \E g \in Calls(Caller) : g.client = c /\ Ignoring(g)
    <3>1. b => Top.old = TRUE
      BY <2>2
    <3> QED BY <1>0, <1>2, <3>1 DEF Fits
  <2>9. \A g \in Calls(Caller) : Rendering(g) /\ g.client = c => b
    <3>1. \A g \in Calls(Caller) : Rendering(g) /\ g.client = c => Top.old # FALSE
      BY <1>0, <1>2 DEF Fits, Pair
    <3> QED BY <2>2, <3>1
  <2>10. PlayersOK'
    <3>1. ASSUME NEW d \in Clients, player'[d].bInMenu PROVE HandledBy(player'[d].menu, player'[d].mh)
      <4>1. player[d].bInMenu /\ player'[d].menu = player[d].menu /\ player'[d].mh = player[d].mh
        BY <2>5, <2>6, <3>1
      <4> QED BY <1>5, <4>1 DEF PlayersOK
    <3>2. ASSUME NEW d \in Clients, player'[d].bAutoIgnore
          PROVE  \E f \in Calls(stack)' : f.client = d /\ Ignoring(f)
      <4>1. CASE d = c
        BY <1>1, <2>5, <2>8, <3>2, <4>1
      <4>2. CASE d # c
        <5>1. PICK f \in Calls(stack) : f.client = d /\ Ignoring(f)
          BY <1>5, <2>6, <3>2, <4>2 DEF PlayersOK
        <5> QED BY <1>0, <1>1, <1>2, <4>2, <5>1
      <4> QED BY <4>1, <4>2
    <3>3. ASSUME NEW f \in Calls(stack)', Rendering(f)
          PROVE  /\ player'[f.client].bAutoIgnore /\ (player'[f.client].bInMenu <=> Redrawing(f))
                 /\ f.pc # "render" => player'[f.client].menu = f.menu /\ player'[f.client].mh = f.mh
      <4>1. f \in Calls(Caller) /\ f \in Calls(stack) /\ Shape(f) /\ f \in Frame
        BY <1>1, <1>2
      <4>2. f.client \in Clients
        <5>1. f.proc \in {"StartVote", "DoClientMenu", "_CancelClientMenu", "ClientPressedKey", "EndVoting",
                      "Cancel", "Destroy", "Disconnect"}
          BY <4>1 DEF Frame
        <5> QED BY <3>3, <4>1, <5>1 DEF Shape, Rendering
      <4>3. /\ player[f.client].bAutoIgnore /\ (player[f.client].bInMenu <=> Redrawing(f))
            /\ f.pc # "render" => player[f.client].menu = f.menu /\ player[f.client].mh = f.mh
        BY <1>5, <3>3, <4>1 DEF PlayersOK
      <4>4. CASE f.client = c
        BY <2>5, <2>9, <3>3, <4>1, <4>3, <4>4
      <4>5. CASE f.client # c
        BY <2>6, <4>2, <4>3, <4>5
      <4> QED BY <4>4, <4>5
    <3> QED BY <3>1, <3>2, <3>3 DEF PlayersOK
  <2>11. \A d \in Clients :
           /\ player'[d].bInMenu <=> player[d].bInMenu
           /\ player[d].bInMenu => player'[d].menu = player[d].menu /\ player'[d].mh = player[d].mh
    BY <2>5, <2>6
  <2> QED BY <1>1, <1>3, <1>4, <2>7, <2>10, <2>11, CallEnds
<1> QED BY <1>6, <1>7

-----------------------------------------------------------------------------
(* Clients come and go.                                                    *)

LEMMA ConnectStep ==
  ASSUME IInv, NEW c \in Clients, Connect(c)
  PROVE  IInv'
<1>1. /\ stack' = stack /\ inGame' = inGame \cup {c} /\ calls < MaxCalls /\ calls' = calls + 1
      /\ UNCHANGED <<player, menu, m_pCurMenu, m_bStarted, m_bCancelled, m_Clients, m_NumVotes, m_Votes, m_ClientVotes,
                     m_displayTimer, timers>>
  BY DEF Connect, vote
<1>2. Base(stack) /\ Quiet(stack) /\ TodoOK(stack, Clients) /\ ShowsNone(stack, Voted)
  BY SameGood
<1>3. InCalls(stack) \in Nat
  BY CountType DEF IInv, TypeOK
<1>4. /\ inGame' \subseteq Clients /\ m_bCancelled' \in BOOLEAN /\ m_displayTimer' \in BOOLEAN /\ timers' \in Nat
      /\ calls' \in 0..MaxCalls /\ m_Clients' \in Nat
  BY <1>1, VotingAssumption DEF IInv, TypeOK
<1>5. m_Clients' = m_Clients + InCalls(stack') - InCalls(stack)
  BY <1>1, <1>3, <1>4
<1> QED BY <1>1, <1>2, <1>3, <1>4, <1>5, CallsChange

LEMMA DisconnectStep ==
  ASSUME IInv, "EndInRedraw" \notin Habits, NEW c \in Clients, Disconnect(c)
  PROVE  IInv'
<1> DEFINE f == Call("Disconnect", "OnClientDisconnect_Post", c, NULL, "plugin")
<1>1. /\ stack' = stack \o <<f>> /\ inGame' = inGame \ {c} /\ calls < MaxCalls /\ calls' = calls + 1
      /\ UNCHANGED <<player, menu, m_pCurMenu, m_bStarted, m_bCancelled, m_Clients, m_NumVotes, m_Votes, m_ClientVotes,
                     m_displayTimer, timers>>
  BY DEF Disconnect, Native, vote
<1>2. Base(stack) /\ Quiet(stack) /\ TodoOK(stack, Clients) /\ ShowsNone(stack, Voted)
  BY SameGood
<1>3. stack \in Seq(Frame) /\ InCalls(stack) \in Nat
  BY CountType DEF IInv, TypeOK
<1>4. /\ inGame' \subseteq Clients /\ m_bCancelled' \in BOOLEAN /\ m_displayTimer' \in BOOLEAN /\ timers' \in Nat
      /\ calls' \in 0..MaxCalls /\ m_Clients' \in Nat
  BY <1>1, VotingAssumption DEF IInv, TypeOK
<1>5. Parts(f, "Disconnect", "OnClientDisconnect_Post", c, NULL)
  <2>1. "OnClientDisconnect_Post" \in Callbacks \cup {"loop", "start", "render", "end", "done", "delete", "listeners", "votes"}
    BY DEF Callbacks
  <2> QED BY <2>1, PlainCall
<1> HIDE DEF f
<1>6. /\ f \in Frame /\ f.proc = "Disconnect" /\ f.pc = "OnClientDisconnect_Post" /\ f.client = c /\ f.menu = NULL
      /\ f.mh = "plugin" /\ f.old = NULL /\ ~f.root
  BY <1>5 DEF Parts
<1>7. ~Early(f) /\ ~Rendering(f) /\ ~ForVote(f) /\ ~Showing(f) /\ Harmless(f) /\ Shape(f)
  BY <1>6 DEF Early, Rendering, ForVote, Showing, Harmless, Shape
<1>8. Fits(Calls(stack), f)
  <2>1. \A g \in Calls(stack) : Redrawing(g) => g.client # c
    BY RedrawnCalls DEF Disconnect
  <2> QED BY <1>6, <1>7, <2>1, VotingAssumption DEF Fits, Pair
<1>9. stack' = Append(stack, f)
  BY <1>1, <1>3, <1>6
<1>10. /\ Base(stack') /\ InCalls(stack') = InCalls(stack)
       /\ Quiet(stack') /\ TodoOK(stack', Clients) /\ ShowsNone(stack', Voted)
  BY <1>2, <1>6, <1>7, <1>8, <1>9, BaseCalls
<1>11. m_Clients' = m_Clients + InCalls(stack') - InCalls(stack) /\ InCalls(stack') \in Nat
  BY <1>1, <1>3, <1>4, <1>10
<1> QED BY <1>1, <1>3, <1>4, <1>10, <1>11, CallsChange

\* The vote of a client who leaves is taken back.
LEMMA Wiped ==
  ASSUME IInv, NEW c \in Clients, WipeVote(c) \/ UNCHANGED <<m_Votes, m_ClientVotes>>,
         UNCHANGED <<m_pCurMenu, m_NumVotes>>, \A d \in Clients : InVoteMenu(d)' => InVoteMenu(d),
         ShowsNone(stack', Voted),
         \A g \in Calls(stack)' : Early(g) => \E h \in Calls(stack) : Early(h)
  PROVE  /\ m_ClientVotes' \in [Clients -> VOTE_NOT_VOTING..(NItems - 1)]
         /\ m_Votes' \in [Items -> Nat]
         /\ CountedOK'
<1>1. /\ m_ClientVotes \in [Clients -> VOTE_NOT_VOTING..(NItems - 1)] /\ m_Votes \in [Items -> Nat]
      /\ VOTE_NOT_VOTING \in VOTE_NOT_VOTING..(NItems - 1) /\ VOTE_NOT_VOTING < 0
  BY VotingAssumption DEF IInv, TypeOK, VOTE_NOT_VOTING
<1>2. CASE IsVoteInProgress /\ c \in Voted /\ WipeVote(c)
  <2>1. m_Votes' = Withdrawn(c, m_Votes) /\ m_ClientVotes' = [m_ClientVotes EXCEPT ![c] = VOTE_NOT_VOTING]
    BY <1>2 DEF WipeVote, Voted
  <2>2. ShowsNone(stack', Voted \ {c}) /\ m_NumVotes' \in {m_NumVotes, m_NumVotes - 1}
        /\ VOTE_NOT_VOTING \in {VOTE_NOT_VOTING, VOTE_PENDING}
    BY DEF ShowsNone
  <2> QED BY <1>2, <2>1, <2>2, Withdraws
<1>3. CASE ~(IsVoteInProgress /\ c \in Voted /\ WipeVote(c))
  <2>1. /\ m_Votes' = m_Votes
        /\ m_ClientVotes' = m_ClientVotes
           \/ (c \notin Voted /\ m_ClientVotes' = [m_ClientVotes EXCEPT ![c] = VOTE_NOT_VOTING])
    BY <1>3 DEF WipeVote, Voted
  <2>2. m_ClientVotes' \in [Clients -> VOTE_NOT_VOTING..(NItems - 1)]
    BY <1>1, <2>1
  <2>3. \A d \in Clients : m_ClientVotes'[d] = m_ClientVotes[d] \/ (d \notin Voted /\ m_ClientVotes'[d] < 0)
    BY <1>1, <2>1
  <2>4. CountedOK'
    BY <2>1, <2>2, <2>3, NobodyVoted
  <2> QED BY <1>1, <2>1, <2>2, <2>4
<1> QED BY <1>2, <1>3

\* The calls that the menu style is told of the disconnect from.
LEMMA ListenersRest ==
  ASSUME IInv, stack # <<>>, Top.pc = "OnClientDisconnect_Post", NEW first \in BOOLEAN,
         NEW K, K = IF first THEN Caller ELSE At(stack, "votes")
  PROVE  /\ Base(K) /\ Keeps(K) /\ Quiet(K) /\ TodoOK(K, Clients) /\ ShowsNone(K, Voted)
         /\ InCalls(K) = InCalls(stack) /\ InCalls(stack) \in Nat
<1>1. Top.client \in Clients /\ Top.old = NULL /\ Top.proc = "Disconnect" /\ Top.menu = NULL /\ Top.mh = "plugin"
  BY TopClient
<1>2. /\ InCalls(Caller) \in Nat /\ Shape(Top)
      /\ InCalls(stack) = IF ForVote(Top) THEN InCalls(Caller) + 1 ELSE InCalls(Caller)
  BY TopView DEF Fits
<1>3. ~Early(Top) /\ ~Starting(Top) /\ ~ForVote(Top) /\ ~Ignoring(Top) /\ ~Showing(Top) /\ ~Rendering(Top)
  BY <1>1 DEF Early, Starting, ForVote, Ignoring, Rendering, Showing
<1>4. CASE first
  <2>1. Base(Caller) /\ Keeps(Caller) /\ Quiet(Caller) /\ TodoOK(Caller, Clients) /\ ShowsNone(Caller, Voted)
    BY <1>1, <1>3, BaseReturns
  <2> QED BY <1>2, <1>3, <1>4, <2>1
<1>5. CASE ~first
  <2> DEFINE t == [Top EXCEPT !.pc = "votes"]
  <2>1. t.pc = "votes" /\ t = [Top EXCEPT !.pc = t.pc]
    <3>1. Top \in Frame
      BY TopView
    <3> QED BY <3>1 DEF Frame
  <2> HIDE DEF t
  <2>2. /\ t \in Frame /\ Same(t, Top) /\ t.todo = Top.todo /\ t.root = Top.root
        /\ t.proc = Top.proc /\ t.client = Top.client /\ t.menu = Top.menu /\ t.mh = Top.mh /\ t.old = Top.old
        /\ At(stack, t.pc) = Append(Caller, t)
    BY <2>1, AtPc
  <2>3. ~Early(t) /\ ~Starting(t) /\ ~ForVote(t) /\ ~Ignoring(t) /\ ~Showing(t) /\ ~Rendering(t)
    BY <1>1, <2>1, <2>2 DEF Early, Starting, ForVote, Ignoring, Rendering, Showing
  <2>4. Shape(t)
    BY <1>1, <1>2, <2>1, <2>2 DEF Shape
  <2>5. /\ Base(Append(Caller, t)) /\ Keeps(Append(Caller, t)) /\ ShowsNone(Append(Caller, t), Voted)
        /\ Quiet(Append(Caller, t)) /\ TodoOK(Append(Caller, t), Clients)
        /\ InCalls(Append(Caller, t)) = IF ForVote(t) THEN InCalls(Caller) + 1 ELSE InCalls(Caller)
    BY <1>3, <2>2, <2>3, <2>4, BaseGoesOn
  <2>6. K = Append(Caller, t)
    BY <1>5, <2>1, <2>2
  <2> QED BY <1>2, <1>3, <2>3, <2>5, <2>6
<1> QED BY <1>4, <1>5

LEMMA ListenersStep ==
  ASSUME IInv, \A n \in Menus : ~Doomed(n), NEW first \in BOOLEAN, Listeners(first)
  PROVE  IInv'
<1>0. PICK c : c = Top.client
  OBVIOUS
<1> DEFINE K == IF first THEN Caller ELSE At(stack, "votes")
           f == CancelFrame(c, TRUE)
<1>1. /\ stack # <<>> /\ Top.pc = "OnClientDisconnect_Post"
      /\ WipeVote(c) \/ UNCHANGED <<m_Votes, m_ClientVotes>>
      /\ player' = IF player[c].bInMenu THEN Cancelled(c, TRUE) ELSE player
      /\ stack' = K \o (IF player[c].bInMenu THEN <<f>> ELSE <<>>)
      /\ UNCHANGED <<inGame, menu, m_pCurMenu, m_bStarted, m_bCancelled, m_Clients, m_NumVotes,
                     m_displayTimer, timers, calls>>
  BY <1>0 DEF Listeners
<1>2. /\ Base(K) /\ Keeps(K) /\ Quiet(K) /\ TodoOK(K, Clients) /\ ShowsNone(K, Voted)
      /\ InCalls(K) = InCalls(stack) /\ InCalls(stack) \in Nat
  BY <1>1, ListenersRest
<1>3. c \in Clients
  BY <1>0, <1>1, TopClient
<1>8. NotPaging(c)
  <2>1. Fits(Calls(Caller), Top) /\ Calls(stack) = Calls(Caller) \cup {Top} /\ Top.proc = "Disconnect"
    BY <1>1, TopView, TopClient
  <2> QED BY <1>0, <1>1, <2>1 DEF NotPaging, Fits, Pair, Redrawing
<1> HIDE DEF K, f
<1>4. K \in Seq(Frame)
  BY <1>2 DEF Base
<1>5. /\ stack' \in Seq(Frame) /\ FramesOK(stack') /\ PlayersOK' /\ MenusOK' /\ VoteOK'
      /\ player' \in [Clients -> CBaseMenuPlayer]
      /\ ShowsNone(stack', Voted)
      /\ \A d \in Clients : InVoteMenu(d)' => InVoteMenu(d)
      /\ \A g \in Calls(stack)' : Early(g) => \E h \in Calls(stack) : Early(h)
  <2>1. CASE player[c].bInMenu
    <3>1. EndsFor(f, c) /\ Fits(Calls(K), f) /\ f \in Frame /\ Ignoring(f)
      BY <1>2, <1>3, <2>1, CancelledOn DEF f
    <3>2. stack' = Append(K, f) /\ player' = Cancelled(c, TRUE)
      BY <1>1, <1>4, <2>1, <3>1
    <3>3. TodoOK(K, Clients \ {c})
      BY <1>2 DEF TodoOK
    <3> QED BY <1>1, <1>2, <1>3, <1>8, <2>1, <3>1, <3>2, <3>3, EndStep
  <2>2. CASE ~player[c].bInMenu
    <3>1. stack' = K /\ player' = player
      BY <1>1, <1>4, <2>2
    <3>2. m_Clients' = m_Clients + InCalls(stack') - InCalls(stack) /\ InCalls(stack') \in Nat
      <4>1. InCalls(stack') = InCalls(stack) /\ m_Clients \in Nat /\ m_Clients' = m_Clients
        BY <1>1, <1>2, <3>1 DEF IInv, TypeOK
      <4> QED BY <1>2, <4>1
    <3>3. /\ (m_Clients = Cardinality({d \in Clients : InVoteMenu(d)}) + InCalls(stack))'
          /\ SeesLess(Clients)
      BY <1>2, <3>1, <3>2, SameCount
    <3>4. /\ MenusOK' /\ VoteOK' /\ FramesOK(stack') /\ stack' \in Seq(Frame)
          /\ \A d \in Clients : InVoteMenu(d)' => InVoteMenu(d)
          /\ \A g \in Calls(stack)' : Early(g) => \E h \in Calls(stack) : Early(h)
      BY <1>1, <1>2, <3>1, <3>3, StateKept
    <3>5. PlayersOK'
      BY <1>2, <3>1, PlayersSame DEF IInv, Quiet
    <3> QED BY <1>2, <3>1, <3>4, <3>5 DEF IInv, TypeOK
  <2> QED BY <2>1, <2>2
<1>6. /\ m_ClientVotes' \in [Clients -> VOTE_NOT_VOTING..(NItems - 1)] /\ m_Votes' \in [Items -> Nat]
      /\ CountedOK'
  BY <1>1, <1>3, <1>5, Wiped
<1>7. TypeOK'
  BY <1>1, <1>5, <1>6 DEF IInv, TypeOK
<1> QED BY <1>5, <1>6, <1>7 DEF IInv

LEMMA ListenersVotesStep ==
  ASSUME IInv, ListenersVotes
  PROVE  IInv'
<1>0. PICK c : c = Top.client
  OBVIOUS
<1>1. /\ stack # <<>> /\ Top.pc = "votes" /\ WipeVote(c) /\ stack' = Caller
      /\ UNCHANGED <<inGame, player, menu, m_pCurMenu, m_bStarted, m_bCancelled, m_Clients, m_NumVotes,
                     m_displayTimer, timers, calls>>
  BY <1>0 DEF ListenersVotes
<1>2. c \in Clients /\ Top.old = NULL /\ Top.proc = "Disconnect" /\ Top.menu = NULL /\ Top.mh = "plugin"
  BY <1>0, <1>1, TopClient
<1>3. ~Early(Top) /\ ~Starting(Top) /\ ~ForVote(Top) /\ ~Ignoring(Top)
  BY <1>1, <1>2 DEF Early, Starting, ForVote, Ignoring, Rendering
<1>4. Base(Caller) /\ Quiet(Caller) /\ TodoOK(Caller, Clients) /\ ShowsNone(Caller, Voted)
  BY <1>1, <1>2, <1>3, BaseReturns
<1>5. InCalls(Caller) \in Nat /\ InCalls(stack) = InCalls(Caller)
  BY <1>1, <1>3, TopView
<1>6. m_Clients' = m_Clients + InCalls(stack') - InCalls(stack)
  BY <1>1, <1>5 DEF IInv, TypeOK
<1>7. /\ (m_Clients = Cardinality({d \in Clients : InVoteMenu(d)}) + InCalls(stack))'
      /\ SeesLess(Clients)
  BY <1>1, <1>5, <1>6, SameCount
<1>8. /\ MenusOK' /\ VoteOK' /\ FramesOK(stack') /\ stack' \in Seq(Frame)
      /\ \A d \in Clients : InVoteMenu(d)' => InVoteMenu(d)
      /\ \A g \in Calls(stack)' : Early(g) => \E h \in Calls(stack) : Early(h)
  BY <1>1, <1>4, <1>7, StateKept
<1>9. PlayersOK'
  BY <1>1, <1>4, PlayersSame DEF IInv, Quiet
<1>10. /\ m_ClientVotes' \in [Clients -> VOTE_NOT_VOTING..(NItems - 1)] /\ m_Votes' \in [Items -> Nat]
       /\ CountedOK'
  BY <1>1, <1>2, <1>4, <1>8, Wiped
<1>11. TypeOK'
  BY <1>1, <1>8, <1>10 DEF IInv, TypeOK
<1> QED BY <1>8, <1>9, <1>10, <1>11 DEF IInv

-----------------------------------------------------------------------------
(* How the calls change, for what holds of them with the plugins' habits.  *)

\* A call that neither starts a vote nor draws a menu nor is a client leaving.
Tame(f) == f \in Frame /\ ~Starts(f) /\ ~Displaying(f) /\ f.proc # "Disconnect"

\* The calls K have no StartVote that is not on the stack.
StartsKept(K) ==
  /\ K \in Seq(Frame)
  /\ OneStarts(stack) => OneStarts(K)
  /\ \A f \in Calls(K) : Starts(f) => \E g \in Calls(stack) : Starts(g)

\* The same clients leave in the calls K, and no more is drawn.
LeavesKept(K) ==
  /\ \A f \in Calls(K) : Displaying(f) \/ f.proc = "Disconnect" => f \in Calls(stack)
  /\ \A g \in Calls(stack) : g.proc = "Disconnect" => g \in Calls(K)

Kept(K) == StartsKept(K) /\ LeavesKept(K)

LEMMA KeptSame ==
  ASSUME IInv
  PROVE  Kept(stack)
  BY DEF Kept, StartsKept, LeavesKept, IInv, TypeOK

LEMMA KeptReturns ==
  ASSUME IInv, stack # <<>>
  PROVE  StartsKept(Caller) /\ (Top.proc # "Disconnect" => Kept(Caller))
<1>1. /\ stack \in Seq(Frame) /\ Caller \in Seq(Frame) /\ Calls(stack) = Calls(Caller) \cup {Top}
      /\ OneStarts(stack) => OneStarts(Caller)
  BY Pop DEF IInv, TypeOK, Caller, Top
<1> QED BY <1>1 DEF Kept, StartsKept, LeavesKept

LEMMA KeptTop ==
  ASSUME IInv, stack # <<>>, NEW t \in Frame, Starts(t) => Starts(Top)
  PROVE  /\ StartsKept(Append(Caller, t))
         /\ ~Displaying(t) /\ t.proc # "Disconnect" /\ Top.proc # "Disconnect" => Kept(Append(Caller, t))
<1>1. /\ stack \in Seq(Frame) /\ Caller \in Seq(Frame) /\ Calls(stack) = Calls(Caller) \cup {Top}
      /\ OneStarts(stack) => OneStarts(Caller) /\ (Starts(Top) => \A g \in Calls(Caller) : ~Starts(g))
  BY Pop DEF IInv, TypeOK, Caller, Top
<1>2. /\ Append(Caller, t) \in Seq(Frame) /\ Calls(Append(Caller, t)) = Calls(Caller) \cup {t}
      /\ OneStarts(Caller) /\ (Starts(t) => \A g \in Calls(Caller) : ~Starts(g)) => OneStarts(Append(Caller, t))
  BY <1>1, Push
<1> QED BY <1>1, <1>2 DEF Kept, StartsKept, LeavesKept

LEMMA KeptAt ==
  ASSUME IInv, stack # <<>>,
         NEW pc \in {"loop", "start", "render", "end", "done", "votes", "OnVotingEnd", "OnMenuCancel", "OnMenuEnd",
                  "OnMenuDrawItem", "OnMenuDisplay", "OnMenuRedraw"},
         pc = "loop" => Early(Top)
  PROVE  /\ StartsKept(At(stack, pc))
         /\ pc \notin {"render", "OnMenuDrawItem", "OnMenuDisplay"} /\ Top.proc # "Disconnect" => Kept(At(stack, pc))
         /\ \E t \in Frame : /\ t.pc = pc /\ t.proc = Top.proc /\ t.client = Top.client /\ t.mh = Top.mh
                             /\ Caller \in Seq(Frame) /\ At(stack, pc) = Append(Caller, t)
<1> DEFINE t == [Top EXCEPT !.pc = pc]
<1>1. t.pc = pc /\ t = [Top EXCEPT !.pc = t.pc] /\ Caller \in Seq(Frame)
  <2>1. Top \in Frame /\ Caller \in Seq(Frame)
    BY TopView
  <2> QED BY <2>1 DEF Frame
<1> HIDE DEF t
<1>2. t \in Frame /\ t.proc = Top.proc /\ t.client = Top.client /\ t.mh = Top.mh /\ At(stack, t.pc) = Append(Caller, t)
  BY <1>1, AtPc
<1>3. (Starts(t) => Starts(Top)) /\ (pc \notin {"render", "OnMenuDrawItem", "OnMenuDisplay"} => ~Displaying(t))
  BY <1>1, <1>2 DEF Starts, Early, Starting, Displaying
<1>4. /\ StartsKept(Append(Caller, t))
      /\ ~Displaying(t) /\ t.proc # "Disconnect" /\ Top.proc # "Disconnect" => Kept(Append(Caller, t))
  BY <1>2, <1>3, KeptTop
<1> QED BY <1>1, <1>2, <1>3, <1>4

LEMMA KeptPush ==
  ASSUME NEW K, StartsKept(K), NEW f, Tame(f)
  PROVE  /\ StartsKept(Append(K, f)) /\ K \o <<f>> = Append(K, f) /\ K \o <<>> = K
         /\ LeavesKept(K) => LeavesKept(Append(K, f))
         /\ Calls(Append(K, f)) = Calls(K) \cup {f}
<1>1. K \in Seq(Frame) /\ f \in Frame
  BY DEF StartsKept, Tame
<1>2. /\ Append(K, f) \in Seq(Frame) /\ Calls(Append(K, f)) = Calls(K) \cup {f}
      /\ OneStarts(K) /\ (Starts(f) => \A g \in Calls(K) : ~Starts(g)) => OneStarts(Append(K, f))
  BY <1>1, Push
<1>3. K \o <<f>> = Append(K, f) /\ K \o <<>> = K
  BY <1>1
<1> QED BY <1>2, <1>3 DEF StartsKept, LeavesKept, Tame

\* The calls for a menu that are new.
LEMMA TameRooted ==
  ASSUME TypeOK,
         NEW proc \in {"DoClientMenu", "_CancelClientMenu", "ClientPressedKey", "EndVoting"},
         NEW pc \in {"OnMenuStart", "start", "OnMenuSelect", "OnMenuRedrawItem", "OnMenuCancel", "OnMenuVoteEnd"},
         NEW c \in Clients \cup {NULL}, NEW m \in Menus, NEW mh \in {"vote", "plugin"}
  PROVE  Tame(Rooting(Call(proc, pc, c, m, mh)))
<1> DEFINE f == Rooting(Call(proc, pc, c, m, mh))
<1>1. /\ proc \in {"StartVote", "DoClientMenu", "_CancelClientMenu", "ClientPressedKey", "EndVoting",
                      "Cancel", "Destroy", "Disconnect"}
      /\ pc \in Callbacks \cup {"loop", "start", "render", "end", "done", "delete", "listeners", "votes"}
  BY DEF Callbacks
<1>2. f \in Frame /\ f.proc = proc /\ f.pc = pc
  <2> DEFINE g == [ proc |-> proc, pc |-> pc, client |-> c, menu |-> m, mh |-> mh, root |-> ~menu[m].closed,
                    old |-> NULL, todo |-> <<>> ]
  <2>1. f = g
    BY DEF Rooting, Call
  <2>2. g \in Frame
    <3>1. (~menu[m].closed) \in BOOLEAN /\ <<>> \in Seq(Clients) /\ NULL \in BOOLEAN \cup {NULL}
      OBVIOUS
    <3> QED BY <1>1, <3>1 DEF Frame
  <2>3. g.proc = proc /\ g.pc = pc
    OBVIOUS
  <2> QED BY <2>1, <2>2, <2>3
<1> HIDE DEF f
<1>3. Tame(f)
  BY <1>2 DEF Tame, Starts, Early, Starting, Displaying
<1> QED BY <1>3 DEF f

LEMMA TameCancel ==
  ASSUME IInv, NEW c \in Clients, NEW b \in BOOLEAN, player[c].bInMenu
  PROVE  Tame(CancelFrame(c, b)) /\ Tame([CancelFrame(c, b) EXCEPT !.old = TRUE])
<1> DEFINE f == CancelFrame(c, b)
           g == [f EXCEPT !.old = TRUE]
<1>1. TypeOK /\ player[c].menu \in Menus
  BY NotGone DEF IInv
<1>2. Cancels(f, c)
  BY <1>1, CancelFrameParts
<1> HIDE DEF f
<1>3. f \in Frame /\ f.proc = "_CancelClientMenu" /\ f.pc = "OnMenuCancel"
  BY <1>2 DEF Cancels
<1>4. g \in Frame /\ g.proc = "_CancelClientMenu" /\ g.pc = "OnMenuCancel"
  BY <1>3 DEF Frame
<1> HIDE DEF g
<1>5. Tame(f) /\ Tame(g)
  BY <1>3, <1>4 DEF Tame, Starts, Early, Starting, Displaying
<1> QED BY <1>5 DEF f, g

LEMMA TameLoop ==
  ASSUME NEW m \in Menus
  PROVE  /\ Tame(Call("Destroy", "delete", NULL, m, "plugin"))
         /\ Tame(Looping(Call("Cancel", "loop", NULL, m, "plugin"), EachClient))
<1> DEFINE d == Call("Destroy", "delete", NULL, m, "plugin")
           c0 == Call("Cancel", "loop", NULL, m, "plugin")
<1>1. Parts(d, "Destroy", "delete", NULL, m)
  BY PlainCall DEF Callbacks
<1>2. Parts(c0, "Cancel", "loop", NULL, m)
  BY PlainCall DEF Callbacks
<1> HIDE DEF d, c0
<1>3. Parts(Looping(c0, EachClient), "Cancel", "loop", NULL, m)
  BY <1>2, LoopCall, EachClientHas
<1>4. Tame(d)
  BY <1>1 DEF Parts, Tame, Starts, Early, Starting, Displaying
<1>5. Tame(Looping(c0, EachClient))
  BY <1>3 DEF Parts, Tame, Starts, Early, Starting, Displaying
<1> QED BY <1>4, <1>5 DEF d, c0

LEMMA DisplayKept ==
  ASSUME IInv, NEW c \in Clients, NEW m \in Menus, NEW mh \in {"vote", "plugin"}, NEW K, Kept(K), Display(c, m, mh, K)
  PROVE  Kept(stack')
<1> DEFINE pc == IF mh = "vote" THEN "start" ELSE "OnMenuStart"
           f == Rooting(Call("DoClientMenu", pc, c, m, mh))
<1>1. stack' = K \/ stack' = Append(K, f)
  BY DEF Display
<1>2. pc \in {"OnMenuStart", "start", "OnMenuSelect", "OnMenuRedrawItem", "OnMenuCancel", "OnMenuVoteEnd"} /\ TypeOK
  BY DEF IInv
<1> HIDE DEF pc
<1>3. Tame(f)
  BY <1>2, TameRooted
<1> HIDE DEF f
<1> QED BY <1>1, <1>3, KeptPush DEF Kept

LEMMA EndVotingKept ==
  ASSUME IInv, m_bStarted, NEW K, EndVoting(K), Kept(K)
  PROVE  Kept(stack')
<1> DEFINE f == Rooting(Call("EndVoting", "OnMenuVoteEnd", NULL, m_pCurMenu, "plugin"))
<1>1. stack' = Append(K, f)
  BY DEF EndVoting
<1>2. m_pCurMenu \in Menus /\ TypeOK
  <2>1. m_pCurMenu # NULL
    BY DEF IInv, VoteOK
  <2> QED BY <2>1, NotGone DEF IInv
<1>3. Tame(f)
  BY <1>2, TameRooted
<1> HIDE DEF f
<1> QED BY <1>1, <1>3, KeptPush DEF Kept

\* A step that nobody enters a menu, leaves or votes in, and that starts and
\* ends no vote.
Ordinary ==
  /\ Kept(stack') /\ SeesLess(Clients)
  /\ UNCHANGED <<inGame, m_pCurMenu, m_ClientVotes, m_displayTimer, timers>>

\* A step that ends the vote.
Ending ==
  /\ Kept(stack') /\ UNCHANGED <<inGame, player, m_ClientVotes>>
  /\ m_pCurMenu' = NULL /\ m_displayTimer' = FALSE /\ timers' = TimersLeft

LEMMA SeesSame ==
  ASSUME player' = player
  PROVE  SeesLess(Clients)
  BY DEF SeesLess

LEMMA SeesNone ==
  ASSUME IInv, NEW c \in Clients, NEW b \in BOOLEAN,
         \/ player' = Cancelled(c, b)
         \/ player' = [player EXCEPT ![c].bInMenu = FALSE]
         \/ player' = [player EXCEPT ![c].bInMenu = FALSE, ![c].bAutoIgnore = b]
         \/ player' = [player EXCEPT ![c].bAutoIgnore = b, ![c].bInMenu = FALSE]
  PROVE  SeesLess(Clients) /\ ~player'[c].bInMenu /\ \A d \in Clients : d # c => player'[d] = player[d]
<1>1. player \in [Clients -> CBaseMenuPlayer] /\ player[c] \in CBaseMenuPlayer
  BY DEF IInv, TypeOK
<1>2. \A d \in Clients : d # c => player'[d] = player[d]
  BY <1>1 DEF Cancelled
<1>3. ~player'[c].bInMenu
  BY <1>1 DEF Cancelled, CBaseMenuPlayer
<1> QED BY <1>2, <1>3 DEF SeesLess

LEMMA SeesOn ==
  ASSUME IInv, NEW c \in Clients, NEW x, player' = [player EXCEPT ![c].bAutoIgnore = x]
  PROVE  SeesLess(Clients)
<1>1. player \in [Clients -> CBaseMenuPlayer] /\ player[c] \in CBaseMenuPlayer
  BY DEF IInv, TypeOK
<1>2. \A d \in Clients : d # c => player'[d] = player[d]
  BY <1>1
<1>3. player'[c] = [player[c] EXCEPT !.bAutoIgnore = x]
  BY <1>1
<1>4. player'[c].bInMenu = player[c].bInMenu /\ player'[c].menu = player[c].menu /\ player'[c].mh = player[c].mh
  BY <1>1, <1>3 DEF CBaseMenuPlayer
<1> QED BY <1>2, <1>4 DEF SeesLess

LEMMA KeptCall ==
  ASSUME NEW K, Kept(K), NEW f, Tame(f), stack' = K \o <<f>>
  PROVE  Kept(stack')
<1>1. stack' = Append(K, f)
  BY KeptPush DEF Kept
<1> QED BY <1>1, KeptPush DEF Kept

LEMMA TimeoutOrdinary ==
  ASSUME IInv, NEW c \in Clients, Timeout(c)
  PROVE  Ordinary
<1>1. /\ stack = <<>> /\ player[c].bInMenu /\ player' = Cancelled(c, FALSE) /\ stack' = stack \o <<CancelFrame(c, FALSE)>>
      /\ UNCHANGED <<inGame, m_pCurMenu, m_ClientVotes, m_displayTimer, timers>>
  BY DEF Timeout, vote
<1>2. Tame(CancelFrame(c, FALSE))
  BY <1>1, TameCancel
<1>3. Kept(stack')
  BY <1>1, <1>2, KeptSame, KeptCall
<1>4. SeesLess(Clients)
  BY <1>1, SeesNone
<1> QED BY <1>1, <1>3, <1>4 DEF Ordinary

LEMMA CancelClientMenuOrdinary ==
  ASSUME IInv, NEW c \in Clients, NEW b \in BOOLEAN, CancelClientMenu(c, b)
  PROVE  Ordinary
<1>1. /\ player[c].bInMenu /\ player' = Cancelled(c, b) /\ stack' = stack \o <<CancelFrame(c, b)>>
      /\ UNCHANGED <<inGame, m_pCurMenu, m_ClientVotes, m_displayTimer, timers>>
  BY DEF CancelClientMenu, Native, vote
<1>2. Tame(CancelFrame(c, b))
  BY <1>1, TameCancel
<1>3. Kept(stack')
  BY <1>1, <1>2, KeptSame, KeptCall
<1>4. SeesLess(Clients)
  BY <1>1, SeesNone
<1> QED BY <1>1, <1>3, <1>4 DEF Ordinary

LEMMA PressExitOrdinary ==
  ASSUME IInv, NEW c \in Clients, PressExit(c)
  PROVE  Ordinary
<1> DEFINE f == Rooting(Call("ClientPressedKey", "OnMenuCancel", c, player[c].menu, player[c].mh))
<1>1. /\ stack = <<>> /\ player[c].bInMenu /\ player' = [player EXCEPT ![c].bInMenu = FALSE] /\ stack' = stack \o <<f>>
      /\ UNCHANGED <<inGame, m_pCurMenu, m_ClientVotes, m_displayTimer, timers>>
  BY DEF PressExit, vote
<1>2. player[c].menu \in Menus /\ player[c].mh \in {"vote", "plugin"} /\ TypeOK
  BY <1>1, NotGone DEF IInv, TypeOK, CBaseMenuPlayer
<1>3. Tame(f)
  BY <1>2, TameRooted
<1> HIDE DEF f
<1>4. SeesLess(Clients)
  BY <1>1, SeesNone
<1>5. Kept(stack')
  BY <1>1, <1>3, KeptSame, KeptCall
<1> QED BY <1>1, <1>4, <1>5 DEF Ordinary

LEMMA PressPageOrdinary ==
  ASSUME IInv, NEW c \in Clients, PressPage(c)
  PROVE  Ordinary
<1> DEFINE f == Rooting(Call("ClientPressedKey", "OnMenuRedrawItem", c, player[c].menu, player[c].mh))
<1>1. /\ stack = <<>> /\ player[c].bInMenu /\ player' = [player EXCEPT ![c].bAutoIgnore = TRUE] /\ stack' = stack \o <<f>>
      /\ UNCHANGED <<inGame, m_pCurMenu, m_ClientVotes, m_displayTimer, timers>>
  BY DEF PressPage, vote
<1>2. player[c].menu \in Menus /\ player[c].mh \in {"vote", "plugin"} /\ TypeOK
  BY <1>1, NotGone DEF IInv, TypeOK, CBaseMenuPlayer
<1>3. Tame(f)
  BY <1>2, TameRooted
<1> HIDE DEF f
<1>4. SeesLess(Clients)
  BY <1>1, SeesOn
<1>5. Kept(stack')
  BY <1>1, <1>3, KeptSame, KeptCall
<1> QED BY <1>1, <1>4, <1>5 DEF Ordinary

LEMMA CancelMenuOrdinary ==
  ASSUME IInv, CancelMenu
  PROVE  Ordinary
<1>0. PICK c, K : c = Head(Top.todo) /\ K = [stack EXCEPT ![Len(stack)].todo = Tail(@)]
  OBVIOUS
<1>1. /\ stack # <<>> /\ Top.proc = "Cancel" /\ UNCHANGED <<inGame, m_pCurMenu, m_ClientVotes, m_displayTimer, timers>>
      /\ Top.todo = <<>> => stack' = Caller /\ player' = player
      /\ Top.todo # <<>> =>
           /\ player' = IF InMenu(c, Top.menu) THEN Cancelled(c, FALSE) ELSE player
           /\ stack' = K \o (IF InMenu(c, Top.menu) THEN <<CancelFrame(c, FALSE)>> ELSE <<>>)
  BY <1>0 DEF CancelMenu, vote
<1>2. CASE Top.todo = <<>>
  BY <1>1, <1>2, KeptReturns, SeesSame DEF Ordinary
<1>3. CASE Top.todo # <<>>
  <2>1. c \in Clients
    BY <1>0, <1>1, <1>3, NextClient
  <2>2. Kept(K)
    <3> DEFINE t == [Top EXCEPT !.todo = Tail(Top.todo)]
    <3>1. Top \in Frame /\ stack \in Seq(Frame)
      BY <1>1, TopView DEF IInv, TypeOK
    <3>2. Tail(Top.todo) \in Seq(Clients)
      BY <1>3, <3>1, TailList DEF Frame
    <3>3. t \in Frame /\ t.pc = Top.pc /\ t.proc = Top.proc
      BY <3>1, <3>2 DEF Frame
    <3>4. K = [stack EXCEPT ![Len(stack)] = t]
      BY <1>0 DEF Top, Last
    <3> HIDE DEF t
    <3>5. K = Append(Caller, t)
      BY <1>1, <3>1, <3>3, <3>4, SetTop DEF Caller
    <3>6. Top.pc = "loop"
      BY <1>1, TopView DEF Fits, Shape
    <3>7. ~Starts(t) /\ ~Displaying(t)
      BY <1>1, <3>3, <3>6 DEF Starts, Early, Starting, Displaying
    <3> QED BY <1>1, <3>3, <3>5, <3>7, KeptTop
  <2>3. CASE InMenu(c, Top.menu)
    <3>1. player[c].bInMenu /\ player' = Cancelled(c, FALSE) /\ stack' = K \o <<CancelFrame(c, FALSE)>>
      BY <1>1, <1>3, <2>3 DEF InMenu
    <3>2. Tame(CancelFrame(c, FALSE))
      BY <2>1, <3>1, TameCancel
    <3>3. Kept(stack')
      BY <2>2, <3>1, <3>2, KeptCall
    <3>4. SeesLess(Clients)
      BY <2>1, <3>1, SeesNone
    <3> QED BY <1>1, <3>3, <3>4 DEF Ordinary
  <2>4. CASE ~InMenu(c, Top.menu)
    <3>1. player' = player /\ stack' = K \o <<>>
      BY <1>1, <1>3, <2>4
    <3>2. stack' = K
      BY <2>2, <3>1 DEF Kept, StartsKept
    <3> QED BY <1>1, <2>2, <3>1, <3>2, SeesSame DEF Ordinary
  <2> QED BY <2>3, <2>4
<1> QED BY <1>2, <1>3

LEMMA DisplayMenuOrdinary ==
  ASSUME IInv, NEW c \in Clients, DisplayMenu(c)
  PROVE  Ordinary
<1>1. /\ Display(c, Plain, "plugin", stack)
      /\ UNCHANGED <<inGame, player, m_pCurMenu, m_ClientVotes, m_displayTimer, timers>>
  BY DEF DisplayMenu
<1>2. Plain \in Menus
  BY DEF Menus
<1>3. Kept(stack)
  BY KeptSame, NotGone
<1>4. Kept(stack')
  BY <1>1, <1>2, <1>3, DisplayKept
<1> QED BY <1>1, <1>4, SeesSame DEF Ordinary

LEMMA StartVoteLoopOrdinary ==
  ASSUME IInv, StartVoteLoop
  PROVE  Ordinary
<1>1. /\ stack # <<>> /\ Top.proc = "StartVote" /\ Top.pc = "loop"
      /\ UNCHANGED <<inGame, player, m_pCurMenu, m_ClientVotes, m_displayTimer, timers>>
  BY DEF StartVoteLoop
<1>2. Top \in Frame /\ Shape(Top) /\ stack \in Seq(Frame) /\ Starts(Top)
  BY <1>1, TopView DEF Fits, IInv, TypeOK, Starts, Early
<1>3. CASE Top.todo # <<>>
  <2> DEFINE t == [Top EXCEPT !.todo = Tail(Top.todo)]
             K == [stack EXCEPT ![Len(stack)].todo = Tail(@)]
  <2>1. Tail(Top.todo) \in Seq(Clients) /\ Head(Top.todo) \in Clients
    BY <1>2, <1>3, TailList DEF Frame
  <2>2. t \in Frame /\ t.pc = Top.pc /\ t.proc = Top.proc
    BY <1>2, <2>1 DEF Frame
  <2>3. K = [stack EXCEPT ![Len(stack)] = t]
    BY DEF Top, Last
  <2>4. Display(Head(Top.todo), Top.menu, "vote", K)
    BY <1>3 DEF StartVoteLoop
  <2> HIDE DEF t, K
  <2>5. K = Append(Caller, t)
    BY <1>1, <1>2, <2>2, <2>3, SetTop DEF Caller
  <2>6. ~Displaying(t)
    BY <1>1, <2>2 DEF Displaying
  <2>7. Kept(K)
    BY <1>1, <1>2, <2>2, <2>5, <2>6, KeptTop
  <2>8. Top.menu \in Menus
    BY <1>1, <1>2 DEF Shape, Menus
  <2>9. Kept(stack')
    BY <2>1, <2>4, <2>7, <2>8, DisplayKept
  <2> QED BY <1>1, <2>9, SeesSame DEF Ordinary
<1>4. CASE Top.todo = <<>>
  <2> DEFINE r == ~menu[Top.menu].closed
             t == [Top EXCEPT !.pc = "OnMenuVoteStart", !.root = r]
  <2>1. stack' = Caller \/ stack' = Append(Caller, t)
    BY <1>4 DEF StartVoteLoop
  <2>2. r \in BOOLEAN
    OBVIOUS
  <2> HIDE DEF r
  <2>3. t \in Frame /\ t.pc = "OnMenuVoteStart" /\ t.proc = "StartVote"
    BY <1>1, <1>2, <2>2 DEF Frame, Callbacks
  <2> HIDE DEF t
  <2>4. ~Displaying(t)
    BY <2>3 DEF Displaying
  <2>5. Kept(Append(Caller, t)) /\ Kept(Caller)
    BY <1>1, <1>2, <2>3, <2>4, KeptTop, KeptReturns
  <2> QED BY <1>1, <2>1, <2>5, SeesSame DEF Ordinary
<1> QED BY <1>3, <1>4

LEMMA CancelVotingOrdinary ==
  ASSUME IInv, CancelVoting
  PROVE  Ordinary
<1> DEFINE f == Looping(Call("Cancel", "loop", NULL, m_pCurMenu, "plugin"), EachClient)
<1>1. /\ m_pCurMenu # NULL /\ UNCHANGED <<inGame, player, m_pCurMenu, m_ClientVotes, m_displayTimer, timers>>
      /\ stack' = stack \o <<>> \/ stack' = stack \o <<f>>
  BY DEF CancelVoting, Native, IsVoteInProgress, Looping
<1>2. m_pCurMenu \in Menus
  BY <1>1, NotGone
<1>3. Tame(f)
  BY <1>2, TameLoop
<1> HIDE DEF f
<1>4. Kept(stack')
  <2>1. stack \o <<>> = stack
    BY DEF IInv, TypeOK
  <2> QED BY <1>1, <1>3, <2>1, KeptSame, KeptCall
<1> QED BY <1>1, <1>4, SeesSame DEF Ordinary

LEMMA CloseMenuOrdinary ==
  ASSUME IInv, NEW m \in Menus, CloseMenu(m)
  PROVE  Ordinary
<1>1. stack' = stack \o <<>> /\ UNCHANGED <<inGame, player, m_pCurMenu, m_ClientVotes, m_displayTimer, timers>>
  BY DEF CloseMenu, Native, vote
<1>2. stack' = stack
  BY <1>1 DEF IInv, TypeOK
<1> QED BY <1>1, <1>2, KeptSame, SeesSame DEF Ordinary

LEMMA DestroyMenuOrdinary ==
  ASSUME IInv, NEW m \in Menus, DestroyMenu(m)
  PROVE  Ordinary
<1> DEFINE d == Call("Destroy", "delete", NULL, m, "plugin")
           f == Looping(Call("Cancel", "loop", NULL, m, "plugin"), EachClient)
<1>1. /\ UNCHANGED <<inGame, player, m_pCurMenu, m_ClientVotes, m_displayTimer, timers>>
      /\ stack' = stack \/ stack' = stack \o <<d, f>>
  BY DEF DestroyMenu, vote, Looping
<1>2. Tame(d) /\ Tame(f)
  BY TameLoop
<1> HIDE DEF d, f
<1>3. stack' = stack \/ stack' = Append(Append(stack, d), f)
  BY <1>1, <1>2, Joined DEF Tame, IInv, TypeOK
<1>4. Kept(Append(stack, d))
  BY <1>2, KeptSame, KeptPush DEF Kept
<1>5. Kept(Append(Append(stack, d), f))
  BY <1>2, <1>4, KeptPush DEF Kept
<1> QED BY <1>1, <1>3, <1>5, KeptSame, SeesSame DEF Ordinary

LEMMA InternalDeleteOrdinary ==
  ASSUME IInv, InternalDelete
  PROVE  Ordinary
<1>1. /\ stack # <<>> /\ Top.proc = "Destroy" /\ stack' = Caller
      /\ UNCHANGED <<inGame, player, m_pCurMenu, m_ClientVotes, m_displayTimer, timers>>
  BY DEF InternalDelete, vote
<1> QED BY <1>1, KeptReturns, SeesSame DEF Ordinary

\* A call that ends or goes on to its end is not a Disconnect.
LEMMA NotLeaving ==
  ASSUME IInv, stack # <<>>, Top.pc \notin {"OnClientDisconnect_Post", "votes"}
  PROVE  Top.proc # "Disconnect"
  BY TopView DEF Fits, Shape

LEMMA ReturnOrdinary ==
  ASSUME IInv, Return
  PROVE  Ordinary
<1> DEFINE pc == IF Top.proc = "StartVote" THEN "loop" ELSE ReturnTo[Top.pc]
<1>1. /\ stack # <<>> /\ Top.pc \in DOMAIN ReturnTo /\ stack' = At(stack, pc)
      /\ UNCHANGED <<inGame, player, m_pCurMenu, m_ClientVotes, m_displayTimer, timers>>
  BY DEF Return, vote
<1>2. Top \in Frame /\ Shape(Top)
  BY <1>1, TopView DEF Fits
<1>3. Top.pc \in {"OnMenuStart", "OnMenuSelect", "OnMenuCancel", "OnMenuEnd", "OnMenuVoteEnd", "OnVotingEnd"}
  BY <1>1 DEF ReturnTo
<1>4. pc \in {"loop", "start", "end", "done", "OnVotingEnd"} /\ (pc = "loop" => Top.proc = "StartVote")
  BY <1>3 DEF ReturnTo
<1> HIDE DEF pc
<1>5. pc = "loop" => Early(Top)
  BY <1>2, <1>3, <1>4 DEF Shape, Early
<1>6. Top.proc # "Disconnect"
  BY <1>1, <1>3, NotLeaving
<1>7. Kept(stack')
  BY <1>1, <1>4, <1>5, <1>6, KeptAt
<1> QED BY <1>1, <1>7, SeesSame DEF Ordinary

LEMMA ReturnRedrawnOrdinary ==
  ASSUME IInv, ReturnRedrawn
  PROVE  Ordinary
<1>1. /\ stack # <<>> /\ Top.pc = "OnMenuRedraw" /\ stack' = Caller
      /\ player' = [player EXCEPT ![Top.client].bAutoIgnore = FALSE]
      /\ UNCHANGED <<inGame, m_pCurMenu, m_ClientVotes, m_displayTimer, timers>>
  BY DEF ReturnRedrawn, vote
<1>2. Top.client \in Clients
  BY <1>1, TopClient
<1>3. Kept(stack')
  BY <1>1, NotLeaving, KeptReturns
<1>4. SeesLess(Clients)
  BY <1>1, <1>2, SeesOn
<1> QED BY <1>1, <1>3, <1>4 DEF Ordinary

\* Nothing is drawn of another page.
LEMMA RedoClientMenuOrdinary ==
  ASSUME IInv, RedoClientMenu(FALSE)
  PROVE  Ordinary
<1> DEFINE r == ~menu[Top.menu].closed
           t == [[Top EXCEPT !.root = r] EXCEPT !.pc = "OnMenuCancel"]
<1>1. /\ stack # <<>> /\ Top.pc = "OnMenuRedrawItem" /\ stack' = Append(Caller, t)
      /\ player' = [player EXCEPT ![Top.client].bAutoIgnore = FALSE, ![Top.client].bInMenu = FALSE]
      /\ UNCHANGED <<inGame, m_pCurMenu, m_ClientVotes, m_displayTimer, timers>>
  BY DEF RedoClientMenu, Rooting
<1>2. Top.client \in Clients /\ Top.proc = "ClientPressedKey" /\ Top \in Frame
  BY <1>1, TopClient, TopView
<1>3. t \in Frame /\ t.pc = "OnMenuCancel" /\ t.proc = "ClientPressedKey"
  <2>1. r \in BOOLEAN
    OBVIOUS
  <2> HIDE DEF r
  <2> QED BY <1>2, <2>1 DEF Frame, Callbacks
<1> HIDE DEF t
<1>4. ~Starts(t) /\ ~Displaying(t)
  BY <1>3 DEF Starts, Early, Starting, Displaying
<1>5. Kept(stack')
  BY <1>1, <1>2, <1>3, <1>4, KeptTop
<1>6. SeesLess(Clients)
  BY <1>1, <1>2, SeesNone
<1> QED BY <1>1, <1>5, <1>6 DEF Ordinary

LEMMA DoneOrdinary ==
  ASSUME IInv, Done
  PROVE  Ordinary
<1>1. /\ stack # <<>> /\ Top.pc = "done" /\ stack' = Caller
      /\ player' = player \/ (Top.old # NULL /\ player' = [player EXCEPT ![Top.client].bAutoIgnore = Top.old])
      /\ UNCHANGED <<inGame, m_pCurMenu, m_ClientVotes, m_displayTimer, timers>>
  BY DEF Done, vote
<1>2. Top.old # NULL => Top.client \in Clients
  <2>1. Top \in Frame /\ Shape(Top)
    BY <1>1, TopView DEF Fits
  <2>2. Top.proc \in {"StartVote", "DoClientMenu", "_CancelClientMenu", "ClientPressedKey", "EndVoting",
                      "Cancel", "Destroy", "Disconnect"}
    BY <2>1 DEF Frame
  <2> QED BY <2>1, <2>2 DEF Shape
<1>3. Kept(stack')
  BY <1>1, NotLeaving, KeptReturns
<1>4. SeesLess(Clients)
  BY <1>1, <1>2, SeesOn, SeesSame
<1> QED BY <1>1, <1>3, <1>4 DEF Ordinary

LEMMA DisplayEndsOrdinary ==
  ASSUME IInv, DisplayEnds
  PROVE  Ordinary \/ Ending
<1>1. stack # <<>> /\ Top.pc = "end" /\ OnMenuEnd(Top.mh) /\ UNCHANGED <<inGame, player>>
  BY DEF DisplayEnds
<1>2. Kept(At(stack, "done")) /\ Kept(At(stack, "OnMenuEnd"))
  BY <1>1, NotLeaving, KeptAt
<1>3. CASE Top.mh # "plugin" /\ LastDisplay
  <2>1. EndVoting(At(stack, "done")) /\ m_bStarted
    BY <1>1, <1>3 DEF OnMenuEnd, LastDisplay
  <2>2. Kept(stack')
    BY <1>2, <2>1, EndVotingKept
  <2> QED BY <1>1, <2>1, <2>2 DEF Ending, EndVoting, InternalReset
<1>4. CASE ~(Top.mh # "plugin" /\ LastDisplay)
  <2>1. /\ stack' = At(stack, "done") \/ stack' = At(stack, "OnMenuEnd")
        /\ UNCHANGED <<m_pCurMenu, m_ClientVotes, m_displayTimer, timers>>
    BY <1>1, <1>4 DEF OnMenuEnd, vote
  <2> QED BY <1>1, <1>2, <2>1, SeesSame DEF Ordinary
<1> QED BY <1>3, <1>4

\* The timer is set when the vote has been started.
SetsTimer ==
  /\ stack # <<>> /\ Starting(Top) /\ stack' = Caller /\ Kept(stack')
  /\ m_bStarted /\ m_displayTimer' = TRUE /\ timers' = timers + 1
  /\ UNCHANGED <<inGame, player, m_pCurMenu, m_ClientVotes>>

LEMMA VoteStartedOrdinary ==
  ASSUME IInv, VoteStarted
  PROVE  Ordinary \/ Ending \/ SetsTimer
<1>1. stack # <<>> /\ Top.pc = "OnMenuVoteStart" /\ Starting(Top) /\ UNCHANGED <<inGame, player>>
  BY DEF VoteStarted, Starting
<1>2. Kept(At(stack, "done")) /\ Kept(Caller)
  BY <1>1, NotLeaving, KeptAt, KeptReturns
<1>3. CASE ~m_bStarted
  <2>1. stack' = Caller /\ UNCHANGED <<m_pCurMenu, m_ClientVotes, m_displayTimer, timers>>
    BY <1>3 DEF VoteStarted, vote
  <2> QED BY <1>1, <1>2, <2>1, SeesSame DEF Ordinary
<1>4. CASE m_bStarted /\ NobodyVotes
  <2>1. EndVoting(At(stack, "done"))
    BY <1>4 DEF VoteStarted
  <2>2. Kept(stack')
    BY <1>2, <1>4, <2>1, EndVotingKept
  <2> QED BY <1>1, <2>1, <2>2 DEF Ending, EndVoting, InternalReset
<1>5. CASE m_bStarted /\ ~NobodyVotes
  <2>1. stack' = Caller /\ m_displayTimer' = TRUE /\ timers' = timers + 1 /\ UNCHANGED <<m_pCurMenu, m_ClientVotes>>
    BY <1>5 DEF VoteStarted
  <2> QED BY <1>1, <1>2, <1>5, <2>1 DEF SetsTimer
<1> QED BY <1>3, <1>4, <1>5

\* A step that leaves the vote and its timer alone.
Untimed == StartsKept(stack') /\ UNCHANGED <<m_pCurMenu, m_displayTimer, timers>>

LEMMA RedrawUntimed ==
  ASSUME IInv, NEW c \in Clients, NEW b \in BOOLEAN, RedrawToClient(c, b)
  PROVE  Untimed /\ Kept(stack')
<1>1. /\ IsVoteInProgress /\ Display(c, m_pCurMenu, "vote", stack)
      /\ UNCHANGED <<m_pCurMenu, m_displayTimer, timers>>
  BY DEF RedrawToClient
<1>2. Kept(stack')
  BY <1>1, KeptSame, NotGone, DisplayKept DEF IsVoteInProgress
<1> QED BY <1>1, <1>2 DEF Untimed, Kept

LEMMA PressedUntimed ==
  ASSUME IInv, NEW c \in Clients,
         \E i \in Items : PressItem(c, i)
  PROVE  Untimed /\ Kept(stack') /\ stack = <<>> /\ player[c].bInMenu
<1> DEFINE f == Rooting(Call("ClientPressedKey", "OnMenuSelect", c, player[c].menu, player[c].mh))
<1>1. /\ stack = <<>> /\ player[c].bInMenu /\ UNCHANGED <<m_pCurMenu, m_displayTimer, timers>>
      /\ stack' = <<f>>
  BY DEF PressItem
<1>2. player[c].menu \in Menus /\ player[c].mh \in {"vote", "plugin"} /\ TypeOK
  BY <1>1, NotGone DEF IInv, TypeOK, CBaseMenuPlayer
<1>3. Tame(f)
  BY <1>2, TameRooted
<1> HIDE DEF f
<1>4. stack' = stack \o <<f>>
  BY <1>1
<1>5. Kept(stack')
  BY <1>3, <1>4, KeptSame, KeptCall
<1> QED BY <1>1, <1>5 DEF Untimed, Kept

LEMMA DoClientMenuUntimed ==
  ASSUME IInv, DoClientMenu
  PROVE  Untimed
<1>0. PICK c : c = Top.client
  OBVIOUS
<1>1. /\ stack # <<>> /\ Top.pc = "start" /\ UNCHANGED <<m_pCurMenu, m_displayTimer, timers>>
      /\ \/ stack' = At(stack, "OnMenuCancel")
         \/ stack' = At(stack, "render") \o <<>>
         \/ player[c].bInMenu /\ stack' = At(stack, "render") \o <<[CancelFrame(c, TRUE) EXCEPT !.old = TRUE]>>
  BY <1>0 DEF DoClientMenu, vote, OldMenu
<1>2. c \in Clients
  BY <1>0, <1>1, TopClient
<1>3. StartsKept(At(stack, "OnMenuCancel")) /\ StartsKept(At(stack, "render"))
  BY <1>1, KeptAt
<1>4. CASE stack' = At(stack, "render") \o <<>>
  <2>1. stack' = At(stack, "render")
    BY <1>3, <1>4 DEF StartsKept
  <2> QED BY <1>1, <1>3, <2>1 DEF Untimed
<1>5. CASE player[c].bInMenu /\ stack' = At(stack, "render") \o <<[CancelFrame(c, TRUE) EXCEPT !.old = TRUE]>>
  <2>1. Tame([CancelFrame(c, TRUE) EXCEPT !.old = TRUE])
    BY <1>2, <1>5, TameCancel
  <2>2. StartsKept(stack')
    BY <1>3, <1>5, <2>1, KeptPush
  <2> QED BY <1>1, <2>2 DEF Untimed
<1> QED BY <1>1, <1>3, <1>4, <1>5 DEF Untimed

LEMMA RenderMenuUntimed ==
  ASSUME IInv, DrawItems \/ \E drawn \in BOOLEAN : RenderMenu(drawn)
  PROVE  Untimed
<1>1. /\ stack # <<>> /\ UNCHANGED <<m_pCurMenu, m_displayTimer, timers>>
      /\ \E pc \in {"OnMenuDrawItem", "OnMenuDisplay", "OnMenuCancel"} : stack' = At(stack, pc)
  BY DEF DrawItems, RenderMenu, vote
<1>2. \A pc \in {"OnMenuDrawItem", "OnMenuDisplay", "OnMenuCancel"} : StartsKept(At(stack, pc))
  BY <1>1, KeptAt
<1> QED BY <1>1, <1>2 DEF Untimed

LEMMA RedoClientMenuUntimed ==
  ASSUME IInv, RedoClientMenu(TRUE)
  PROVE  Untimed /\ Kept(stack')
<1>1. /\ stack # <<>> /\ Top.pc = "OnMenuRedrawItem" /\ stack' = At(stack, "OnMenuRedraw")
      /\ UNCHANGED <<m_pCurMenu, m_displayTimer, timers>>
  BY DEF RedoClientMenu
<1>2. Kept(stack')
  BY <1>1, NotLeaving, KeptAt
<1> QED BY <1>1, <1>2 DEF Untimed, Kept

LEMMA ReturnShownUntimed ==
  ASSUME IInv, ReturnShown
  PROVE  Untimed /\ Kept(stack')
<1>1. /\ stack # <<>> /\ Top.pc = "OnMenuDisplay" /\ stack' = Caller
      /\ UNCHANGED <<m_pCurMenu, m_displayTimer, timers>>
  BY DEF ReturnShown, vote
<1> QED BY <1>1, NotLeaving, KeptReturns DEF Untimed, Kept

\* The call of a client who leaves.
LEMMA LeavingCall ==
  ASSUME IInv, NEW c \in Clients, Disconnect(c)
  PROVE  /\ Untimed
         /\ \E f \in Frame : /\ f.proc = "Disconnect" /\ f.pc = "OnClientDisconnect_Post" /\ f.client = c
                             /\ Calls(stack') = Calls(stack) \cup {f}
<1> DEFINE f == Call("Disconnect", "OnClientDisconnect_Post", c, NULL, "plugin")
<1>1. stack' = stack \o <<f>> /\ UNCHANGED <<m_pCurMenu, m_displayTimer, timers>>
  BY DEF Disconnect, Native, vote
<1>2. "OnClientDisconnect_Post" \in Callbacks \cup {"loop", "start", "render", "end", "done", "delete", "listeners", "votes"}
  BY DEF Callbacks
<1>3. Parts(f, "Disconnect", "OnClientDisconnect_Post", c, NULL)
  BY <1>2, PlainCall
<1> HIDE DEF f
<1>4. f \in Frame /\ f.proc = "Disconnect" /\ f.pc = "OnClientDisconnect_Post" /\ f.client = c /\ stack \in Seq(Frame)
  BY <1>3 DEF Parts, IInv, TypeOK
<1>5. stack' = Append(stack, f) /\ ~Starts(f)
  BY <1>1, <1>4 DEF Starts, Early, Starting
<1>6. /\ stack' \in Seq(Frame) /\ Calls(stack') = Calls(stack) \cup {f}
      /\ OneStarts(stack) => OneStarts(stack')
  BY <1>4, <1>5, Push
<1>7. StartsKept(stack')
  BY <1>5, <1>6 DEF StartsKept
<1> QED BY <1>1, <1>4, <1>6, <1>7 DEF Untimed

LEMMA ListenersUntimed ==
  ASSUME IInv, NEW first \in BOOLEAN, Listeners(first)
  PROVE  Untimed
<1>0. PICK c, K : c = Top.client /\ K = IF first THEN Caller ELSE At(stack, "votes")
  OBVIOUS
<1>1. /\ stack # <<>> /\ Top.pc = "OnClientDisconnect_Post" /\ UNCHANGED <<m_pCurMenu, m_displayTimer, timers>>
      /\ stack' = K \o (IF player[c].bInMenu THEN <<CancelFrame(c, TRUE)>> ELSE <<>>)
  BY <1>0 DEF Listeners
<1>2. c \in Clients
  BY <1>0, <1>1, TopClient
<1>3. StartsKept(K)
  BY <1>0, <1>1, KeptReturns, KeptAt
<1>4. CASE player[c].bInMenu
  <2>1. Tame(CancelFrame(c, TRUE))
    BY <1>2, <1>4, TameCancel
  <2>2. StartsKept(stack')
    BY <1>1, <1>3, <1>4, <2>1, KeptPush
  <2> QED BY <1>1, <2>2 DEF Untimed
<1>5. CASE ~player[c].bInMenu
  <2>1. stack' = K
    BY <1>1, <1>3, <1>5 DEF StartsKept
  <2> QED BY <1>1, <1>3, <2>1 DEF Untimed
<1> QED BY <1>4, <1>5

LEMMA ListenersVotesUntimed ==
  ASSUME IInv, ListenersVotes
  PROVE  Untimed
<1>1. stack # <<>> /\ stack' = Caller /\ UNCHANGED <<m_pCurMenu, m_displayTimer, timers>>
  BY DEF ListenersVotes
<1> QED BY <1>1, KeptReturns DEF Untimed

LEMMA ConnectUntimed ==
  ASSUME IInv, NEW c \in Clients, Connect(c)
  PROVE  Untimed
<1>1. stack' = stack /\ UNCHANGED <<m_pCurMenu, m_displayTimer, timers>>
  BY DEF Connect, vote
<1> QED BY <1>1, KeptSame DEF Untimed, Kept

\* The clients that a vote is started for.
ClientLists == UNION {[1..n -> Clients] : n \in 0..Cardinality(Clients)}

\* Every step, as far as the timer is concerned.
LEMMA TimerSteps ==
  ASSUME IInv, [Next]_vars
  PROVE  Untimed \/ Ending \/ SetsTimer \/ \E m \in Votes, cs \in ClientLists : StartVote(m, cs)
<1> USE DEF ClientLists
<1>0. Ordinary => Untimed
  BY DEF Ordinary, Untimed, Kept
<1>1. CASE UNCHANGED vars
  <2>1. stack' = stack /\ UNCHANGED <<m_pCurMenu, m_displayTimer, timers>>
    BY <1>1 DEF vars, vote
  <2> QED BY <2>1, KeptSame DEF Untimed, Kept
<1>2. CASE \E m \in Menus : DestroyMenu(m)
  BY <1>0, <1>2, DestroyMenuOrdinary
<1>3. CASE Plugins
  <2>1. CASE \E m \in Menus : CloseMenu(m)
    BY <1>0, <2>1, CloseMenuOrdinary
  <2>2. CASE CancelVoting
    BY <1>0, <2>2, CancelVotingOrdinary
  <2>3. CASE \E c \in Clients : DisplayMenu(c)
    BY <1>0, <2>3, DisplayMenuOrdinary
  <2>4. CASE \E c \in Clients : Disconnect(c)
    BY <2>4, LeavingCall
  <2>5. CASE \E c \in Clients, b \in BOOLEAN : RedrawToClient(c, b)
    BY <2>5, RedrawUntimed
  <2>6. CASE \E c \in Clients, b \in BOOLEAN : CancelClientMenu(c, b)
    BY <1>0, <2>6, CancelClientMenuOrdinary
  <2> QED BY <1>3, <2>1, <2>2, <2>3, <2>4, <2>5, <2>6 DEF Plugins
<1>4. CASE Users
  <2>1. PICK c \in Clients :
          Connect(c) \/ PressExit(c) \/ (\E i \in Items : PressItem(c, i)) \/ PressPage(c)
    BY <1>4 DEF Users
  <2> QED BY <1>0, <2>1, ConnectUntimed, PressExitOrdinary, PressPageOrdinary, PressedUntimed
<1>5. CASE Proceed
  <2>1. CASE StartVoteLoop \/ VoteStarted
    BY <1>0, <2>1, StartVoteLoopOrdinary, VoteStartedOrdinary
  <2>2. CASE DoClientMenu \/ DrawItems \/ \E b \in BOOLEAN : RenderMenu(b)
    BY <2>2, DoClientMenuUntimed, RenderMenuUntimed
  <2>7. CASE \E b \in BOOLEAN : RedoClientMenu(b)
    BY <1>0, <2>7, RedoClientMenuUntimed, RedoClientMenuOrdinary
  <2>3. CASE ListenersVotes \/ \E b \in BOOLEAN : Listeners(b)
    BY <2>3, ListenersVotesUntimed, ListenersUntimed
  <2>4. CASE CancelMenu \/ InternalDelete \/ Return
    BY <1>0, <2>4, CancelMenuOrdinary, InternalDeleteOrdinary, ReturnOrdinary
  <2>5. CASE ReturnShown \/ ReturnRedrawn
    BY <1>0, <2>5, ReturnShownUntimed, ReturnRedrawnOrdinary
  <2>6. CASE DisplayEnds \/ Done
    BY <1>0, <2>6, DisplayEndsOrdinary, DoneOrdinary
  <2> QED BY <1>5, <2>1, <2>2, <2>3, <2>4, <2>5, <2>6, <2>7 DEF Proceed
<1>6. CASE \E c \in Clients : Timeout(c)
  BY <1>0, <1>6, TimeoutOrdinary
<1> QED BY <1>1, <1>2, <1>3, <1>4, <1>5, <1>6 DEF Next

LEMMA TimerThereStep ==
  ASSUME IInv, TimerThere, [Next]_vars
  PROVE  TimerThere'
<1>1. timers \in Nat
  BY DEF IInv, TypeOK
<1>2. CASE Untimed \/ Ending \/ SetsTimer
  <2>1. \/ m_displayTimer' = m_displayTimer /\ timers' = timers
        \/ m_displayTimer' = FALSE
        \/ timers' = timers + 1
    BY <1>2 DEF Untimed, Ending, SetsTimer
  <2>2. timers' = timers + 1 => timers' > 0
    BY <1>1
  <2>3. m_displayTimer' = FALSE => ~m_displayTimer'
    OBVIOUS
  <2> QED BY <2>1, <2>2, <2>3, Zenon DEF TimerThere
<1>3. CASE \E m \in Votes, cs \in ClientLists : StartVote(m, cs)
  BY <1>3 DEF StartVote, TimerThere
<1> QED BY <1>2, <1>3, TimerSteps

\* A vote is started when none is being started.
LEMMA StartsOne ==
  ASSUME IInv, "VoteInVoteStart" \notin Habits, NEW m \in Votes, NEW cs \in ClientLists, StartVote(m, cs)
  PROVE  /\ OneStarts(stack) => OneStarts(stack')
         /\ m_pCurMenu = NULL /\ m_pCurMenu' # NULL /\ m_displayTimer' = FALSE /\ timers' = timers
<1> DEFINE g == Call("StartVote", "OnMenuStart", NULL, m, "plugin")
           f == Looping(g, cs)
<1>1. /\ m_pCurMenu = NULL /\ m_pCurMenu' = m /\ m_displayTimer' = FALSE /\ timers' = timers
      /\ \A i \in DOMAIN stack : stack[i].pc # "OnMenuVoteStart"
      /\ stack' = stack \o <<f>>
  BY DEF StartVote, Native, IsVoteInProgress, Looping
<1>2. \A h \in Calls(stack) : ~Starts(h)
  <2>1. \A h \in Calls(stack) : ~Early(h)
    BY <1>1, NoVoteNoDisplay
  <2>2. \A h \in Calls(stack) : ~Starting(h)
    <3>1. DOMAIN stack = 1..Len(stack)
      BY DEF IInv, TypeOK
    <3> QED BY <1>1, <3>1 DEF Calls, Starting
  <2> QED BY <2>1, <2>2 DEF Starts
<1>3. cs \in Seq(Clients)
  BY FS_CardinalityType, CountClients DEF ClientLists
<1>4. Parts(g, "StartVote", "OnMenuStart", NULL, m)
  <2>1. "OnMenuStart" \in Callbacks \cup {"loop", "start", "render", "end", "done", "delete", "listeners", "votes"}
    BY DEF Callbacks
  <2> QED BY <2>1, PlainCall DEF Menus
<1> HIDE DEF g
<1>5. f \in Frame
  BY <1>3, <1>4, LoopCall DEF Parts
<1> HIDE DEF f
<1>6. stack' = Append(stack, f) /\ stack \in Seq(Frame)
  BY <1>1, <1>5 DEF IInv, TypeOK
<1>7. OneStarts(stack) => OneStarts(stack')
  BY <1>2, <1>5, <1>6, Push
<1> QED BY <1>1, <1>7, VotingAssumption

LEMMA TimersStep ==
  ASSUME IInv, TimersOK, "VoteInVoteStart" \notin Habits, [Next]_vars
  PROVE  TimersOK'
<1>1. /\ timers = IF m_displayTimer THEN 1 ELSE 0
      /\ m_displayTimer => m_pCurMenu # NULL
      /\ m_displayTimer \in BOOLEAN
  BY DEF TimersOK, TimerOK, IsVoteInProgress, IInv, TypeOK
<1>2. CASE Untimed
  <2>1. TimerOK'
    BY <1>1, <1>2 DEF Untimed, TimerOK, IsVoteInProgress
  <2> QED BY <1>2, <2>1 DEF Untimed, StartsKept, TimersOK
<1>3. CASE Ending
  <2>1. TimerOK'
    BY <1>1, <1>3 DEF Ending, TimerOK, IsVoteInProgress, TimersLeft
  <2> QED BY <1>3, <2>1 DEF Ending, Kept, StartsKept, TimersOK
<1>4. CASE SetsTimer
  <2>1. /\ stack # <<>> /\ Starting(Top) /\ stack' = Caller /\ m_bStarted /\ m_displayTimer' = TRUE /\ timers' = timers + 1
        /\ m_pCurMenu' = m_pCurMenu
    BY <1>4 DEF SetsTimer
  <2>2. /\ Top \in Calls(stack) /\ Starts(Top) /\ OneStarts(Caller) /\ \A g \in Calls(Caller) : ~Starts(g)
    BY <2>1, Pop DEF TimersOK, IInv, TypeOK, Top, Caller, Starts
  <2>3. ~m_displayTimer
    BY <2>2 DEF TimersOK
  <2>4. m_pCurMenu # NULL
    BY <2>1 DEF IInv, VoteOK
  <2>5. TimerOK'
    BY <1>1, <2>1, <2>3, <2>4 DEF TimerOK, IsVoteInProgress
  <2> QED BY <2>1, <2>2, <2>5 DEF TimersOK
<1>5. CASE \E m \in Votes, cs \in ClientLists : StartVote(m, cs)
  <2>1. /\ OneStarts(stack) => OneStarts(stack')
        /\ m_pCurMenu = NULL /\ m_pCurMenu' # NULL /\ m_displayTimer' = FALSE /\ timers' = timers
    BY <1>5, StartsOne
  <2>2. TimerOK'
    BY <1>1, <2>1 DEF TimerOK
  <2> QED BY <2>1, <2>2 DEF TimersOK
<1> QED BY <1>2, <1>3, <1>4, <1>5, TimerSteps

-----------------------------------------------------------------------------
(* Clients who leave.                                                      *)

\* Client c is leaving, in one of the calls K.
Leaves(K, c) == \E f \in Calls(K) : f.proc = "Disconnect" /\ f.client = c

\* What the vote knows of client c.
Pooled(c) ==
  /\ m_ClientVotes[c] > VOTE_NOT_VOTING => c \in inGame \/ Leaves(stack, c)
  /\ InVoteMenu(c) /\ ~Leaves(stack, c) => c \in inGame /\ m_ClientVotes[c] = VOTE_PENDING

\* What holds of a call.
CallOK(f) ==
  /\ f.proc = "Disconnect" => f.client \notin inGame /\ (f.pc = "votes" => ~player[f.client].bInMenu)
  /\ Displaying(f) => f.client \in inGame
  /\ f.pc = "OnMenuDisplay" /\ f.mh = "vote" => m_ClientVotes[f.client] = VOTE_PENDING

LEMMA LeaversView ==
  ASSUME IInv, LeaversOK
  PROVE  /\ IsVoteInProgress => \A c \in Clients : Pooled(c)
         /\ \A c \in Clients : InVoteMenu(c) => IsVoteInProgress
         /\ \A f \in Calls(stack) : CallOK(f) /\ (f.proc = "Disconnect" \/ Displaying(f) => f.client \in Clients)
<1>1. DOMAIN stack = 1..Len(stack)
  BY DEF IInv, TypeOK
<1>2. \A c : Leaving(c) <=> Leaves(stack, c)
  BY <1>1 DEF Leaving, Leaves, Calls
<1>3. \A c \in Clients : InVoteMenu(c) => IsVoteInProgress
  BY NotGone, VotingAssumption DEF IInv, VoteOK, IsVoteInProgress, InVoteMenu, Menus
<1>4. \A f \in Calls(stack) : f.proc = "Disconnect" \/ Displaying(f) => f.client \in Clients
  <2>1. \A f \in Calls(stack) : Shape(f) /\ f \in Frame
    BY AllShapes DEF IInv, TypeOK
  <2>2. \A f \in Frame : f.proc \in {"StartVote", "DoClientMenu", "_CancelClientMenu", "ClientPressedKey", "EndVoting",
                      "Cancel", "Destroy", "Disconnect"}
    BY DEF Frame
  <2> QED BY <2>1, <2>2 DEF Shape, Displaying
<1> QED BY <1>2, <1>3, <1>4 DEF LeaversOK, PoolOK, Pooled, CallOK

LEMMA LeaversNext ==
  ASSUME IInv', IsVoteInProgress' => \A c \in Clients : Pooled(c)', \A f \in Calls(stack') : CallOK(f)'
  PROVE  LeaversOK'
<1>1. stack' \in Seq(Frame) /\ FramesOK(stack')
  BY DEF IInv, TypeOK
<1>2. DOMAIN stack' = 1..Len(stack')
  BY <1>1
<1>3. \A c : Leaving(c)' <=> Leaves(stack, c)'
  BY <1>2 DEF Leaving, Leaves, Calls
<1>4. \A f \in Calls(stack') : f.pc = "votes" => f.proc = "Disconnect"
  <2>1. \A f \in Calls(stack') : Shape(f) /\ f \in Frame
    BY <1>1, AllShapes
  <2>2. \A f \in Frame : f.proc \in {"StartVote", "DoClientMenu", "_CancelClientMenu", "ClientPressedKey", "EndVoting",
                      "Cancel", "Destroy", "Disconnect"}
    BY DEF Frame
  <2> QED BY <2>1, <2>2 DEF Shape
<1>5. PoolOK'
  BY <1>3 DEF PoolOK, Pooled
<1> QED BY <1>4, <1>5 DEF LeaversOK, CallOK

\* Nobody leaves; menus are drawn, entered and voted in only by clients in the
\* game.
LEMMA NobodyLeaves ==
  ASSUME IInv, IInv', LeaversOK, inGame' = inGame, IsVoteInProgress' => IsVoteInProgress,
         \A f \in Calls(stack') : f.proc = "Disconnect" => f \in Calls(stack),
         \A g \in Calls(stack) : g.proc = "Disconnect" => g \in Calls(stack'),
         \A f \in Calls(stack') : Displaying(f) =>
           \/ f \in Calls(stack)
           \/ f.client \in inGame /\ (f.pc = "OnMenuDisplay" /\ f.mh = "vote" => m_ClientVotes'[f.client] = VOTE_PENDING),
         \A c \in Clients : player'[c].bInMenu => player[c].bInMenu \/ c \in inGame,
         \A c \in Clients : m_ClientVotes'[c] > VOTE_NOT_VOTING => m_ClientVotes[c] > VOTE_NOT_VOTING \/ c \in inGame,
         \A c \in Clients : InVoteMenu(c)' =>
           \/ InVoteMenu(c) /\ (m_ClientVotes'[c] = m_ClientVotes[c] \/ m_ClientVotes'[c] = VOTE_PENDING)
           \/ c \in inGame /\ m_ClientVotes'[c] = VOTE_PENDING,
         \A f \in Calls(stack) : Displaying(f) => m_ClientVotes'[f.client] \in {m_ClientVotes[f.client], VOTE_PENDING}
  PROVE  LeaversOK'
<1>1. /\ IsVoteInProgress => \A c \in Clients : Pooled(c)
      /\ \A f \in Calls(stack) : CallOK(f) /\ (f.proc = "Disconnect" \/ Displaying(f) => f.client \in Clients)
  BY LeaversView
<1>2. \A c : Leaves(stack, c)' <=> Leaves(stack, c)
  BY DEF Leaves
<1>3. IsVoteInProgress' => \A c \in Clients : Pooled(c)'
  BY <1>1, <1>2 DEF Pooled
<1>4. ASSUME NEW f \in Calls(stack') PROVE CallOK(f)'
  <2>1. f.proc = "Disconnect" => f.client \notin inGame' /\ (f.pc = "votes" => ~player'[f.client].bInMenu)
    BY <1>1 DEF CallOK
  <2>2. Displaying(f) => f.client \in inGame'
    BY <1>1 DEF CallOK
  <2>3. f.pc = "OnMenuDisplay" => Displaying(f)
    BY DEF Displaying
  <2>4. f.pc = "OnMenuDisplay" /\ f.mh = "vote" => m_ClientVotes'[f.client] = VOTE_PENDING
    BY <1>1, <2>3 DEF CallOK
  <2> QED BY <2>1, <2>2, <2>4 DEF CallOK
<1> QED BY <1>3, <1>4, LeaversNext

LEMMA OrdinaryLeavers ==
  ASSUME IInv, IInv', LeaversOK, Ordinary \/ Ending \/ SetsTimer
  PROVE  LeaversOK'
<1>1. /\ LeavesKept(stack') /\ inGame' = inGame /\ m_ClientVotes' = m_ClientVotes
      /\ IsVoteInProgress' => IsVoteInProgress
      /\ SeesLess(Clients)
  BY SeesSame DEF Ordinary, Ending, SetsTimer, Kept, IsVoteInProgress
<1>2. \A c \in Clients : InVoteMenu(c)' => InVoteMenu(c)
  BY <1>1 DEF SeesLess, InVoteMenu
<1> QED BY <1>1, <1>2, NobodyLeaves DEF LeavesKept, SeesLess

LEMMA RedrawLeavers ==
  ASSUME IInv, IInv', LeaversOK, NEW c \in Clients, NEW b \in BOOLEAN, RedrawToClient(c, b)
  PROVE  LeaversOK'
<1>1. /\ m_ClientVotes[c] > VOTE_NOT_VOTING /\ UNCHANGED <<inGame, player, m_pCurMenu>>
      /\ m_ClientVotes' = m_ClientVotes \/ m_ClientVotes' = [m_ClientVotes EXCEPT ![c] = VOTE_PENDING]
  BY DEF RedrawToClient
<1>2. LeavesKept(stack')
  BY RedrawUntimed DEF Kept
<1>3. m_ClientVotes \in [Clients -> VOTE_NOT_VOTING..(NItems - 1)]
  BY DEF IInv, TypeOK
<1>4. \A d \in Clients : m_ClientVotes'[d] = m_ClientVotes[d] \/ (d = c /\ m_ClientVotes'[d] = VOTE_PENDING)
  BY <1>1, <1>3
<1>5. \A d \in Clients : InVoteMenu(d)' => InVoteMenu(d)
  BY <1>1 DEF InVoteMenu
<1>6. \A f \in Calls(stack) : Displaying(f) => f.client \in Clients
  BY LeaversView
<1> QED BY <1>1, <1>2, <1>4, <1>5, <1>6, NobodyLeaves DEF LeavesKept, IsVoteInProgress

LEMMA PressedLeavers ==
  ASSUME IInv, IInv', LeaversOK, NEW c \in Clients, \E i \in Items : PressItem(c, i)
  PROVE  LeaversOK'
<1>1. LeavesKept(stack') /\ stack = <<>> /\ player[c].bInMenu
  BY PressedUntimed DEF Kept
<1>2. Calls(stack) = {} /\ m_ClientVotes \in [Clients -> VOTE_NOT_VOTING..(NItems - 1)]
  BY <1>1, NoCalls DEF IInv, TypeOK
<1>3. /\ UNCHANGED <<inGame, m_pCurMenu>> /\ player' = [player EXCEPT ![c].bInMenu = FALSE]
      /\ m_ClientVotes' = m_ClientVotes \/ (player[c].mh = "vote" /\ \E x : m_ClientVotes' = [m_ClientVotes EXCEPT ![c] = x])
  BY DEF PressItem
<1>4. ~player'[c].bInMenu /\ \A d \in Clients : d # c => player'[d] = player[d]
  BY <1>3, SeesNone
<1>5. player[c].mh = "vote" => c \in inGame
  <2>1. ~Leaves(stack, c)
    BY <1>2 DEF Leaves
  <2> QED BY <1>1, <2>1, LeaversView DEF InVoteMenu, Pooled
<1>6. \A d \in Clients : m_ClientVotes'[d] = m_ClientVotes[d] \/ (d = c /\ player[c].mh = "vote")
  BY <1>2, <1>3
<1>7. \A d \in Clients : InVoteMenu(d)' => InVoteMenu(d) /\ m_ClientVotes'[d] = m_ClientVotes[d]
  BY <1>4, <1>6 DEF InVoteMenu
<1>8. \A d \in Clients : m_ClientVotes'[d] > VOTE_NOT_VOTING => m_ClientVotes[d] > VOTE_NOT_VOTING \/ d \in inGame
  BY <1>5, <1>6
<1>9. \A d \in Clients : player'[d].bInMenu => player[d].bInMenu
  BY <1>4
<1> QED BY <1>1, <1>2, <1>3, <1>7, <1>8, <1>9, NobodyLeaves DEF LeavesKept, IsVoteInProgress

\* Another page of the vote is drawn: the client is in the game.
LEMMA RedoClientMenuLeavers ==
  ASSUME IInv, IInv', LeaversOK, RedoClientMenu(TRUE)
  PROVE  LeaversOK'
<1>0. PICK c : c = Top.client
  OBVIOUS
<1>1. /\ stack # <<>> /\ Top.pc = "OnMenuRedrawItem" /\ UNCHANGED <<inGame, player, m_pCurMenu>>
      /\ m_ClientVotes' = IF Top.mh = "vote" THEN [m_ClientVotes EXCEPT ![c] = VOTE_PENDING] ELSE m_ClientVotes
  BY <1>0 DEF RedoClientMenu
<1>2. LeavesKept(stack')
  BY RedoClientMenuUntimed DEF Kept
<1>3. c \in Clients /\ Top.proc = "ClientPressedKey" /\ Calls(stack) = {Top}
  <2>1. c \in Clients /\ Top.proc = "ClientPressedKey"
    BY <1>0, <1>1, TopClient
  <2> QED BY <1>1, <2>1, TopView DEF Fits
<1>4. Top.mh = "vote" => c \in inGame
  <2>1. Rendering(Top) /\ Redrawing(Top)
    BY <1>1 DEF Rendering, Redrawing
  <2>2. player[c].bInMenu /\ player[c].mh = Top.mh
    BY <1>0, <1>1, <2>1, DrawsAlone
  <2>3. ~Leaves(stack, c)
    BY <1>3 DEF Leaves
  <2> QED BY <1>3, <2>2, <2>3, LeaversView DEF InVoteMenu, Pooled
<1>5. m_ClientVotes \in [Clients -> VOTE_NOT_VOTING..(NItems - 1)]
  BY DEF IInv, TypeOK
<1>6. \A d \in Clients : m_ClientVotes'[d] = m_ClientVotes[d] \/ (d = c /\ d \in inGame /\ m_ClientVotes'[d] = VOTE_PENDING)
  BY <1>1, <1>3, <1>4, <1>5
<1>7. \A d \in Clients : InVoteMenu(d)' => InVoteMenu(d)
  BY <1>1 DEF InVoteMenu
<1>8. \A f \in Calls(stack) : Displaying(f) => f.client \in Clients
  BY LeaversView
<1> QED BY <1>1, <1>2, <1>6, <1>7, <1>8, NobodyLeaves DEF LeavesKept, IsVoteInProgress

LEMMA ReturnShownLeavers ==
  ASSUME IInv, IInv', LeaversOK, ReturnShown
  PROVE  LeaversOK'
<1>0. PICK c : c = Top.client
  OBVIOUS
<1>1. /\ stack # <<>> /\ Top.pc = "OnMenuDisplay" /\ player' = Shown(c)
      /\ UNCHANGED <<inGame, m_pCurMenu, m_ClientVotes>>
  BY <1>0 DEF ReturnShown, vote
<1>2. LeavesKept(stack')
  BY ReturnShownUntimed DEF Kept
<1>3. /\ c \in Clients /\ Top \in Calls(stack) /\ Displaying(Top) /\ Rendering(Top)
      /\ player \in [Clients -> CBaseMenuPlayer] /\ player[c] \in CBaseMenuPlayer
  BY <1>0, <1>1, TopClient, TopView DEF IInv, TypeOK, Displaying, Rendering
<1>4. c \in inGame /\ (Top.mh = "vote" => m_ClientVotes[c] = VOTE_PENDING)
  BY <1>0, <1>1, <1>3, LeaversView DEF CallOK
<1>5. player[c].mh = Top.mh
  BY <1>0, <1>1, <1>3, DrawsAlone
<1>6. \A d \in Clients : d # c => player'[d] = player[d]
  BY <1>1, <1>3 DEF Shown
<1>7. player'[c].mh = player[c].mh
  <2>1. player'[c] = [player[c] EXCEPT !.bInMenu = TRUE, !.bAutoIgnore = FALSE]
    BY <1>1, <1>3 DEF Shown
  <2> QED BY <1>3, <2>1 DEF CBaseMenuPlayer
<1>8. \A d \in Clients : InVoteMenu(d)' => InVoteMenu(d) \/ (d \in inGame /\ m_ClientVotes'[d] = VOTE_PENDING)
  BY <1>1, <1>4, <1>5, <1>6, <1>7 DEF InVoteMenu
<1>9. \A d \in Clients : player'[d].bInMenu => player[d].bInMenu \/ d \in inGame
  BY <1>4, <1>6
<1> QED BY <1>1, <1>2, <1>8, <1>9, NobodyLeaves DEF LeavesKept, IsVoteInProgress

\* A menu is drawn for a client in the game.
LEMMA DrawnLeavers ==
  ASSUME IInv, IInv', LeaversOK, stack # <<>>, Displaying(Top), NEW c, c = Top.client,
         NEW pc \in {"OnMenuDrawItem", "OnMenuDisplay", "OnMenuCancel"}, stack' = At(stack, pc),
         UNCHANGED <<inGame, m_pCurMenu>>, ~player'[c].bInMenu,
         \A d \in Clients : d # c => player'[d] = player[d] /\ m_ClientVotes'[d] = m_ClientVotes[d],
         m_ClientVotes'[c] = m_ClientVotes[c] \/ m_ClientVotes'[c] = VOTE_PENDING,
         pc = "OnMenuDisplay" /\ Top.mh = "vote" => m_ClientVotes'[c] = VOTE_PENDING
  PROVE  LeaversOK'
<1>1. /\ c \in Clients /\ Top.proc = "DoClientMenu" /\ Top \in Calls(stack)
      /\ Calls(stack) = Calls(Caller) \cup {Top}
  BY TopClient, TopView DEF Displaying
<1>2. c \in inGame
  BY <1>1, LeaversView DEF CallOK
<1>3. PICK t \in Frame : /\ t.pc = pc /\ t.proc = Top.proc /\ t.client = Top.client /\ t.mh = Top.mh
                         /\ Caller \in Seq(Frame) /\ stack' = Append(Caller, t)
  BY KeptAt
<1>4. Calls(stack') = Calls(Caller) \cup {t}
  BY <1>3, Push
<1>5. \A d \in Clients : InVoteMenu(d)' => InVoteMenu(d) /\ m_ClientVotes'[d] = m_ClientVotes[d]
  BY DEF InVoteMenu
<1>6. \A f \in Calls(stack') : Displaying(f) =>
         \/ f \in Calls(stack)
         \/ f.client \in inGame /\ (f.pc = "OnMenuDisplay" /\ f.mh = "vote" => m_ClientVotes'[f.client] = VOTE_PENDING)
  BY <1>1, <1>2, <1>3, <1>4
<1>7. /\ \A f \in Calls(stack') : f.proc = "Disconnect" => f \in Calls(stack)
      /\ \A g \in Calls(stack) : g.proc = "Disconnect" => g \in Calls(stack')
  BY <1>1, <1>3, <1>4
<1>8. \A f \in Calls(stack) : Displaying(f) => m_ClientVotes'[f.client] \in {m_ClientVotes[f.client], VOTE_PENDING}
  BY LeaversView
<1>9. \A d \in Clients : m_ClientVotes'[d] > VOTE_NOT_VOTING => m_ClientVotes[d] > VOTE_NOT_VOTING \/ d \in inGame
  BY <1>2
<1>10. \A d \in Clients : player'[d].bInMenu => player[d].bInMenu \/ d \in inGame
  BY <1>2
<1> QED BY <1>5, <1>6, <1>7, <1>8, <1>9, <1>10, NobodyLeaves DEF IsVoteInProgress

LEMMA RenderMenuLeavers ==
  ASSUME IInv, IInv', LeaversOK, DrawItems \/ \E drawn \in BOOLEAN : RenderMenu(drawn)
  PROVE  LeaversOK'
<1>0. PICK c : c = Top.client
  OBVIOUS
<1>1. /\ stack # <<>> /\ Top.pc \in {"render", "OnMenuDrawItem"} /\ UNCHANGED <<inGame, m_pCurMenu>>
      /\ \/ player' = player
         \/ player' = [player EXCEPT ![c].menu = Top.menu, ![c].mh = Top.mh]
         \/ player' = [player EXCEPT ![c].bAutoIgnore = FALSE, ![c].bInMenu = FALSE]
      /\ \E pc \in {"OnMenuDrawItem", "OnMenuDisplay", "OnMenuCancel"} :
           /\ stack' = At(stack, pc)
           /\ m_ClientVotes' = IF pc = "OnMenuDisplay" /\ Top.mh = "vote"
                               THEN [m_ClientVotes EXCEPT ![c] = VOTE_PENDING] ELSE m_ClientVotes
  BY <1>0 DEF RenderMenu, DrawItems, vote
<1>2. c \in Clients /\ Displaying(Top) /\ Rendering(Top) /\ ~Redrawing(Top)
  BY <1>0, <1>1, TopClient DEF Displaying, Rendering, Redrawing
<1>3. ~player[c].bInMenu
  BY <1>0, <1>1, <1>2, DrawsAlone
<1>4. /\ player \in [Clients -> CBaseMenuPlayer] /\ player[c] \in CBaseMenuPlayer
      /\ m_ClientVotes \in [Clients -> VOTE_NOT_VOTING..(NItems - 1)]
  BY <1>2 DEF IInv, TypeOK
<1>5. ~player'[c].bInMenu
  <2>1. CASE player' = [player EXCEPT ![c].menu = Top.menu, ![c].mh = Top.mh]
    <3>1. player'[c] = [player[c] EXCEPT !.menu = Top.menu, !.mh = Top.mh]
      BY <1>2, <1>4, <2>1
    <3>2. player'[c].bInMenu = player[c].bInMenu
      BY <1>4, <3>1 DEF CBaseMenuPlayer
    <3> QED BY <1>3, <3>2
  <2>2. CASE player' = [player EXCEPT ![c].bAutoIgnore = FALSE, ![c].bInMenu = FALSE]
    BY <1>2, <2>2, SeesNone
  <2> QED BY <1>1, <1>3, <2>1, <2>2
<1>6. \A d \in Clients : d # c => player'[d] = player[d]
  BY <1>1, <1>4
<1>7. PICK pc \in {"OnMenuDrawItem", "OnMenuDisplay", "OnMenuCancel"} :
           /\ stack' = At(stack, pc)
           /\ m_ClientVotes' = IF pc = "OnMenuDisplay" /\ Top.mh = "vote"
                               THEN [m_ClientVotes EXCEPT ![c] = VOTE_PENDING] ELSE m_ClientVotes
  BY <1>1
<1>8. /\ \A d \in Clients : d # c => m_ClientVotes'[d] = m_ClientVotes[d]
      /\ m_ClientVotes'[c] = m_ClientVotes[c] \/ m_ClientVotes'[c] = VOTE_PENDING
      /\ pc = "OnMenuDisplay" /\ Top.mh = "vote" => m_ClientVotes'[c] = VOTE_PENDING
  BY <1>2, <1>4, <1>7
<1> QED BY <1>0, <1>1, <1>2, <1>5, <1>6, <1>7, <1>8, DrawnLeavers

LEMMA DoClientMenuLeavers ==
  ASSUME IInv, IInv', LeaversOK, DoClientMenu
  PROVE  LeaversOK'
<1>0. PICK c : c = Top.client
  OBVIOUS
<1>1. /\ stack # <<>> /\ Top.pc = "start" /\ UNCHANGED <<inGame, m_pCurMenu, m_ClientVotes>>
      /\ \/ stack' = At(stack, "OnMenuCancel") /\ player' = player
         \/ /\ c \in inGame
            /\ \/ player[c].bInMenu /\ stack' = At(stack, "render") \o <<[CancelFrame(c, TRUE) EXCEPT !.old = TRUE]>>
               \/ stack' = At(stack, "render") \o <<>>
            /\ \/ player' = [player EXCEPT ![c].bInMenu = FALSE, ![c].bAutoIgnore = TRUE]
               \/ player' = [player EXCEPT ![c].bAutoIgnore = TRUE]
  BY <1>0 DEF DoClientMenu, vote, OldMenu
<1>2. c \in Clients /\ Top.proc = "DoClientMenu" /\ Calls(stack) = Calls(Caller) \cup {Top} /\ Caller \in Seq(Frame)
  BY <1>0, <1>1, TopClient, TopView
<1>3. SeesLess(Clients)
  BY <1>1, <1>2, SeesSame, SeesNone, SeesOn
<1>4. \A d \in Clients : (InVoteMenu(d)' => InVoteMenu(d)) /\ (player'[d].bInMenu => player[d].bInMenu)
  BY <1>3 DEF SeesLess, InVoteMenu
<1>5. /\ \A f \in Calls(stack') : f.proc = "Disconnect" => f \in Calls(stack)
      /\ \A g \in Calls(stack) : g.proc = "Disconnect" => g \in Calls(stack')
      /\ \A f \in Calls(stack') : Displaying(f) =>
           f \in Calls(stack) \/ (f.client \in inGame /\ f.pc # "OnMenuDisplay")
  <2>1. CASE stack' = At(stack, "OnMenuCancel")
    <3>1. Kept(stack')
      BY <1>1, <1>2, <2>1, KeptAt
    <3> QED BY <3>1 DEF Kept, LeavesKept
  <2>2. CASE c \in inGame /\ (stack' = At(stack, "render") \o <<>> \/
               (player[c].bInMenu /\ stack' = At(stack, "render") \o <<[CancelFrame(c, TRUE) EXCEPT !.old = TRUE]>>))
    <3>1. PICK t \in Frame : /\ t.pc = "render" /\ t.proc = Top.proc /\ t.client = Top.client
                             /\ At(stack, "render") = Append(Caller, t)
      BY <1>1, KeptAt
    <3>2. StartsKept(At(stack, "render"))
      BY <1>1, KeptAt
    <3>3. Calls(At(stack, "render")) = Calls(Caller) \cup {t}
      BY <1>2, <3>1, Push
    <3>4. CASE stack' = At(stack, "render") \o <<>>
      <4>1. stack' = At(stack, "render")
        BY <3>2, <3>4 DEF StartsKept
      <4> QED BY <1>0, <1>2, <2>2, <3>1, <3>3, <4>1
    <3>5. CASE player[c].bInMenu /\ stack' = At(stack, "render") \o <<[CancelFrame(c, TRUE) EXCEPT !.old = TRUE]>>
      <4> DEFINE f == [CancelFrame(c, TRUE) EXCEPT !.old = TRUE]
      <4>1. Tame(f)
        BY <1>2, <3>5, TameCancel
      <4> HIDE DEF f
      <4>2. Calls(stack') = Calls(Caller) \cup {t} \cup {f}
        <5>1. stack' = At(stack, "render") \o <<f>>
          BY <3>5 DEF f
        <5> QED BY <3>2, <3>3, <4>1, <5>1, KeptPush
      <4>3. f.proc # "Disconnect" /\ ~Displaying(f)
        BY <4>1 DEF Tame
      <4> QED BY <1>0, <1>2, <2>2, <3>1, <4>2, <4>3
    <3> QED BY <2>2, <3>4, <3>5
  <2> QED BY <1>1, <2>1, <2>2
<1> QED BY <1>1, <1>4, <1>5, NobodyLeaves DEF IsVoteInProgress

LEMMA ConnectLeavers ==
  ASSUME IInv, IInv', LeaversOK, NEW c \in Clients, Connect(c)
  PROVE  LeaversOK'
<1>1. /\ stack = <<>> /\ stack' = stack /\ inGame' = inGame \cup {c} /\ UNCHANGED <<player, m_pCurMenu, m_ClientVotes>>
  BY DEF Connect, vote
<1>2. Calls(stack) = {} /\ Calls(stack') = {}
  BY <1>1, NoCalls
<1>3. \A d \in Clients : Leaves(stack, d)' <=> Leaves(stack, d)
  BY <1>1
<1>4. IsVoteInProgress' => \A d \in Clients : Pooled(d)'
  BY <1>1, <1>3, LeaversView DEF Pooled, IsVoteInProgress, InVoteMenu
<1> QED BY <1>2, <1>4, LeaversNext

LEMMA DisconnectLeavers ==
  ASSUME IInv, IInv', LeaversOK, "KickInDisplay" \notin Habits, NEW c \in Clients, Disconnect(c)
  PROVE  LeaversOK'
<1>1. /\ inGame' = inGame \ {c} /\ UNCHANGED <<player, m_pCurMenu, m_ClientVotes>>
      /\ \A i \in DOMAIN stack : stack[i].client = c => stack[i].pc \notin {"render", "OnMenuDrawItem", "OnMenuDisplay"}
  BY DEF Disconnect, vote
<1>2. PICK f \in Frame : /\ f.proc = "Disconnect" /\ f.pc = "OnClientDisconnect_Post" /\ f.client = c
                         /\ Calls(stack') = Calls(stack) \cup {f}
  BY LeavingCall
<1>3. \A g \in Calls(stack) : g.client = c => ~Displaying(g)
  <2>1. DOMAIN stack = 1..Len(stack)
    BY DEF IInv, TypeOK
  <2> QED BY <1>1, <2>1 DEF Calls, Displaying
<1>4. /\ IsVoteInProgress => \A d \in Clients : Pooled(d)
      /\ \A g \in Calls(stack) : CallOK(g)
  BY LeaversView
<1>5. \A d \in Clients : Leaves(stack, d)' <=> d = c \/ Leaves(stack, d)
  BY <1>2 DEF Leaves
<1>6. IsVoteInProgress' => \A d \in Clients : Pooled(d)'
  BY <1>1, <1>4, <1>5 DEF Pooled, IsVoteInProgress, InVoteMenu
<1>7. ASSUME NEW g \in Calls(stack) PROVE CallOK(g)'
  BY <1>1, <1>3, <1>4 DEF CallOK
<1>8. CallOK(f)'
  BY <1>1, <1>2 DEF CallOK, Displaying
<1> QED BY <1>2, <1>6, <1>7, <1>8, LeaversNext

\* The vote of client c is wiped, who is leaving and is in no menu.
LEMMA WipedLeavers ==
  ASSUME IInv, IInv', LeaversOK, NEW c \in Clients, c \notin inGame, UNCHANGED <<inGame, m_pCurMenu>>,
         IsVoteInProgress /\ ~Leaves(stack, c)' => m_ClientVotes'[c] = VOTE_NOT_VOTING,
         \A d \in Clients : d # c => m_ClientVotes'[d] = m_ClientVotes[d] /\ player'[d] = player[d],
         ~player'[c].bInMenu,
         \A d \in Clients : d # c => (Leaves(stack, d)' <=> Leaves(stack, d)),
         \A f \in Calls(stack') : f \in Calls(stack) \/ (~Displaying(f) /\ (f.proc = "Disconnect" => f.client = c))
  PROVE  LeaversOK'
<1>1. /\ IsVoteInProgress => \A d \in Clients : Pooled(d)
      /\ \A f \in Calls(stack) : CallOK(f) /\ (f.proc = "Disconnect" \/ Displaying(f) => f.client \in Clients)
  BY LeaversView
<1>2. ~(VOTE_NOT_VOTING > VOTE_NOT_VOTING)
  BY DEF VOTE_NOT_VOTING
<1>3. ASSUME IsVoteInProgress', NEW d \in Clients PROVE Pooled(d)'
  <2>1. CASE d = c
    BY <1>2, <1>3, <2>1 DEF Pooled, IsVoteInProgress, InVoteMenu
  <2>2. CASE d # c
    BY <1>1, <1>3, <2>2 DEF Pooled, IsVoteInProgress, InVoteMenu
  <2> QED BY <2>1, <2>2
<1>4. ASSUME NEW f \in Calls(stack') PROVE CallOK(f)'
  <2>1. CASE f \in Calls(stack)
    <3>1. Displaying(f) => f.client \in inGame /\ f.client # c /\ f.client \in Clients
      BY <1>1, <2>1 DEF CallOK
    <3>2. f.pc = "OnMenuDisplay" => Displaying(f)
      BY DEF Displaying
    <3>3. f.pc = "OnMenuDisplay" /\ f.mh = "vote" => m_ClientVotes'[f.client] = VOTE_PENDING
      BY <1>1, <2>1, <3>1, <3>2 DEF CallOK
    <3>4. f.proc = "Disconnect" => f.client \notin inGame /\ (f.pc = "votes" => ~player'[f.client].bInMenu)
      BY <1>1, <2>1 DEF CallOK
    <3> QED BY <3>1, <3>3, <3>4 DEF CallOK
  <2>2. CASE f \notin Calls(stack)
    BY <2>2 DEF CallOK, Displaying
  <2> QED BY <2>1, <2>2
<1> QED BY <1>3, <1>4, LeaversNext

LEMMA WipedVote ==
  ASSUME IInv, NEW c \in Clients, WipeVote(c)
  PROVE  /\ IsVoteInProgress => m_ClientVotes'[c] = VOTE_NOT_VOTING
         /\ \A d \in Clients : d # c => m_ClientVotes'[d] = m_ClientVotes[d]
<1>1. m_ClientVotes \in [Clients -> VOTE_NOT_VOTING..(NItems - 1)]
  BY DEF IInv, TypeOK
<1> QED BY <1>1 DEF WipeVote

LEMMA ListenersLeavers ==
  ASSUME IInv, IInv', LeaversOK, NEW first \in BOOLEAN, Listeners(first)
  PROVE  LeaversOK'
<1>0. PICK c, K : c = Top.client /\ K = IF first THEN Caller ELSE At(stack, "votes")
  OBVIOUS
<1>1. /\ stack # <<>> /\ Top.pc = "OnClientDisconnect_Post" /\ UNCHANGED <<inGame, m_pCurMenu>>
      /\ IF first THEN WipeVote(c) ELSE m_ClientVotes' = m_ClientVotes
      /\ player' = IF player[c].bInMenu THEN Cancelled(c, TRUE) ELSE player
      /\ stack' = K \o (IF player[c].bInMenu THEN <<CancelFrame(c, TRUE)>> ELSE <<>>)
  BY <1>0 DEF Listeners
<1>2. /\ c \in Clients /\ Top.proc = "Disconnect" /\ Top \in Calls(stack) /\ Calls(stack) = Calls(Caller) \cup {Top}
  BY <1>0, <1>1, TopClient, TopView
<1>3. c \notin inGame
  BY <1>0, <1>2, LeaversView DEF CallOK
<1>4. ~player'[c].bInMenu /\ \A d \in Clients : d # c => player'[d] = player[d]
  BY <1>1, <1>2, SeesNone
<1>5. \A d \in Clients : d # c => m_ClientVotes'[d] = m_ClientVotes[d]
  BY <1>1, <1>2, WipedVote
<1>6. first /\ IsVoteInProgress => m_ClientVotes'[c] = VOTE_NOT_VOTING
  BY <1>1, <1>2, WipedVote
<1>7. StartsKept(K)
  BY <1>0, <1>1, KeptReturns, KeptAt
<1>8. PICK t : /\ first => Calls(K) = Calls(Caller)
               /\ ~first => Calls(K) = Calls(Caller) \cup {t}
               /\ t.proc = "Disconnect" /\ t.client = c /\ ~Displaying(t)
  <2>1. PICK t \in Frame : /\ t.pc = "votes" /\ t.proc = Top.proc /\ t.client = Top.client
                           /\ Caller \in Seq(Frame) /\ At(stack, "votes") = Append(Caller, t)
    BY <1>1, KeptAt
  <2>2. Calls(At(stack, "votes")) = Calls(Caller) \cup {t}
    BY <2>1, Push
  <2> QED BY <1>0, <1>2, <2>1, <2>2 DEF Displaying
<1>9. PICK f : /\ Calls(stack') = Calls(K) \/ Calls(stack') = Calls(K) \cup {f}
               /\ ~Displaying(f) /\ f.proc # "Disconnect"
  <2>1. CASE player[c].bInMenu
    <3>1. Tame(CancelFrame(c, TRUE)) /\ stack' = K \o <<CancelFrame(c, TRUE)>>
      BY <1>1, <1>2, <2>1, TameCancel
    <3>2. Calls(stack') = Calls(K) \cup {CancelFrame(c, TRUE)}
      BY <1>7, <3>1, KeptPush
    <3> QED BY <3>1, <3>2 DEF Tame
  <2>2. CASE ~player[c].bInMenu
    <3>1. stack' = K
      BY <1>1, <1>7, <2>2 DEF StartsKept
    <3>2. PICK f : f = [pc |-> "done", proc |-> "Cancel"]
      OBVIOUS
    <3>3. ~Displaying(f) /\ f.proc # "Disconnect"
      BY <3>2 DEF Displaying
    <3> QED BY <3>1, <3>3
  <2> QED BY <2>1, <2>2
<1>10. /\ \A g \in Calls(stack') : g \in Calls(stack) \/ (~Displaying(g) /\ (g.proc = "Disconnect" => g.client = c))
       /\ \A d \in Clients : d # c => (Leaves(stack, d)' <=> Leaves(stack, d))
       /\ ~first => Leaves(stack, c)'
  BY <1>0, <1>2, <1>8, <1>9 DEF Leaves
<1> QED BY <1>1, <1>2, <1>3, <1>4, <1>5, <1>6, <1>10, WipedLeavers

LEMMA ListenersVotesLeavers ==
  ASSUME IInv, IInv', LeaversOK, ListenersVotes
  PROVE  LeaversOK'
<1>0. PICK c : c = Top.client
  OBVIOUS
<1>1. /\ stack # <<>> /\ Top.pc = "votes" /\ WipeVote(c) /\ stack' = Caller /\ UNCHANGED <<inGame, m_pCurMenu, player>>
  BY <1>0 DEF ListenersVotes
<1>2. /\ c \in Clients /\ Top.proc = "Disconnect" /\ Top \in Calls(stack) /\ Calls(stack) = Calls(Caller) \cup {Top}
  BY <1>0, <1>1, TopClient, TopView
<1>3. c \notin inGame /\ ~player[c].bInMenu
  BY <1>0, <1>1, <1>2, LeaversView DEF CallOK
<1>4. /\ IsVoteInProgress => m_ClientVotes'[c] = VOTE_NOT_VOTING
      /\ \A d \in Clients : d # c => m_ClientVotes'[d] = m_ClientVotes[d]
  BY <1>1, <1>2, WipedVote
<1>5. /\ \A g \in Calls(stack') : g \in Calls(stack)
      /\ \A d \in Clients : d # c => (Leaves(stack, d)' <=> Leaves(stack, d))
  BY <1>0, <1>1, <1>2 DEF Leaves
<1> QED BY <1>1, <1>2, <1>3, <1>4, <1>5, WipedLeavers

LEMMA StartVoteLeavers ==
  ASSUME IInv, IInv', LeaversOK, NEW m \in Votes, NEW cs \in ClientLists, StartVote(m, cs)
  PROVE  LeaversOK'
<1> DEFINE g == Call("StartVote", "OnMenuStart", NULL, m, "plugin")
           f == Looping(g, cs)
<1>1. /\ m_pCurMenu = NULL /\ UNCHANGED <<inGame, player>> /\ m_ClientVotes' = [c \in Clients |-> VOTE_NOT_VOTING]
      /\ stack' = stack \o <<f>>
  BY DEF StartVote, Native, IsVoteInProgress, Looping
<1>2. cs \in Seq(Clients)
  BY FS_CardinalityType, CountClients DEF ClientLists
<1>3. Parts(g, "StartVote", "OnMenuStart", NULL, m)
  <2>1. "OnMenuStart" \in Callbacks \cup {"loop", "start", "render", "end", "done", "delete", "listeners", "votes"}
    BY DEF Callbacks
  <2> QED BY <2>1, PlainCall DEF Menus
<1> HIDE DEF g
<1>4. f \in Frame /\ f.proc = "StartVote" /\ f.pc = "OnMenuStart" /\ stack \in Seq(Frame)
  BY <1>2, <1>3, LoopCall DEF Parts, IInv, TypeOK
<1> HIDE DEF f
<1>5. stack' = Append(stack, f)
  BY <1>1, <1>4
<1>6. Calls(stack') = Calls(stack) \cup {f}
  BY <1>4, <1>5, Push
<1>7. (\A h \in Calls(stack) : ~ForVote(h)) /\ \A c \in Clients : ~InVoteMenu(c)
  BY <1>1, NoVoteNoDisplay
<1>8. ~(VOTE_NOT_VOTING > VOTE_NOT_VOTING)
  BY DEF VOTE_NOT_VOTING
<1>9. \A c \in Clients : Pooled(c)'
  BY <1>1, <1>7, <1>8 DEF Pooled, InVoteMenu
<1>10. ASSUME NEW h \in Calls(stack) PROVE CallOK(h)'
  BY <1>1, <1>7, LeaversView DEF CallOK, ForVote
<1>11. CallOK(f)'
  BY <1>4 DEF CallOK, Displaying
<1> QED BY <1>6, <1>9, <1>10, <1>11, LeaversNext

-----------------------------------------------------------------------------
(* The invariants.                                                         *)

LEMMA InitOK ==
  ASSUME Init
  PROVE  IInv /\ TimerThere /\ TimersOK /\ LeaversOK
<1>1. Calls(stack) = {} /\ Len(stack) = 0 /\ stack \in Seq(Frame) /\ DOMAIN stack = {}
  BY NoCalls DEF Init
<1>2. TypeOK
  <2>1. VOTE_NOT_VOTING \in VOTE_NOT_VOTING..(NItems - 1)
    BY VotingAssumption DEF VOTE_NOT_VOTING
  <2>2. player \in [Clients -> CBaseMenuPlayer] /\ menu \in [Menus -> CBaseMenu]
    BY DEF Init, CBaseMenuPlayer, CBaseMenu
  <2>3. calls \in 0..MaxCalls
    BY VotingAssumption DEF Init
  <2> QED BY <1>1, <2>1, <2>2, <2>3 DEF Init, TypeOK
<1>3. /\ \A c \in Clients : ~player[c].bInMenu /\ ~player[c].bAutoIgnore /\ m_ClientVotes[c] = VOTE_NOT_VOTING
      /\ \A m \in Menus : ~menu[m].closed /\ ~menu[m].m_bCancelling /\ ~menu[m].m_bShouldDelete /\ ~menu[m].deleted
      /\ m_pCurMenu = NULL /\ m_bStarted = FALSE /\ m_Clients = 0 /\ m_displayTimer = FALSE /\ timers = 0
      /\ inGame = Clients
  BY DEF Init
<1>4. \A c \in Clients : ~InVoteMenu(c)
  BY <1>3 DEF InVoteMenu
<1>5. FramesOK(stack) /\ PlayersOK
  BY <1>1, <1>3 DEF FramesOK, PlayersOK
<1>6. MenusOK
  <2>1. \A m \in Menus : ~Gone(m) /\ ~Condemned(m)
    BY <1>1, <1>3 DEF Gone, Condemned
  <2> QED BY <1>1, <1>3, <2>1 DEF MenusOK, Menus
<1>7. VoteOK
  <2>1. {c \in Clients : InVoteMenu(c)} = {}
    BY <1>4
  <2>2. InCalls(stack) = 0
    <3>1. {i \in 1..Len(stack) : ForVote(stack[i])} = {}
      BY <1>1
    <3> QED BY <3>1, FS_EmptySet DEF InCalls
  <2>3. Cardinality({c \in Clients : InVoteMenu(c)}) = 0
    BY <2>1, CountClients
  <2>4. m_Clients = Cardinality({c \in Clients : InVoteMenu(c)}) + InCalls(stack)
    BY <1>3, <2>2, <2>3
  <2> QED BY <1>1, <1>3, <1>4, <2>4 DEF VoteOK
<1>8. CountedOK
  BY <1>1, <1>3, <1>4 DEF CountedOK, VotesOK, IsVoteInProgress
<1>9. TimerThere /\ TimersOK
  BY <1>1, <1>3 DEF TimerThere, TimersOK, TimerOK, OneStarts
<1>10. LeaversOK
  BY <1>1, <1>3 DEF LeaversOK, PoolOK, IsVoteInProgress
<1> QED BY <1>2, <1>5, <1>6, <1>7, <1>8, <1>9, <1>10 DEF IInv

LEMMA StutterOK ==
  ASSUME IInv, UNCHANGED vars
  PROVE  IInv'
<1>1. stack' = stack /\ UNCHANGED <<inGame, player, menu, m_pCurMenu, m_bStarted, m_bCancelled, m_Clients, m_NumVotes,
                                    m_Votes, m_ClientVotes, m_displayTimer, timers, calls>>
  BY DEF vars, vote
<1>2. Base(stack) /\ Quiet(stack) /\ TodoOK(stack, Clients) /\ ShowsNone(stack, Voted)
  BY SameGood
<1>3. InCalls(stack) \in Nat
  BY CountType DEF IInv, TypeOK
<1>4. /\ inGame' \subseteq Clients /\ m_bCancelled' \in BOOLEAN /\ m_displayTimer' \in BOOLEAN /\ timers' \in Nat
      /\ calls' \in 0..MaxCalls /\ m_Clients' \in Nat
  BY <1>1 DEF IInv, TypeOK
<1>5. m_Clients' = m_Clients + InCalls(stack') - InCalls(stack)
  BY <1>1, <1>3, <1>4
<1> QED BY <1>1, <1>2, <1>3, <1>4, <1>5, CallsChange

\* Plugins close no menu while StartVote is about to show it, and end none while
\* another page of it is drawn.
Careful == "EndInRedraw" \notin Habits /\ "CloseInStart" \notin Habits

LEMMA NextOK ==
  ASSUME IInv, TimerThere, Careful, [Next]_vars
  PROVE  IInv'
<1> USE DEF Careful
<1>1. CASE UNCHANGED vars
  BY <1>1, StutterOK
<1>2. CASE \E m \in Menus : DestroyMenu(m)
  BY <1>2, DestroyMenuStep
<1>3. ASSUME \A m \in Menus : ~Doomed(m), Plugins PROVE IInv'
  <2>1. CASE \E m \in Menus : CloseMenu(m)
    BY <2>1, CloseMenuStep
  <2>2. CASE \E m \in Votes, cs \in UNION {[1..n -> Clients] : n \in 0..Cardinality(Clients)} : StartVote(m, cs)
    BY <2>2, StartVoteStep
  <2>3. CASE CancelVoting
    BY <2>3, CancelVotingStep
  <2>4. CASE \E c \in Clients : DisplayMenu(c) \/ Disconnect(c)
    BY <1>3, <2>4, DisplayMenuStep, DisconnectStep
  <2>5. CASE \E c \in Clients, b \in BOOLEAN : RedrawToClient(c, b)
    BY <1>3, <2>5, RedrawStep
  <2>6. CASE \E c \in Clients, b \in BOOLEAN : CancelClientMenu(c, b)
    BY <1>3, <2>6, CancelClientMenuStep
  <2> QED BY <1>3, <2>1, <2>2, <2>3, <2>4, <2>5, <2>6 DEF Plugins
<1>4. ASSUME \A m \in Menus : ~Doomed(m), Users PROVE IInv'
  <2>1. PICK c \in Clients :
          Connect(c) \/ PressExit(c) \/ (\E i \in Items : PressItem(c, i)) \/ PressPage(c)
    BY <1>4 DEF Users
  <2>2. CASE Connect(c) \/ PressExit(c)
    BY <1>4, <2>2, ConnectStep, PressExitStep
  <2>3. CASE \E i \in Items : PressItem(c, i)
    BY <1>4, <2>3, PressItemStep
  <2>4. CASE PressPage(c)
    BY <1>4, <2>4, PressPageStep
  <2> QED BY <2>1, <2>2, <2>3, <2>4
<1>5. ASSUME \A m \in Menus : ~Doomed(m), Proceed PROVE IInv'
  <2>1. CASE StartVoteLoop
    BY <1>5, <2>1, StartVoteNext, StartVoting
  <2>2. CASE VoteStarted
    BY <1>5, <2>2, VoteStartedStep
  <2>3. CASE DoClientMenu
    BY <1>5, <2>3, DoClientMenuStep
  <2>4. CASE DrawItems \/ \E b \in BOOLEAN : RenderMenu(b)
    BY <2>4, DrawItemsStep, RenderMenuStep
  <2>10. CASE \E b \in BOOLEAN : RedoClientMenu(b)
    BY <2>10, RedoClientMenuStep
  <2>5. CASE \E b \in BOOLEAN : Listeners(b)
    BY <1>5, <2>5, ListenersStep
  <2>6. CASE ListenersVotes \/ InternalDelete
    BY <2>6, ListenersVotesStep, InternalDeleteStep
  <2>7. CASE CancelMenu
    BY <1>5, <2>7, CancelMenuNext, CancelMenuEnds
  <2>8. CASE Return \/ ReturnShown \/ ReturnRedrawn
    BY <2>8, ReturnStep, ReturnShownStep, ReturnRedrawnStep
  <2>9. CASE DisplayEnds \/ Done
    BY <1>5, <2>9, DisplayEndsStep, DoneStep
  <2> QED BY <1>5, <2>1, <2>2, <2>3, <2>4, <2>5, <2>6, <2>7, <2>8, <2>9, <2>10 DEF Proceed
<1>6. ASSUME \A m \in Menus : ~Doomed(m), \E c \in Clients : Timeout(c) PROVE IInv'
  BY <1>6, TimeoutStep
<1> QED BY <1>1, <1>2, <1>3, <1>4, <1>5, <1>6 DEF Next

LEMMA LeaversStep ==
  ASSUME IInv, TimerThere, LeaversOK, Careful, "KickInDisplay" \notin Habits, [Next]_vars
  PROVE  LeaversOK'
<1>0. IInv'
  BY NextOK
<1>1. CASE UNCHANGED vars
  <2>1. stack' = stack /\ player' = player /\ UNCHANGED <<inGame, m_pCurMenu, m_ClientVotes, m_displayTimer, timers>>
    BY <1>1 DEF vars, vote
  <2>2. Ordinary
    BY <2>1, KeptSame, SeesSame DEF Ordinary
  <2> QED BY <1>0, <2>2, OrdinaryLeavers
<1>2. CASE \E m \in Menus : DestroyMenu(m)
  BY <1>0, <1>2, DestroyMenuOrdinary, OrdinaryLeavers
<1>3. CASE Plugins
  <2>1. CASE \E m \in Menus : CloseMenu(m)
    BY <1>0, <2>1, CloseMenuOrdinary, OrdinaryLeavers
  <2>2. CASE \E m \in Votes, cs \in ClientLists : StartVote(m, cs)
    BY <1>0, <2>2, StartVoteLeavers
  <2>3. CASE CancelVoting
    BY <1>0, <2>3, CancelVotingOrdinary, OrdinaryLeavers
  <2>4. CASE \E c \in Clients : DisplayMenu(c)
    BY <1>0, <2>4, DisplayMenuOrdinary, OrdinaryLeavers
  <2>5. CASE \E c \in Clients : Disconnect(c)
    BY <1>0, <2>5, DisconnectLeavers
  <2>6. CASE \E c \in Clients, b \in BOOLEAN : RedrawToClient(c, b)
    BY <1>0, <2>6, RedrawLeavers
  <2>7. CASE \E c \in Clients, b \in BOOLEAN : CancelClientMenu(c, b)
    BY <1>0, <2>7, CancelClientMenuOrdinary, OrdinaryLeavers
  <2> QED BY <1>3, <2>1, <2>2, <2>3, <2>4, <2>5, <2>6, <2>7 DEF Plugins, ClientLists
<1>4. CASE Users
  <2>1. PICK c \in Clients :
          Connect(c) \/ PressExit(c) \/ (\E i \in Items : PressItem(c, i)) \/ PressPage(c)
    BY <1>4 DEF Users
  <2>2. CASE Connect(c)
    BY <1>0, <2>2, ConnectLeavers
  <2>3. CASE PressExit(c)
    BY <1>0, <2>3, PressExitOrdinary, OrdinaryLeavers
  <2>4. CASE \E i \in Items : PressItem(c, i)
    BY <1>0, <2>4, PressedLeavers
  <2>5. CASE PressPage(c)
    BY <1>0, <2>5, PressPageOrdinary, OrdinaryLeavers
  <2> QED BY <2>1, <2>2, <2>3, <2>4, <2>5
<1>5. CASE Proceed
  <2>1. CASE StartVoteLoop \/ VoteStarted
    BY <1>0, <2>1, StartVoteLoopOrdinary, VoteStartedOrdinary, OrdinaryLeavers
  <2>2. CASE DoClientMenu \/ DrawItems \/ \E b \in BOOLEAN : RenderMenu(b)
    BY <1>0, <2>2, DoClientMenuLeavers, RenderMenuLeavers
  <2>7. CASE \E b \in BOOLEAN : RedoClientMenu(b)
    BY <1>0, <2>7, RedoClientMenuLeavers, RedoClientMenuOrdinary, OrdinaryLeavers
  <2>3. CASE ListenersVotes \/ \E b \in BOOLEAN : Listeners(b)
    BY <1>0, <2>3, ListenersVotesLeavers, ListenersLeavers
  <2>4. CASE CancelMenu \/ InternalDelete \/ Return \/ ReturnRedrawn
    BY <1>0, <2>4, CancelMenuOrdinary, InternalDeleteOrdinary, ReturnOrdinary, ReturnRedrawnOrdinary, OrdinaryLeavers
  <2>5. CASE ReturnShown
    BY <1>0, <2>5, ReturnShownLeavers
  <2>6. CASE DisplayEnds \/ Done
    BY <1>0, <2>6, DisplayEndsOrdinary, DoneOrdinary, OrdinaryLeavers
  <2> QED BY <1>5, <2>1, <2>2, <2>3, <2>4, <2>5, <2>6, <2>7 DEF Proceed
<1>6. CASE \E c \in Clients : Timeout(c)
  BY <1>0, <1>6, TimeoutOrdinary, OrdinaryLeavers
<1> QED BY <1>1, <1>2, <1>3, <1>4, <1>5, <1>6 DEF Next

-----------------------------------------------------------------------------
(* Theorems.                                                               *)

\* With plugins that are careful in the two places where the code is not, and
\* whatever else they do, the calls under way fit on each other and go with the
\* menus, the clients and the vote, and a display timer that is set exists (the
\* call stack that MenuVoting.cpp and MenuStyle_Base.cpp build up through the
\* callbacks).
THEOREM Invariance ==
  ASSUME "EndInRedraw" \notin Habits, "CloseInStart" \notin Habits
  PROVE  Spec => [](IInv /\ TimerThere)
<1>0. Careful
  BY DEF Careful
<1>1. Init => IInv /\ TimerThere
  BY InitOK
<1>2. IInv /\ TimerThere /\ [Next]_vars => (IInv /\ TimerThere)'
  BY <1>0, NextOK, TimerThereStep
<1> QED BY <1>1, <1>2, PTL DEF Spec

\* The vote and its displays agree (DecrementPlayerCount, StartVoting and
\* InternalReset of MenuVoting.cpp): m_Clients is the number of displays of the
\* vote that are under way, each of them and each page that is drawn is for its
\* menu, and one timer at most exists, during a vote.  The timer needs plugins
\* that start no vote in the OnMenuVoteStart callbacks of another.
THEOREM Displays ==
  ASSUME "EndInRedraw" \notin Habits, "CloseInStart" \notin Habits, "VoteInVoteStart" \notin Habits
  PROVE  Spec => []DisplaysOK
<1>1. Init => TimersOK
  BY InitOK
<1>2. IInv /\ TimersOK /\ [Next]_vars => TimersOK'
  BY TimersStep
<1>3. IInv /\ TimersOK => DisplaysOK
  <2> SUFFICES ASSUME IInv, TimersOK PROVE DisplaysOK
    OBVIOUS
  <2>1. DOMAIN stack = 1..Len(stack)
    BY DEF IInv, TypeOK
  <2>2. VoteCalls = {i \in 1..Len(stack) : ForVote(stack[i])}
    BY <2>1 DEF VoteCalls, ForVote
  <2>3. CountOK
    BY <2>2 DEF IInv, VoteOK, CountOK, InCalls
  <2>4. \A i \in PageCalls : m_pCurMenu = stack[i].menu
    <3> SUFFICES ASSUME NEW i \in PageCalls PROVE m_pCurMenu = stack[i].menu
      OBVIOUS
    <3>1. stack[i] \in Calls(stack) /\ stack[i].mh = "vote" /\ Redrawing(stack[i]) /\ Rendering(stack[i])
      BY <2>1 DEF PageCalls, Calls, Redrawing, Rendering
    <3>2. stack[i].client \in Clients
      <4>1. Shape(stack[i]) /\ stack[i] \in Frame
        BY <3>1, AllShapes DEF IInv, TypeOK
      <4>2. stack[i].proc \in {"StartVote", "DoClientMenu", "_CancelClientMenu", "ClientPressedKey", "EndVoting",
                      "Cancel", "Destroy", "Disconnect"}
        BY <4>1 DEF Frame
      <4> QED BY <3>1, <4>1, <4>2 DEF Shape, Redrawing
    <3>3. stack[i].pc # "render"
      BY <3>1 DEF Redrawing
    <3>4. InVoteMenu(stack[i].client) /\ player[stack[i].client].menu = stack[i].menu
      BY <3>1, <3>3 DEF IInv, PlayersOK, InVoteMenu
    <3> QED BY <3>2, <3>4 DEF IInv, VoteOK
  <2>5. HandlerThere
    BY <2>2, <2>4 DEF IInv, VoteOK, HandlerThere, Calls
  <2> QED BY <2>3, <2>5 DEF IInv, TimersOK, DisplaysOK
<1> QED BY <1>1, <1>2, <1>3, Invariance, PTL DEF Spec

\* The tally is what the clients who may vote have chosen (OnMenuSelect,
\* RedrawToClient and OnClientDisconnected of MenuVoting.cpp), with plugins that
\* do not kick a client whom a menu is on its way to or being drawn for.
THEOREM Tally ==
  ASSUME "EndInRedraw" \notin Habits, "CloseInStart" \notin Habits, "KickInDisplay" \notin Habits
  PROVE  Spec => []TallyOK
<1>0. Careful
  BY DEF Careful
<1>1. Init => LeaversOK
  BY InitOK
<1>2. IInv /\ TimerThere /\ LeaversOK /\ [Next]_vars => LeaversOK'
  BY <1>0, LeaversStep
<1>3. IInv /\ LeaversOK => TallyOK
  BY DEF IInv, CountedOK, LeaversOK, TallyOK
<1> QED BY <1>1, <1>2, <1>3, Invariance, PTL DEF Spec

\* No call, client or vote refers to a deleted menu, though plugins close menus
\* in any callback but those of the StartVote that is about to show them
\* (CBaseMenu::Destroy and InternalDelete of MenuStyle_Base.cpp, and the
\* AutoHandleRooters).
THEOREM MenusAlive ==
  ASSUME "EndInRedraw" \notin Habits, "CloseInStart" \notin Habits
  PROVE  Spec => []MenuAlive
<1>1. IInv => MenuAlive
  <2> SUFFICES ASSUME IInv PROVE MenuAlive
    OBVIOUS
  <2>1. DOMAIN stack = 1..Len(stack)
    BY DEF IInv, TypeOK
  <2>2. \A m \in Menus : menu[m].deleted => \A f \in Calls(stack) : f.menu # m
    BY DEF IInv, MenusOK, Gone
  <2>3. \A f \in Calls(stack) : f.menu \in Menus \cup {NULL}
    BY AllShapes DEF IInv, TypeOK, Frame
  <2>4. \A i \in DOMAIN stack : stack[i].menu # NULL => ~menu[stack[i].menu].deleted
    BY <2>1, <2>2, <2>3 DEF Calls
  <2>5. \A c \in Clients : player[c].bInMenu => ~menu[player[c].menu].deleted
    BY NotGone DEF Gone
  <2>6. IsVoteInProgress => ~menu[m_pCurMenu].deleted
    BY NotGone DEF Gone, IsVoteInProgress
  <2> QED BY <2>4, <2>5, <2>6 DEF MenuAlive
<1> QED BY <1>1, Invariance, PTL

\* A client ignores menus (bAutoIgnore of MenuStyle_Base.cpp) only while a call
\* is under way for it: the flag is put back by whichever call ends last.
THEOREM Ignores ==
  ASSUME "EndInRedraw" \notin Habits, "CloseInStart" \notin Habits
  PROVE  Spec => []IgnoreOK
<1>1. IInv => IgnoreOK
  <2> SUFFICES ASSUME IInv PROVE IgnoreOK
    OBVIOUS
  <2>1. DOMAIN stack = 1..Len(stack)
    BY DEF IInv, TypeOK
  <2> QED BY <2>1 DEF IInv, PlayersOK, IgnoreOK, Calls
<1> QED BY <1>1, Invariance, PTL
=============================================================================
