----------------------------- MODULE MenuVoting ------------------------------
(***************************************************************************)
(* The vote of core/MenuVoting.cpp over the menus of                       *)
(* core/MenuStyle_Base.cpp: at most one vote, shown to clients as a menu   *)
(* whose handler is the vote handler, which counts the displays that have  *)
(* started and not ended and finishes the vote when the last one ends.     *)
(*                                                                         *)
(* Everything happens on the game thread, but nearly every step calls a    *)
(* plugin, which may start, cancel and redraw votes, show other menus,     *)
(* close the menu and kick clients before it returns.  `stack' is the C++  *)
(* call stack; plugins act when it is empty or when a callback is on top.  *)
(*                                                                         *)
(* A menu is deleted when its handle is closed and no AutoHandleRooter on  *)
(* the stack keeps it.  The time of a menu is left out: it may run out at  *)
(* any moment (ProcessWatchList).                                          *)
(***************************************************************************)
EXTENDS Integers, Sequences, SequencesExt, FiniteSets

CONSTANTS
  MaxClients,   \* clients have the indices from 1 to this
  Votes,        \* menus to vote on
  Plain,        \* another menu, with a handler of its own
  NULL,
  NItems,       \* items of a menu
  Habits,       \* what plugins do besides: see VoteHabits
  MaxCalls,     \* bound on the calls of plugins
  MaxDepth      \* bound on the nesting of their callbacks

\* "VoteInVoteStart": the callbacks of a vote that is just being started end it
\*   and start another.
\* "CloseInStart": a callback of StartVote, or of a display it makes, closes the
\*   menu of the vote.
\* "KickInDisplay": a client is kicked while a menu is on its way to it, in the
\*   callbacks of the menu that it interrupts or in those that draw it.
\* "EndInRedraw": while another page of a menu is drawn its callbacks cancel it,
\*   kick the client, or close the menu and have nothing drawn.
VoteHabits == {"VoteInVoteStart", "CloseInStart", "KickInDisplay", "EndInRedraw"}

ASSUME VotingAssumption ==
  /\ MaxClients \in Nat \ {0}
  /\ NULL \notin Votes \cup {Plain} /\ Plain \notin Votes
  /\ NULL \notin 1..MaxClients /\ NULL \notin BOOLEAN
  /\ NItems \in Nat \ {0}
  /\ Habits \subseteq VoteHabits
  /\ MaxCalls \in Nat /\ MaxDepth \in Nat

VARIABLES
  inGame,           \* the clients that can be shown a menu
  player,           \* client -> CBaseMenuPlayer
  menu,             \* menu -> CBaseMenu
  m_pCurMenu,       \* the menu of the vote; m_pHandler is NULL when this is
  m_bStarted, m_bCancelled, m_Clients, m_NumVotes,
  m_Votes,          \* item -> votes
  m_ClientVotes,    \* client -> VOTE_NOT_VOTING, VOTE_PENDING or an item
  m_displayTimer,   \* whether it is set
  timers,           \* the number of display timers that exist
  stack,
  calls

vote == <<m_pCurMenu, m_bStarted, m_bCancelled, m_Clients, m_NumVotes, m_Votes, m_ClientVotes,
          m_displayTimer, timers>>
vars == <<inGame, player, menu, vote, stack, calls>>

VOTE_NOT_VOTING == -2
VOTE_PENDING == -1
Clients == 1..MaxClients
Items == 0..(NItems - 1)
Menus == Votes \cup {Plain}

\* mh is "vote" for the vote handler and "plugin" for the menu's own.
CBaseMenuPlayer ==
  [ bInMenu : BOOLEAN, bAutoIgnore : BOOLEAN, menu : Menus \cup {NULL}, mh : {"vote", "plugin"} ]

CBaseMenu == [ closed : BOOLEAN, m_bCancelling : BOOLEAN, m_bShouldDelete : BOOLEAN, deleted : BOOLEAN ]

\* Where plugin code runs.  OnMenuDrawItem stands for the OnMenuDrawItem and the
\* OnMenuDisplayItem of all items; the two of another page have names of their
\* own, OnMenuRedrawItem and OnMenuRedraw.
Callbacks ==
  { "OnMenuStart", "OnMenuDrawItem", "OnMenuDisplay", "OnMenuRedrawItem", "OnMenuRedraw", "OnMenuSelect",
    "OnMenuCancel", "OnMenuEnd", "OnMenuVoteStart", "OnMenuVoteEnd", "OnVotingEnd", "OnClientDisconnect_Post" }

\* A call.  root: an AutoHandleRooter holds the menu; old: bOldIgnore, if it is
\* to be put back; todo: the clients a loop has before it.
Frame ==
  [ proc : {"StartVote", "DoClientMenu", "_CancelClientMenu", "ClientPressedKey", "EndVoting",
            "Cancel", "Destroy", "Disconnect"},
    pc : Callbacks \cup {"loop", "start", "render", "end", "done", "delete", "listeners", "votes"},
    client : Clients \cup {NULL}, menu : Menus \cup {NULL}, mh : {"vote", "plugin"},
    root : BOOLEAN, old : BOOLEAN \cup {NULL}, todo : Seq(Clients) ]

Top == Last(stack)
Caller == Front(stack)
At(s, pc) == [s EXCEPT ![Len(s)].pc = pc]
ClientTurn == stack # <<>> => Top.pc \in Callbacks

Call(proc, pc, c, m, mh) ==
  [ proc |-> proc, pc |-> pc, client |-> c, menu |-> m, mh |-> mh, root |-> FALSE,
    old |-> NULL, todo |-> <<>> ]

\* Mutant: no AutoHandleRooter.
Unrooted(frame) == frame

\* FastCloneHandle fails on a handle that is closed.
Rooting(frame) == [frame EXCEPT !.root = ~menu[frame.menu].closed]

Rooted(m) == \E i \in DOMAIN stack : stack[i].menu = m /\ stack[i].root
Doomed(m) ==
  /\ menu[m].closed /\ ~menu[m].deleted /\ ~menu[m].m_bShouldDelete /\ ~Rooted(m)
  /\ \A i \in DOMAIN stack : ~(stack[i].proc = "Destroy" /\ stack[i].menu = m)

\* A plugin calls a native: frames for it go on the stack.
Native(frames) ==
  /\ ClientTurn /\ Len(stack) < MaxDepth /\ calls < MaxCalls
  /\ calls' = calls + 1
  /\ stack' = stack \o frames

\* What a loop over all clients has before it.
EachClient == [c \in Clients |-> c]

IsVoteInProgress == m_pCurMenu # NULL

-----------------------------------------------------------------------------
(* The vote handler.                                                       *)

InternalReset ==
  /\ m_Clients' = 0 /\ m_bStarted' = FALSE /\ m_pCurMenu' = NULL /\ m_NumVotes' = 0
  /\ m_bCancelled' = FALSE /\ m_displayTimer' = FALSE

\* KillTimer, if there is a timer.
TimersLeft == IF m_displayTimer THEN timers - 1 ELSE timers

\* The result is passed on as it was when the vote ended; then the state is
\* reset, before any callback.
EndVoting(rest) ==
  /\ timers' = TimersLeft
  /\ InternalReset
  /\ stack' = Append(rest, Rooting(Call("EndVoting", "OnMenuVoteEnd", NULL, m_pCurMenu, "plugin")))
  /\ UNCHANGED <<m_Votes, m_ClientVotes>>

LastDisplay == m_Clients = 1 /\ m_bStarted

\* OnMenuEnd: for the vote handler DecrementPlayerCount, for a plugin its
\* callback.
OnMenuEnd(mh) ==
  IF mh = "plugin" THEN stack' = At(stack, "OnMenuEnd") /\ UNCHANGED vote
  ELSE IF LastDisplay THEN EndVoting(At(stack, "done"))
  ELSE /\ m_Clients' = m_Clients - 1
       /\ stack' = At(stack, "done")
       /\ UNCHANGED <<m_pCurMenu, m_bStarted, m_bCancelled, m_NumVotes, m_Votes, m_ClientVotes,
                      m_displayTimer, timers>>

\* InitializeVoting, up to the OnMenuStart callback of StartVote; the clients
\* are the plugin's choice, in its order.
StartVote(m, cs) ==
  /\ ~IsVoteInProgress /\ ~menu[m].closed
  /\ "VoteInVoteStart" \notin Habits => \A i \in DOMAIN stack : stack[i].pc # "OnMenuVoteStart"
  /\ Native(<<[Call("StartVote", "OnMenuStart", NULL, m, "plugin") EXCEPT !.todo = cs]>>)
  /\ m_pCurMenu' = m /\ m_bStarted' = FALSE /\ m_bCancelled' = FALSE
  /\ m_Clients' = 0 /\ m_NumVotes' = 0 /\ m_displayTimer' = FALSE
  /\ m_Votes' = [i \in Items |-> 0]
  /\ m_ClientVotes' = [c \in Clients |-> VOTE_NOT_VOTING]
  /\ UNCHANGED <<inGame, player, menu, timers>>

\* Display, up to OnMenuStart: nothing happens while the menu is being
\* cancelled.
Display(c, m, mh, rest) ==
  IF menu[m].m_bCancelling THEN stack' = rest /\ UNCHANGED m_Clients
  ELSE /\ stack' = Append(rest, Rooting(Call("DoClientMenu",
                                   IF mh = "vote" THEN "start" ELSE "OnMenuStart", c, m, mh)))
       /\ m_Clients' = IF mh = "vote" THEN m_Clients + 1 ELSE m_Clients

\* The loop of StartVote over the clients, then StartVoting, up to its
\* callback.
StartVoteLoop ==
  /\ stack # <<>> /\ Top.proc = "StartVote" /\ Top.pc = "loop"
  /\ IF Top.todo # <<>>
     THEN /\ Display(Head(Top.todo), Top.menu, "vote", [stack EXCEPT ![Len(stack)].todo = Tail(@)])
          /\ UNCHANGED m_bStarted
     ELSE /\ m_bStarted' = IF IsVoteInProgress THEN TRUE ELSE m_bStarted
          /\ stack' = IF IsVoteInProgress
                      THEN Append(Caller, [Top EXCEPT !.pc = "OnMenuVoteStart", !.root = ~menu[Top.menu].closed])
                      ELSE Caller
          /\ UNCHANGED m_Clients
  /\ UNCHANGED <<inGame, player, menu, m_pCurMenu, m_bCancelled, m_NumVotes, m_Votes,
                 m_ClientVotes, m_displayTimer, timers, calls>>

\* Mutant: a vote nobody was shown is left to the last display.
NeverEmpty == FALSE

NobodyVotes == m_Clients = 0

\* The rest of StartVoting; a display timer for nobody is killed at once.
VoteStarted ==
  /\ stack # <<>> /\ Top.pc = "OnMenuVoteStart"
  /\ IF ~m_bStarted
     THEN stack' = Caller /\ UNCHANGED vote
     ELSE IF NobodyVotes
     THEN EndVoting(At(stack, "done"))
     ELSE /\ stack' = Caller
          /\ m_displayTimer' = TRUE /\ timers' = timers + 1
          /\ UNCHANGED <<m_pCurMenu, m_bStarted, m_bCancelled, m_Clients, m_NumVotes, m_Votes, m_ClientVotes>>
  /\ UNCHANGED <<inGame, player, menu, calls>>

\* Another page of its menu is being drawn for client c.
Redrawn(c) == \E i \in DOMAIN stack : stack[i].pc = "OnMenuRedrawItem" /\ stack[i].client = c

InMenu(c, m) == player[c].bInMenu /\ player[c].menu = m

CancelVoting ==
  /\ IsVoteInProgress /\ ~m_bCancelled
  /\ "EndInRedraw" \notin Habits => \A c \in Clients : Redrawn(c) => ~InMenu(c, m_pCurMenu)
  /\ m_bCancelled' = TRUE
  /\ IF menu[m_pCurMenu].m_bCancelling THEN Native(<<>>) /\ UNCHANGED menu
     ELSE /\ Native(<<[Call("Cancel", "loop", NULL, m_pCurMenu, "plugin") EXCEPT
                         !.todo = EachClient]>>)
          /\ menu' = [menu EXCEPT ![m_pCurMenu].m_bCancelling = TRUE]
  /\ UNCHANGED <<inGame, player, m_pCurMenu, m_bStarted, m_Clients, m_NumVotes, m_Votes,
                 m_ClientVotes, m_displayTimer, timers>>

\* Mutant: the old vote of the client stays in the count.
Uncounted(c, votes) == votes

\* Without the vote of client c.
Withdrawn(c, votes) == [votes EXCEPT ![m_ClientVotes[c]] = @ - 1]

\* revotes: the caller and VOTEFLAG_NO_REVOTES allow to vote again.
RedrawToClient(c, revotes) ==
  /\ IsVoteInProgress /\ m_ClientVotes[c] > VOTE_NOT_VOTING
  /\ m_ClientVotes[c] >= 0 => revotes
  /\ ClientTurn /\ Len(stack) < MaxDepth /\ calls < MaxCalls
  /\ IF m_ClientVotes[c] >= 0
     THEN /\ m_Votes' = Withdrawn(c, m_Votes)
          /\ m_NumVotes' = m_NumVotes - 1
          /\ m_ClientVotes' = [m_ClientVotes EXCEPT ![c] = VOTE_PENDING]
     ELSE UNCHANGED <<m_Votes, m_NumVotes, m_ClientVotes>>
  /\ Display(c, m_pCurMenu, "vote", stack)
  /\ calls' = calls + 1
  /\ UNCHANGED <<inGame, player, menu, m_pCurMenu, m_bStarted, m_bCancelled, m_displayTimer, timers>>

-----------------------------------------------------------------------------
(* Menus.                                                                  *)

\* _CancelClientMenu, up to OnMenuCancel.
CancelFrame(c, ignore) ==
  [ Rooting(Call("_CancelClientMenu", "OnMenuCancel", c, player[c].menu, player[c].mh))
    EXCEPT !.old = IF ignore THEN player[c].bAutoIgnore ELSE NULL ]
Cancelled(c, ignore) ==
  [player EXCEPT ![c].bInMenu = FALSE, ![c].bAutoIgnore = @ \/ ignore]

\* Mutant: the old menu of the client is forgotten.
NoOldMenu(c) == FALSE

OldMenu(c) == player[c].bInMenu

\* DoClientMenu after OnMenuStart: a client who is gone or ignores menus is not
\* shown it; an old menu is cancelled first.
DoClientMenu ==
  LET c == Top.client IN
  /\ stack # <<>> /\ Top.pc = "start"
  /\ IF c \notin inGame \/ player[c].bAutoIgnore
     THEN stack' = At(stack, "OnMenuCancel") /\ UNCHANGED player
     ELSE /\ player' = IF OldMenu(c)
                       THEN [player EXCEPT ![c].bInMenu = FALSE, ![c].bAutoIgnore = TRUE]
                       ELSE [player EXCEPT ![c].bAutoIgnore = TRUE]
          /\ stack' = At(stack, "render") \o
               IF OldMenu(c) THEN <<[CancelFrame(c, TRUE) EXCEPT !.old = TRUE]>> ELSE <<>>
  /\ UNCHANGED <<inGame, menu, vote, calls>>

\* RenderMenu, up to the callbacks for the items ...
DrawItems ==
  /\ stack # <<>> /\ Top.pc = "render"
  /\ player' = [player EXCEPT ![Top.client].menu = Top.menu, ![Top.client].mh = Top.mh]
  /\ stack' = At(stack, "OnMenuDrawItem")
  /\ UNCHANGED <<inGame, menu, vote, calls>>

\* ... and after them: nothing is drawn, or OnMenuDisplay follows.
RenderMenu(drawn) ==
  LET c == Top.client IN
  /\ stack # <<>> /\ Top.pc = "OnMenuDrawItem"
  /\ player' = IF drawn THEN player ELSE [player EXCEPT ![c].bAutoIgnore = FALSE, ![c].bInMenu = FALSE]
  /\ m_ClientVotes' = IF drawn /\ Top.mh = "vote" THEN [m_ClientVotes EXCEPT ![c] = VOTE_PENDING]
                      ELSE m_ClientVotes
  /\ stack' = At(stack, IF drawn THEN "OnMenuDisplay" ELSE "OnMenuCancel")
  /\ UNCHANGED <<inGame, menu, m_pCurMenu, m_bStarted, m_bCancelled, m_Clients, m_NumVotes, m_Votes,
                 m_displayTimer, timers, calls>>

\* Mutant: the client goes on ignoring menus.
StillIgnoring(c) == [player EXCEPT ![c].bInMenu = TRUE]

Shown(c) == [player EXCEPT ![c].bInMenu = TRUE, ![c].bAutoIgnore = FALSE]

\* A client presses a key of the menu it sees: an item, exit, or another page.
PressItem(c, i) ==
  /\ stack = <<>> /\ player[c].bInMenu
  /\ player' = [player EXCEPT ![c].bInMenu = FALSE]
  /\ stack' = <<Rooting(Call("ClientPressedKey", "OnMenuSelect", c, player[c].menu, player[c].mh))>>
  /\ IF player[c].mh = "vote"
     THEN /\ m_ClientVotes' = [m_ClientVotes EXCEPT ![c] = i]
          /\ m_Votes' = [m_Votes EXCEPT ![i] = @ + 1]
          /\ m_NumVotes' = m_NumVotes + 1
     ELSE UNCHANGED <<m_ClientVotes, m_Votes, m_NumVotes>>
  /\ UNCHANGED <<inGame, menu, m_pCurMenu, m_bStarted, m_bCancelled, m_Clients, m_displayTimer, timers, calls>>

PressExit(c) ==
  /\ stack = <<>> /\ player[c].bInMenu
  /\ player' = [player EXCEPT ![c].bInMenu = FALSE]
  /\ stack' = <<Rooting(Call("ClientPressedKey", "OnMenuCancel", c, player[c].menu, player[c].mh))>>
  /\ UNCHANGED <<inGame, menu, vote, calls>>

\* RedoClientMenu, up to the callbacks for the items.
PressPage(c) ==
  /\ stack = <<>> /\ player[c].bInMenu
  /\ player' = [player EXCEPT ![c].bAutoIgnore = TRUE]
  /\ stack' = <<Rooting(Call("ClientPressedKey", "OnMenuRedrawItem", c, player[c].menu, player[c].mh))>>
  /\ UNCHANGED <<inGame, menu, vote, calls>>

\* The rest of it; when nothing is drawn its rooter goes, and ClientPressedKey
\* ends the menu with another.
RedoClientMenu(drawn) ==
  LET c == Top.client IN
  /\ stack # <<>> /\ Top.pc = "OnMenuRedrawItem"
  /\ ~drawn /\ menu[Top.menu].closed => "EndInRedraw" \in Habits
  /\ player' = IF drawn THEN player ELSE [player EXCEPT ![c].bAutoIgnore = FALSE, ![c].bInMenu = FALSE]
  /\ m_ClientVotes' = IF drawn /\ Top.mh = "vote" THEN [m_ClientVotes EXCEPT ![c] = VOTE_PENDING]
                      ELSE m_ClientVotes
  /\ stack' = IF drawn THEN At(stack, "OnMenuRedraw")
              ELSE Append(Caller, [Rooting(Top) EXCEPT !.pc = "OnMenuCancel"])
  /\ UNCHANGED <<inGame, menu, m_pCurMenu, m_bStarted, m_bCancelled, m_Clients, m_NumVotes, m_Votes,
                 m_displayTimer, timers, calls>>

\* ProcessWatchList: the time of a menu is over.
Timeout(c) ==
  /\ stack = <<>> /\ player[c].bInMenu
  /\ player' = Cancelled(c, FALSE)
  /\ stack' = <<CancelFrame(c, FALSE)>>
  /\ UNCHANGED <<inGame, menu, vote, calls>>

DisplayMenu(c) ==
  /\ ~menu[Plain].closed
  /\ ClientTurn /\ Len(stack) < MaxDepth /\ calls < MaxCalls
  /\ Display(c, Plain, "plugin", stack)
  /\ calls' = calls + 1
  /\ UNCHANGED <<inGame, player, menu, m_pCurMenu, m_bStarted, m_bCancelled, m_NumVotes, m_Votes, m_ClientVotes,
                 m_displayTimer, timers>>

CancelClientMenu(c, autoIgnore) ==
  /\ player[c].bInMenu
  /\ Redrawn(c) => "EndInRedraw" \in Habits
  /\ Native(<<CancelFrame(c, autoIgnore)>>)
  /\ player' = Cancelled(c, autoIgnore)
  /\ UNCHANGED <<inGame, menu, vote>>

\* StartVote, up to the display to the last client, has no rooter.
BeingStarted(m) ==
  \E i \in DOMAIN stack : stack[i].proc = "StartVote" /\ stack[i].menu = m /\ stack[i].pc \in {"OnMenuStart", "loop"}

\* A plugin closes its handle of the menu, anywhere.
CloseMenu(m) ==
  /\ ~menu[m].closed
  /\ BeingStarted(m) => "CloseInStart" \in Habits
  /\ Native(<<>>)
  /\ menu' = [menu EXCEPT ![m].closed = TRUE]
  /\ UNCHANGED <<inGame, player, vote>>

\* The last rooter is gone: OnHandleDestroy and CBaseMenu::Destroy.
DestroyMenu(m) ==
  /\ Doomed(m)
  /\ IF menu[m].m_bCancelling
     THEN menu' = [menu EXCEPT ![m].m_bShouldDelete = TRUE] /\ UNCHANGED stack
     ELSE /\ menu' = [menu EXCEPT ![m].m_bCancelling = TRUE]
          /\ stack' = stack \o <<Call("Destroy", "delete", NULL, m, "plugin"),
               [Call("Cancel", "loop", NULL, m, "plugin") EXCEPT !.todo = EachClient]>>
  /\ UNCHANGED <<inGame, player, vote, calls>>

InternalDelete ==
  /\ stack # <<>> /\ Top.proc = "Destroy"
  /\ menu' = [menu EXCEPT ![Top.menu].deleted = TRUE]
  /\ stack' = Caller
  /\ UNCHANGED <<inGame, player, vote, calls>>

\* CBaseMenu::Cancel and the loop of CancelMenu over the clients.
CancelMenu ==
  LET m == Top.menu  c == Head(Top.todo) IN
  /\ stack # <<>> /\ Top.proc = "Cancel"
  /\ IF Top.todo = <<>>
     THEN /\ stack' = Caller
          /\ menu' = [menu EXCEPT ![m].m_bCancelling = FALSE, ![m].deleted = @ \/ menu[m].m_bShouldDelete]
          /\ UNCHANGED player
     ELSE /\ player' = IF InMenu(c, m) THEN Cancelled(c, FALSE) ELSE player
          /\ stack' = [stack EXCEPT ![Len(stack)].todo = Tail(@)] \o
               IF InMenu(c, m) THEN <<CancelFrame(c, FALSE)>> ELSE <<>>
          /\ UNCHANGED menu
  /\ UNCHANGED <<inGame, vote, calls>>

-----------------------------------------------------------------------------
(* Clients come and go.                                                    *)

Connect(c) ==
  /\ stack = <<>> /\ calls < MaxCalls /\ c \notin inGame
  /\ inGame' = inGame \cup {c}
  /\ calls' = calls + 1
  /\ UNCHANGED <<player, menu, vote, stack>>

\* OnClientDisconnect_Post of PlayerManager: the player is invalid, plugins are
\* told, then the listeners.
Disconnect(c) ==
  /\ c \in inGame
  /\ "KickInDisplay" \notin Habits =>
       \A i \in DOMAIN stack : stack[i].client = c => stack[i].pc \notin {"render", "OnMenuDrawItem", "OnMenuDisplay"}
  /\ Redrawn(c) => "EndInRedraw" \in Habits
  /\ Native(<<Call("Disconnect", "OnClientDisconnect_Post", c, NULL, "plugin")>>)
  /\ inGame' = inGame \ {c}
  /\ UNCHANGED <<player, menu, vote>>

\* OnClientDisconnected of the vote handler.
WipeVote(c) ==
  IF IsVoteInProgress
  THEN /\ m_Votes' = IF m_ClientVotes[c] >= 0 THEN Withdrawn(c, m_Votes) ELSE m_Votes
       /\ m_ClientVotes' = [m_ClientVotes EXCEPT ![c] = VOTE_NOT_VOTING]
  ELSE UNCHANGED <<m_Votes, m_ClientVotes>>

\* The order of the listeners depends on the order of static initialisation.
\* voteFirst: the vote handler comes before the menu style.
Listeners(voteFirst) ==
  LET c == Top.client IN
  /\ stack # <<>> /\ Top.pc = "OnClientDisconnect_Post"
  /\ IF voteFirst THEN WipeVote(c) ELSE UNCHANGED <<m_Votes, m_ClientVotes>>
  /\ player' = IF player[c].bInMenu THEN Cancelled(c, TRUE) ELSE player
  /\ stack' = (IF voteFirst THEN Caller ELSE At(stack, "votes")) \o
                 IF player[c].bInMenu THEN <<CancelFrame(c, TRUE)>> ELSE <<>>
  /\ UNCHANGED <<inGame, menu, m_pCurMenu, m_bStarted, m_bCancelled, m_Clients, m_NumVotes,
                 m_displayTimer, timers, calls>>

ListenersVotes ==
  /\ stack # <<>> /\ Top.pc = "votes"
  /\ WipeVote(Top.client)
  /\ stack' = Caller
  /\ UNCHANGED <<inGame, player, menu, m_pCurMenu, m_bStarted, m_bCancelled, m_Clients, m_NumVotes,
                 m_displayTimer, timers, calls>>

-----------------------------------------------------------------------------
(* Callbacks return.                                                       *)

\* OnMenuStart, OnMenuVoteEnd, OnVotingEnd (the OnMenuEnd of EndVoting) and
\* OnMenuEnd of a plugin's handler.
ReturnTo ==
  [ OnMenuStart |-> "start", OnMenuSelect |-> "end", OnMenuCancel |-> "end", OnMenuEnd |-> "done",
    OnMenuVoteEnd |-> "OnVotingEnd", OnVotingEnd |-> "done" ]

Return ==
  /\ stack # <<>> /\ Top.pc \in DOMAIN ReturnTo
  /\ stack' = At(stack, IF Top.proc = "StartVote" THEN "loop" ELSE ReturnTo[Top.pc])
  /\ UNCHANGED <<inGame, player, menu, vote, calls>>

\* OnMenuDisplay returns: the client is in the menu.
ReturnShown ==
  /\ stack # <<>> /\ Top.pc = "OnMenuDisplay"
  /\ player' = Shown(Top.client)
  /\ stack' = Caller
  /\ UNCHANGED <<inGame, menu, vote, calls>>

\* OnMenuDisplay returns in RedoClientMenu.
ReturnRedrawn ==
  /\ stack # <<>> /\ Top.pc = "OnMenuRedraw"
  /\ player' = [player EXCEPT ![Top.client].bAutoIgnore = FALSE]
  /\ stack' = Caller
  /\ UNCHANGED <<inGame, menu, vote, calls>>

DisplayEnds ==
  /\ stack # <<>> /\ Top.pc = "end"
  /\ OnMenuEnd(Top.mh)
  /\ UNCHANGED <<inGame, player, menu, calls>>

\* The call is over; _CancelClientMenu puts bAutoIgnore back.
Done ==
  /\ stack # <<>> /\ Top.pc = "done"
  /\ stack' = Caller
  /\ player' = IF Top.old # NULL
               THEN [player EXCEPT ![Top.client].bAutoIgnore = Top.old] ELSE player
  /\ UNCHANGED <<inGame, menu, vote, calls>>
-----------------------------------------------------------------------------
Init ==
  /\ inGame = Clients
  /\ player = [c \in Clients |-> [bInMenu |-> FALSE, bAutoIgnore |-> FALSE, menu |-> NULL, mh |-> "plugin"]]
  /\ menu = [m \in Menus |-> [closed |-> FALSE, m_bCancelling |-> FALSE, m_bShouldDelete |-> FALSE, deleted |-> FALSE]]
  /\ m_pCurMenu = NULL /\ m_bStarted = FALSE /\ m_bCancelled = FALSE /\ m_Clients = 0 /\ m_NumVotes = 0
  /\ m_Votes = [i \in Items |-> 0]
  /\ m_ClientVotes = [c \in Clients |-> VOTE_NOT_VOTING]
  /\ m_displayTimer = FALSE /\ timers = 0
  /\ stack = <<>> /\ calls = 0

Plugins ==
  \/ \E m \in Menus : CloseMenu(m)
  \/ \E m \in Votes : \E cs \in UNION {[1..n -> Clients] : n \in 0..Cardinality(Clients)} : StartVote(m, cs)
  \/ CancelVoting
  \/ \E c \in Clients :
       \/ DisplayMenu(c) \/ Disconnect(c)
       \/ \E b \in BOOLEAN : RedrawToClient(c, b) \/ CancelClientMenu(c, b)

Users ==
  \E c \in Clients : Connect(c) \/ PressExit(c) \/ (\E i \in Items : PressItem(c, i)) \/ PressPage(c)

\* The code goes on, and callbacks return.
Proceed ==
  \/ StartVoteLoop \/ VoteStarted \/ DoClientMenu \/ DrawItems
  \/ (\E b \in BOOLEAN : RenderMenu(b) \/ RedoClientMenu(b) \/ Listeners(b))
  \/ ListenersVotes \/ CancelMenu \/ InternalDelete
  \/ Return \/ ReturnShown \/ ReturnRedrawn \/ DisplayEnds \/ Done

\* A menu whose last handle went with a call is destroyed before anything else.
Next ==
  \/ \E m \in Menus : DestroyMenu(m)
  \/ (\A m \in Menus : ~Doomed(m)) /\ (Plugins \/ Users \/ Proceed \/ \E c \in Clients : Timeout(c))

Spec == Init /\ [][Next]_vars

\* The game thread goes on; a menu that is often seen by ProcessWatchList runs
\* out of time, unless the client answers or leaves.  Plugins make MaxCalls
\* calls at most: one that redraws a menu whenever it ends keeps a vote open.
FairSpec ==
  /\ Spec
  /\ WF_vars(Proceed \/ \E m \in Menus : DestroyMenu(m))
  /\ \A c \in Clients : SF_vars(Timeout(c))

-----------------------------------------------------------------------------
(* Properties.                                                             *)

TypeOK ==
  /\ inGame \subseteq Clients
  /\ player \in [Clients -> CBaseMenuPlayer]
  /\ menu \in [Menus -> CBaseMenu]
  /\ m_pCurMenu \in Votes \cup {NULL} /\ m_bStarted \in BOOLEAN /\ m_bCancelled \in BOOLEAN
  /\ m_Clients \in Nat /\ m_NumVotes \in Nat
  /\ m_Votes \in [Items -> Nat] /\ m_ClientVotes \in [Clients -> VOTE_NOT_VOTING..(NItems - 1)]
  /\ m_displayTimer \in BOOLEAN /\ timers \in Nat
  /\ stack \in Seq(Frame) /\ calls \in 0..MaxCalls

InVoteMenu(c) == player[c].bInMenu /\ player[c].mh = "vote"

\* The calls that are showing or ending a menu of the vote.
VoteCalls ==
  {i \in DOMAIN stack : stack[i].mh = "vote" /\ stack[i].pc \notin {"done", "OnMenuRedrawItem", "OnMenuRedraw"}}

\* Those that are drawing another page of one.
PageCalls == {i \in DOMAIN stack : stack[i].mh = "vote" /\ stack[i].pc = "OnMenuRedrawItem"}

\* m_Clients is the number of displays of the vote that have started and not
\* ended, however they are nested and interrupted: the vote ends with the last
\* of them, neither earlier nor never.
CountOK ==
  m_Clients = Cardinality({c \in Clients : InVoteMenu(c)}) + Cardinality(VoteCalls)

\* The vote handler calls m_pHandler only while there is a vote, and for the
\* menu of that vote: no display of a vote outlives it.
HandlerThere ==
  /\ \A c \in Clients : InVoteMenu(c) => m_pCurMenu = player[c].menu
  /\ \A i \in VoteCalls \cup PageCalls : m_pCurMenu = stack[i].menu

\* The count of an item is the number of clients who have it as their vote,
\* with the assertions of MenuVoting.cpp:173 and 278, and m_NumVotes is no less
\* than all of them (it is more when one has left: OnClientDisconnected does not
\* count it down).
VotesOK ==
  IsVoteInProgress =>
    /\ \A i \in Items : m_Votes[i] = Cardinality({c \in Clients : m_ClientVotes[c] = i})
    /\ m_NumVotes >= Cardinality({c \in Clients : m_ClientVotes[c] >= 0})

Leaving(c) == \E i \in DOMAIN stack : stack[i].proc = "Disconnect" /\ stack[i].client = c

\* "We have to make sure the the the newly connected client is not allowed to
\* vote" (MenuVoting.cpp:164): a client who left is neither in the pool nor in
\* the menu, and who is in the menu has no vote that is counted.
PoolOK ==
  IsVoteInProgress => \A c \in Clients :
    /\ m_ClientVotes[c] > VOTE_NOT_VOTING => c \in inGame \/ Leaving(c)
    /\ InVoteMenu(c) /\ ~Leaving(c) => c \in inGame /\ m_ClientVotes[c] = VOTE_PENDING

\* No call, client or vote refers to a menu that is deleted, though plugins
\* close menus in the middle of the calls that use them.
MenuAlive ==
  /\ \A i \in DOMAIN stack : stack[i].menu # NULL => ~menu[stack[i].menu].deleted
  /\ \A c \in Clients : player[c].bInMenu => ~menu[player[c].menu].deleted
  /\ IsVoteInProgress => ~menu[m_pCurMenu].deleted

\* A client ignores menus only while a call that shows or cancels one is under
\* way for it.
IgnoreOK ==
  \A c \in Clients : player[c].bAutoIgnore => \E i \in DOMAIN stack : stack[i].client = c

\* There is one display timer, and only during a vote.
TimerOK ==
  /\ timers = IF m_displayTimer THEN 1 ELSE 0
  /\ m_displayTimer => IsVoteInProgress

\* A vote ends, by results or by being cancelled.
VoteEnds == IsVoteInProgress ~> ~IsVoteInProgress

\* The vote and its displays agree: it lasts as long as the displays it counts,
\* and its handler and its timer as long as it does.
DisplaysOK == TypeOK /\ CountOK /\ HandlerThere /\ TimerOK

\* The tally is what the clients who may vote have chosen.
TallyOK == VotesOK /\ PoolOK

=============================================================================
