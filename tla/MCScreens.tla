------------------------------- MODULE MCScreens -------------------------------
(* The home screen, its cells, and the way from the contacts sheet to a      *)
(* conversation, checked side by side: a behaviour is one of the three, the  *)
(* other two stay where they start.                                          *)
EXTENDS MCRecentMessages, Cells, Inbox

VARIABLE part

\* Two partners, with two texts and one.
ThreeTexts ==
  {[with |-> ben, key |-> 1], [with |-> ben, key |-> 2], [with |-> cat, key |-> 1]}
CatsText == {[with |-> cat, key |-> 1]}

screens == <<part, vars, inboxVars, cellVars>>

\* A step of one part alone.
AtHome(step) == part = "home" /\ step /\ UNCHANGED <<part, inboxVars, cellVars>>
InInbox(step) == part = "inbox" /\ step /\ UNCHANGED <<part, vars, cellVars>>

ScreensInit ==
  /\ part \in {"home", "inbox", "cells"}
  /\ Init /\ InboxInit /\ CellsInit
  /\ part # "inbox" => loaded = {} /\ joined = {ann}

ScreensNext ==
  \/ AtHome(Next)
  \/ InInbox(InboxNext)
  \/ part = "cells" /\ CellsNext /\ UNCHANGED <<part, vars, inboxVars>>

\* In each part the server answers, the SDK raises its events and the main
\* queue runs; users owe nothing.
ScreensSpec ==
  /\ ScreensInit /\ [][ScreensNext]_screens
  /\ WF_screens(AtHome(Answer)) /\ WF_screens(AtHome(MainQueueRuns))
  /\ WF_screens(AtHome(HandleReload))
  /\ \A m \in Messages: WF_screens(AtHome(Notice(m)))
  /\ WF_screens(InInbox(\E i \in DOMAIN inboxAsked: AnswerRequest(i)))
  /\ WF_screens(InInbox(InboxRuns))
================================================================================
