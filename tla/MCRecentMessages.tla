--------------------------- MODULE MCRecentMessages ---------------------------
(* Small instances of RecentMessages for TLC.                              *)
EXTENDS RecentMessages

CONSTANTS ann, ben, cat

\* Two messages of one chat, of different dates, and one of another chat.
ThreeMessages ==
  { [from |-> ann, to |-> ben, date |-> 1],
    [from |-> ben, to |-> ann, date |-> 2],
    [from |-> cat, to |-> ann, date |-> 2] }

OneChat == { [from |-> ann, to |-> ben, date |-> 1] }

=============================================================================
