--------------------------------- MODULE Cells ---------------------------------
(***************************************************************************)
(* The rows of the home screen, RecentMessageCell: setting a cell's message *)
(* reads the partner's profile, whose answer fills the labels and loads the *)
(* picture, from a cache or by a download; a cell goes back to the table    *)
(* and is reused for another row while its read and its download are under  *)
(* way.  All cells share one cache and one handle of a download.            *)
(*                                                                         *)
(* Reads are answered in any order: one of a partner whose profile somebody *)
(* still listens to, another cell or the contacts sheet, is answered with   *)
(* that listen, or at once (FSyncTree addEventRegistration), and a          *)
(* reconnect sends the unanswered ones in the order of a dictionary.        *)
(***************************************************************************)
EXTENDS Naturals, Sequences, FiniteSets, SequencesExt

CONSTANTS Cells, Partners,
          WithProfile,   \* partners with a profile
          Pictures,      \* those whose avatarUrl leads to a picture
          Nobody,
          MaxShows,      \* bound: rows shown
          MaxFailures    \* bound: downloads that fail

ASSUME CellsAssumption ==
  Nobody \notin Partners /\ WithProfile \subseteq Partners

VARIABLES
  message,    \* the chat partner of the message each cell was last given
  name,       \* nameLabel: whose name it shows
  image,      \* profileImageView: whose picture
  reads,      \* profile reads sent and not answered
  downloads,  \* [n, view, url, state]: tasks whose block has not run
  dataTask,   \* the number of the last task started; 0 for none
  cache,      \* whose pictures are in the cache
  dataTrap,   \* data! unwrapped nothing
  shows, failures,
  hurried     \* cells reused with a read or a download of their own under way,
              \* and those whose download another one's reuse cancelled

cellVars == <<message, name, image, reads, downloads, dataTask, cache, dataTrap,
             shows, failures, hurried>>

CellsInit ==
  /\ message = [c \in Cells |-> Nobody]
  /\ name = message /\ image = message
  /\ reads = <<>> /\ downloads = {} /\ dataTask = 0 /\ cache = {}
  /\ dataTrap = FALSE
  /\ shows = 0 /\ failures = 0 /\ hurried = {}

ReadsOf(c) == {i \in DOMAIN reads: reads[i].cell = c}
UnderWay(c) == ReadsOf(c) # {} \/ \E d \in downloads: d.view = c

-----------------------------------------------------------------------------
(* The table view.                                                         *)

\* cancelImageRequest: the last task started, whichever cell's it is.
Cancelled(d) == d.n = dataTask /\ d.state = "running"
CancelImageRequest ==
  downloads' = {IF Cancelled(d) THEN [d EXCEPT !.state = "none"] ELSE d : d \in downloads}

\* cellForRowAt: a cell, new or reused, is given a message.
ShowRow(c, p) ==
  /\ ~dataTrap /\ shows < MaxShows
  /\ shows' = shows + 1
  /\ message' = [message EXCEPT ![c] = p]
  /\ reads' = Append(reads, [cell |-> c, of |-> p])
  /\ IF message[c] = Nobody
     THEN UNCHANGED <<name, image, downloads, hurried>>
     ELSE /\ name' = [name EXCEPT ![c] = Nobody]
          /\ image' = [image EXCEPT ![c] = Nobody]
          /\ CancelImageRequest
          /\ hurried' = hurried \cup {d.view : d \in {x \in downloads: Cancelled(x)}}
                        \cup IF UnderWay(c) THEN {c} ELSE {}
  /\ UNCHANGED <<dataTask, cache, dataTrap, failures>>

-----------------------------------------------------------------------------
(* The profile.                                                            *)

\* Mutant: a load cancels the download under way, as if it were its own view's.
LoadImageUsingCacheCancels(c, p) ==
  IF p \in cache
  THEN image' = [image EXCEPT ![c] = p] /\ UNCHANGED <<downloads, dataTask>>
  ELSE /\ image' = [image EXCEPT ![c] = Nobody]
       /\ dataTask' = dataTask + 1
       /\ downloads' = {IF Cancelled(d) THEN [d EXCEPT !.state = "none"] ELSE d : d \in downloads}
            \cup {[n |-> dataTask + 1, view |-> c, url |-> p, state |-> "running"]}

LoadImageUsingCache(c, p) ==
  IF p \in cache
  THEN image' = [image EXCEPT ![c] = p] /\ UNCHANGED <<downloads, dataTask>>
  ELSE /\ image' = [image EXCEPT ![c] = Nobody]
       /\ dataTask' = dataTask + 1
       /\ downloads' = downloads \cup
            {[n |-> dataTask + 1, view |-> c, url |-> p, state |-> "running"]}

\* The block of a read, which asks nothing about the cell's present message.
AnswerProfile ==
  /\ ~dataTrap
  /\ \E i \in DOMAIN reads:
       /\ reads' = RemoveAt(reads, i)
       /\ LET c == reads[i].cell
              p == reads[i].of
          IN IF p \in WithProfile
             THEN name' = [name EXCEPT ![c] = p] /\ LoadImageUsingCache(c, p)
             ELSE UNCHANGED <<name, image, downloads, dataTask>>
  /\ UNCHANGED <<message, cache, dataTrap, shows, failures, hurried>>

-----------------------------------------------------------------------------
(* The picture.                                                            *)

\* The session answers a task: with what the url leads to, or with nothing.
Respond(d, data) ==
  /\ ~dataTrap /\ d.state = "running"
  /\ IF data = "none" THEN failures < MaxFailures /\ failures' = failures + 1
     ELSE data = (IF d.url \in Pictures THEN "picture" ELSE "bytes") /\ UNCHANGED failures
  /\ downloads' = (downloads \ {d}) \cup {[d EXCEPT !.state = data]}
  /\ UNCHANGED <<message, name, image, reads, dataTask, cache, dataTrap, shows, hurried>>

\* Its block on the main queue.
ImageBlock(d) ==
  /\ ~dataTrap /\ d.state # "running"
  /\ downloads' = downloads \ {d}
  /\ dataTrap' = (d.state = "none")
  /\ IF d.state = "picture"
     THEN cache' = cache \cup {d.url} /\ image' = [image EXCEPT ![d.view] = d.url]
     ELSE UNCHANGED <<cache, image>>
  /\ UNCHANGED <<message, name, reads, dataTask, shows, failures, hurried>>

CellsNext ==
  \/ \E c \in Cells, p \in Partners: ShowRow(c, p)
  \/ AnswerProfile
  \/ \E d \in downloads: ImageBlock(d) \/ \E data \in {"none", "picture", "bytes"}: Respond(d, data)

CellsSpec == CellsInit /\ [][CellsNext]_cellVars

-----------------------------------------------------------------------------
(* Properties.                                                             *)

CellsTypeOK ==
  /\ {message, name, image} \subseteq [Cells -> Partners \cup {Nobody}]
  /\ \A d \in downloads:
       /\ d.n \in 1..dataTask /\ d.view \in Cells /\ d.url \in WithProfile
       /\ d.state \in {"running", "none", "picture", "bytes"}
  /\ cache \subseteq Pictures

\* A cell that was never hurried shows its partner or nobody, in both places:
\* its partner's name once no read of it is under way, and the picture once
\* nothing is.
NeverAnothers ==
  \A c \in Cells \ hurried:
    /\ {name[c], image[c]} \subseteq {message[c], Nobody}
    /\ message[c] \in WithProfile /\ ReadsOf(c) = {} => name[c] = message[c]
    /\ message[c] \in WithProfile \cap Pictures /\ ~UnderWay(c) /\ ~dataTrap
         => image[c] = message[c]

\* The unwrapping of data holds as long as no download fails and no cell is
\* reused during one: loads by other cells, which replace the shared handle,
\* cancel nothing.
UnwrapHolds == failures = 0 /\ hurried = {} => ~dataTrap

\* What a row shows, whatever is answered late, and what the shared handle can
\* do to it (RecentMessageCell.swift:49-72, 113-129, Ext+UIImageView.swift:13-41).
CellsRight == CellsTypeOK /\ NeverAnothers /\ UnwrapHolds
=================================================================================
