--------------------------- MODULE DownloadQueue ---------------------------
(***************************************************************************)
(* What a node promises whoever asks it for game content: downloads wait   *)
(* their turn and are made one at a time, a game is in the queue once, a   *)
(* copy comes only from the download whose turn it is, and none is deleted *)
(* while a download of its game waits or runs.                             *)
(***************************************************************************)
CONSTANTS Games, Nobody

VARIABLES
  waiting,  \* games whose download waits
  current,  \* the one whose turn it is
  content   \* games a copy is installed of

queueVars == <<waiting, current, content>>

InQueue(g) == g \in waiting \/ current = g

Init == waiting = {} /\ current = Nobody /\ content = {}

Join(g) == ~InQueue(g) /\ waiting' = waiting \cup {g} /\ UNCHANGED <<current, content>>

\* Cancelled before its turn.
Leave(g) == g \in waiting /\ waiting' = waiting \ {g} /\ UNCHANGED <<current, content>>

Turn(g) ==
  /\ g \in waiting /\ waiting' = waiting \ {g}
  /\ current = Nobody /\ current' = g
  /\ UNCHANGED content

Install(g) == current = g /\ content' = content \cup {g} /\ UNCHANGED <<waiting, current>>

Finish(g) == current = g /\ current' = Nobody /\ UNCHANGED <<waiting, content>>

Delete(g) == ~InQueue(g) /\ content' = content \ {g} /\ UNCHANGED <<waiting, current>>

QueueStep(g) == Join(g) \/ Leave(g) \/ Turn(g) \/ Install(g) \/ Finish(g) \/ Delete(g)

Spec == Init /\ [][\E g \in Games : QueueStep(g)]_queueVars

=============================================================================
