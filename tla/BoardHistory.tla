----------------------------- MODULE BoardHistory -----------------------------
(***************************************************************************)
(* The board next to an observer that remembers which reviews met with one *)
(* of the three things that let a case be advised again: two requests that *)
(* drive one graph at once, a server that dies between the save of the     *)
(* advice and its checkpoint, and a thread cleared for a new review.  What *)
(* is stated here is that nothing else does.  The observer records and     *)
(* never keeps a step from being taken.                                    *)
(***************************************************************************)
EXTENDS BoardInvariant

VARIABLE strayed   \* the cases whose review met with one of the three

\* A worker drives the graph of case c: its first look at the thread is done.
Drives(w, c) == Of(w) = c /\ run[w].at \notin {"off", "peek", "load"}

\* Two requests drive the graph of one case.
Shared(c) == \E v, w \in Workers : v # w /\ Drives(v, c) /\ Drives(w, c)

AtCheckpoint(w, c) == Of(w) = c /\ run[w].at = "checkpoint"

\* The advice is saved, and the server dies before the thread tells so.
CheckpointLost(c) ==
  \E w \in Workers : AtCheckpoint(w, c) /\ run'[w].at = "off"

\* The thread is cleared, and the case has a new one.
Renewed(c) == thread[c].next = "end" /\ thread'[c].next = "absent"

Record ==
  strayed' = strayed \cup {c \in Cases : Shared(c)' \/ CheckpointLost(c) \/ Renewed(c)}

HistorySpec == (Init /\ strayed = {}) /\ [][Next /\ Record]_<<vars, strayed>>

\* A case's trail records the board's advice once (coordinator.py:185: "runs
\* exactly once per review thread"), whatever refusals, failed saves, crashes and
\* resumed runs there were, unless two requests drove its graph at once, or the
\* server died between the advice and its checkpoint.
AdviceOnce == \A c \in Cases \ strayed : Cardinality(Advice(cases[c])) <= 1

-----------------------------------------------------------------------------
(* Its inductive invariant.                                                *)

\* Where the one run of a review is, by the node its thread has ahead.
StagesAt ==
  [absent      |-> {"invoke"},
   specialists |-> {"specialists"},
   synthesize  |-> {"read", "save", "checkpoint"},
   decide      |-> {"decide", "by_board", "by_human", "finish"},
   end         |-> {"clear"}]

\* A review that did not stray is driven by one worker, which is where the thread
\* stands; and when its advice is in the trail, the thread has moved on or is about to.
ReviewOK(c) ==
  /\ \A v, w \in Workers : Drives(v, c) /\ Drives(w, c) => v = w
  /\ \A w \in Workers : Drives(w, c) => run[w].at \in StagesAt[thread[c].next]
  /\ Cardinality(Advice(cases[c])) <= 1
  /\ Advice(cases[c]) # {} =>
       \/ thread[c].next \in {"decide", "end"}
       \/ \E w \in Workers : AtCheckpoint(w, c)

OnceInv == \A c \in Cases \ strayed : ReviewOK(c)
=============================================================================
