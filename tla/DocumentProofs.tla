---------------------------- MODULE DocumentProofs ----------------------------
(***************************************************************************)
(* Lemmas about the lifecycle and about what handlers make of a case:      *)
(* those of the service's proofs and of the board's.                       *)
(***************************************************************************)
EXTENDS CaseCopies, TLAPS

-----------------------------------------------------------------------------
(* Facts about the lifecycle.                                              *)

\* A legal move is between statuses.
LEMMA MoveTypes ==
  ASSUME NEW s, NEW t, CanMove(s, t)
  PROVE  s \in ReturnStatus /\ t \in ReturnStatus
BY DEF CanMove, Transitions, ReturnStatus

\* Approving applies to a case in manual review, and leads to a label.
LEMMA ApprovalMoves ==
  ASSUME NEW s \in Durable, CanMove(s, "approved")
  PROVE  s = "manual_review" /\ <<s, "label_issued">> \in DurableMoves
BY DEF CanMove, Transitions, ReturnStatus, Durable, InMemoryOnly, DurableMoves

\* An inspection takes a received case to any of its outcomes.
LEMMA InspectionMoves ==
  ASSUME NEW s \in Durable, CanMove(s, "inspecting"),
         NEW t \in {"refunded", "exchanged", "credited", "closed_failed_inspection"}
  PROVE  t \in Durable /\ <<s, t>> \in DurableMoves
BY DEF CanMove, Transitions, ReturnStatus, Durable, InMemoryOnly, DurableMoves

\* A legal move between recorded statuses is a move of the ledger.
LEMMA DirectMoves ==
  ASSUME NEW s \in Durable, NEW t \in Durable, CanMove(s, t)
  PROVE  <<s, t>> \in DurableMoves
BY DEF DurableMoves

\* No move of the ledger leads back to manual review.
LEMMA LedgerMoves ==
  ASSUME NEW s, NEW t, <<s, t>> \in DurableMoves
  PROVE  s \in Durable /\ t \in Durable /\ t # "manual_review"
BY DEF CanMove, Transitions, ReturnStatus, Durable, InMemoryOnly, DurableMoves

-----------------------------------------------------------------------------
(* Facts about documents.                                                  *)

\* A sequence is a prefix of itself, of itself extended, and of what it is a
\* prefix of a prefix of.
LEMMA PrefixReflexive ==
  ASSUME NEW S, NEW s \in Seq(S)
  PROVE  IsPrefix(s, s)
BY DEF IsPrefix

\* Adding an event goes on from a trail.
LEMMA PrefixAppend ==
  ASSUME NEW S, NEW s \in Seq(S), NEW e \in S
  PROVE  IsPrefix(s, Append(s, e))
BY DEF IsPrefix

\* What goes on from a trail that goes on from another goes on from that one.
LEMMA PrefixTransitive ==
  ASSUME NEW S, NEW s \in Seq(S), NEW t \in Seq(S), NEW u \in Seq(S),
         IsPrefix(s, t), IsPrefix(t, u)
  PROVE  IsPrefix(s, u)
BY DEF IsPrefix

\* Every trail goes on from the empty one.
LEMMA PrefixEmpty ==
  ASSUME NEW S, NEW s \in Seq(S)
  PROVE  IsPrefix(<<>>, s)
BY DEF IsPrefix

\* The two agree on everything but status and trail, and b's trail goes on
\* where a's ends.
Amends(b, a) ==
  /\ b.id = a.id /\ b.req = a.req /\ b.version = a.version
  /\ b.label = a.label /\ b.replacement = a.replacement
  /\ IsPrefix(a.events, b.events)

\* add_event changes nothing but the trail, which it extends.
LEMMA AddEventFacts ==
  ASSUME NEW d \in Document, NEW e \in EventName, NEW t \in Nat
  PROVE  /\ AddEvent(d, e, t) \in Document
         /\ AddEvent(d, e, t).status = d.status
         /\ Amends(AddEvent(d, e, t), d)
<1> DEFINE ev == [event |-> e, at |-> t]
<1>1. ev \in Event
  BY DEF Event
<1>2. d.events \in Seq(Event)
  BY DEF Document
<1>3. Append(d.events, ev) \in Seq(Event) /\ IsPrefix(d.events, Append(d.events, ev))
  BY <1>1, <1>2, PrefixAppend
<1> HIDE DEF ev
<1> QED
  BY <1>3 DEF AddEvent, Amends, Document, ev

\* _transition changes the status and extends the trail.
LEMMA TransitionedFacts ==
  ASSUME NEW d \in Document, NEW s \in ReturnStatus, now \in Nat
  PROVE  /\ Transitioned(d, s) \in Document
         /\ Transitioned(d, s).status = s
         /\ Amends(Transitioned(d, s), d)
<1>1. s \in EventName
  BY DEF EventName
<1> DEFINE a == AddEvent(d, s, now)
<1>2. a \in Document /\ Amends(a, d)
  BY <1>1, AddEventFacts
<1>3. Transitioned(d, s) = [a EXCEPT !.status = s]
  BY DEF Transitioned
<1> HIDE DEF a
<1> QED
  BY <1>2, <1>3 DEF Document, Amends

\* Two transitions in a row amend the case as one does.
LEMMA AmendsTransitive ==
  ASSUME NEW a \in Document, NEW b \in Document, NEW c \in Document,
         Amends(b, a), Amends(c, b)
  PROVE  Amends(c, a)
<1>1. a.events \in Seq(Event) /\ b.events \in Seq(Event) /\ c.events \in Seq(Event)
  BY DEF Document
<1>2. IsPrefix(a.events, c.events)
  BY <1>1, PrefixTransitive DEF Amends
<1> QED
  BY <1>2 DEF Amends

\* save gives the document the next version and leaves the rest alone.
LEMMA BumpedFacts ==
  ASSUME NEW d \in Document
  PROVE  /\ Bumped(d) \in Document
         /\ Bumped(d).version = d.version + 1
         /\ Bumped(d).id = d.id /\ Bumped(d).req = d.req
         /\ Bumped(d).status = d.status /\ Bumped(d).label = d.label
         /\ Bumped(d).replacement = d.replacement /\ Bumped(d).events = d.events
BY DEF Bumped, Document

\* The document that stands for nothing is one.
LEMMA NoDocumentFacts == NoDocument \in Document
<1>1. <<>> \in Seq(Event)
  OBVIOUS
<1> QED
  BY <1>1 DEF NoDocument, Document

\* A copy as new as the row after a save is a copy of the row before it.
LEMMA VersionGap ==
  ASSUME NEW old \in Nat, NEW new \in Nat, new >= old, NEW copy \in 1..old
  PROVE  copy \in 1..new /\ (copy = new => copy = old /\ new = old)
OBVIOUS

-----------------------------------------------------------------------------
(* The control steps handlers are made of.                                 *)

\* The step changes the locals of no thread but w.
OnlyLocalsOf(w) ==
  \A v \in Workers \ {w} :
    /\ op'[v] = op[v] /\ pc'[v] = pc[v] /\ doc'[v] = doc[v]
    /\ ask'[v] = ask[v] /\ rest'[v] = rest[v]

\* A worker that finishes is idle with nothing in its hands.
LEMMA FinishFacts ==
  ASSUME LocalTypeOK, NEW w \in Workers, Finish(w)
  PROVE  /\ LocalTypeOK' /\ OnlyLocalsOf(w)
         /\ op'[w] = "none" /\ pc'[w] = "idle" /\ doc'[w] = NoDocument
         /\ rest'[w] = {}
<1>1. NoAsk \in Ask
  BY DEF NoAsk, Ask
<1>2. {} \in SUBSET Document
  OBVIOUS
<1>3. "none" \in Ops /\ "idle" \in Calls
  BY DEF Ops, Calls
<1>4. LocalTypeOK'
  BY <1>1, <1>2, <1>3, NoDocumentFacts DEF LocalTypeOK, Finish
<1>5. OnlyLocalsOf(w)
  BY DEF LocalTypeOK, Finish, OnlyLocalsOf
<1>6. /\ op'[w] = "none" /\ pc'[w] = "idle" /\ doc'[w] = NoDocument
      /\ rest'[w] = {}
  BY DEF LocalTypeOK, Finish
<1> QED
  BY <1>4, <1>5, <1>6

\* Going on to another call changes that and the case in hand.
LEMMA GotoFacts ==
  ASSUME LocalTypeOK, NEW w \in Workers, NEW call \in Calls, NEW d \in Document,
         Goto(w, call, d)
  PROVE  /\ LocalTypeOK' /\ OnlyLocalsOf(w)
         /\ op'[w] = op[w] /\ pc'[w] = call /\ doc'[w] = d
         /\ ask'[w] = ask[w] /\ rest'[w] = rest[w]
<1>1. LocalTypeOK'
  BY DEF LocalTypeOK, Goto
<1>2. OnlyLocalsOf(w)
  BY DEF LocalTypeOK, Goto, OnlyLocalsOf
<1>3. op'[w] = op[w] /\ pc'[w] = call /\ doc'[w] = d /\ ask'[w] = ask[w] /\ rest'[w] = rest[w]
  BY DEF LocalTypeOK, Goto
<1> QED
  BY <1>1, <1>2, <1>3

\* A request taken up also sets the operation.
LEMMA BeginFacts ==
  ASSUME LocalTypeOK, NEW w \in Workers, NEW o \in Ops, NEW call \in Calls,
         NEW d \in Document, Begin(w, o, call, d)
  PROVE  /\ LocalTypeOK' /\ OnlyLocalsOf(w) /\ pc[w] = "idle"
         /\ op'[w] = o /\ pc'[w] = call /\ doc'[w] = d
         /\ ask'[w] = ask[w] /\ rest'[w] = rest[w]
<1>1. LocalTypeOK'
  BY DEF LocalTypeOK, Begin
<1>2. OnlyLocalsOf(w)
  BY DEF LocalTypeOK, Begin, OnlyLocalsOf
<1>3. /\ pc[w] = "idle" /\ op'[w] = o /\ pc'[w] = call /\ doc'[w] = d
      /\ ask'[w] = ask[w] /\ rest'[w] = rest[w]
  BY DEF LocalTypeOK, Begin
<1> QED
  BY <1>1, <1>2, <1>3
=============================================================================
