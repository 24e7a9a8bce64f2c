------------------------- MODULE MatchRealtime_proofs -------------------------
(***************************************************************************)
(* What an event carries, and what the page shows, for any number of       *)
(* processes, subscriptions and revisions.                                 *)
(*                                                                         *)
(* The argument does not depend on which lookups share a promise: whatever *)
(* a lookup answers was true of the row at some time, and the row's        *)
(* revision never goes back.  So a task never expects a revision from the  *)
(* future, what it reads afterwards is at least what it expects, and the   *)
(* last check makes the label what it expects.                             *)
(***************************************************************************)
EXTENDS MatchRealtime, TLAPS

\* A task's expectations and answers are not from the future, and what it is
\* about to send is what it expects (a collection may be newer).
TaskOK(u, r) ==
    /\ u.got.rev <= r
    /\ u.expected <= r
    /\ u.pc = "emit" /\ u.expected # 0 => u.content = u.expected
    /\ u.pc = "flowEmit" => u.content >= u.expected

IInv ==
    /\ TypeOK
    /\ \A p \in Processes : lookup[p].rev <= row.rev
    /\ \A t \in Tasks : TaskOK(task[t], row.rev)

\* Revisions are numbers, 0 among them, and every answer of a lookup has one.
LEMMA Numbers ==
    /\ Revisions \subseteq Nat
    /\ 0 \in Revisions
    /\ \A a \in Accesses \cup {Denied, Waiting, NoLookup} : a.rev \in Revisions
    /\ Denied.rev = 0 /\ Waiting.rev = 0 /\ NoLookup.rev = 0
  BY RealtimeAssumption DEF Revisions, Accesses, Denied, Waiting, NoLookup

\* The idle task is a task.
LEMMA IdleTask == NoTask \in TaskRecords /\ \A r \in Nat : TaskOK(NoTask, r)
<1>1. NoTask \in TaskRecords
  BY Numbers DEF NoTask, TaskRecords
<1>2. \A r \in Nat : TaskOK(NoTask, r)
  BY Numbers DEF NoTask, TaskOK
<1> QED
  BY <1>1, <1>2

\* What a task is while it waits: as it was given, without an answer.
LEMMA AskingIs ==
  ASSUME TypeOK, NEW next \in TaskRecords
  PROVE  /\ Asking(next) \in TaskRecords
         /\ Asking(next).pc = next.pc
         /\ Asking(next).expected = next.expected
         /\ Asking(next).content = next.content
         /\ Asking(next).got = Waiting
BY DEF Asking, TaskRecords, Accesses, Statuses, Waiting

\* The frame of every step: the revision does not go back, and whatever changes
\* is not from the future.
LEMMA Frame ==
  ASSUME IInv,
         row' \in Accesses, row'.rev >= row.rev,
         task' \in [Tasks -> TaskRecords],
         \A t \in Tasks : task'[t] = task[t] \/ TaskOK(task'[t], row'.rev),
         lookup' \in [Processes -> Accesses \cup {NoLookup, Waiting}],
         \A p \in Processes : lookup'[p] = lookup[p] \/ lookup'[p].rev <= row.rev,
         joined' \in BOOLEAN, page' \in Pages
  PROVE  IInv'
<1>1. TypeOK'
  BY DEF TypeOK
<1>2. row.rev \in Nat /\ row'.rev \in Nat
  BY Numbers DEF IInv, TypeOK
<1>3. \A p \in Processes : lookup'[p].rev <= row'.rev
  <2> SUFFICES ASSUME NEW p \in Processes PROVE lookup'[p].rev <= row'.rev
    OBVIOUS
  <2>1. lookup'[p].rev \in Nat
    BY Numbers
  <2>2. lookup'[p].rev <= row.rev
    BY DEF IInv
  <2> QED
    BY <1>2, <2>1, <2>2
<1>4. \A t \in Tasks : TaskOK(task'[t], row'.rev)
  <2> SUFFICES ASSUME NEW t \in Tasks, task'[t] = task[t] PROVE TaskOK(task'[t], row'.rev)
    OBVIOUS
  <2>1. TaskOK(task[t], row.rev)
    BY DEF IInv
  <2>2. task[t] \in TaskRecords
    BY DEF IInv, TypeOK
  <2>3. task[t].got.rev \in Nat /\ task[t].expected \in Nat
    BY <2>2, Numbers DEF TaskRecords
  <2> QED
    BY <1>2, <2>1, <2>3 DEF TaskOK
<1> QED
  BY <1>1, <1>3, <1>4 DEF IInv

\* A step in which a task waits for a lookup and the row stays.
LEMMA AwaitPreserves ==
  ASSUME IInv, NEW p, NEW t \in Tasks, NEW next \in TaskRecords,
         AwaitAt(p, t, next),
         row' \in Accesses, row'.rev >= row.rev,
         next.expected <= row'.rev,
         next.pc = "emit" /\ next.expected # 0 => next.content = next.expected,
         next.pc = "flowEmit" => next.content >= next.expected,
         joined' \in BOOLEAN, page' \in Pages
  PROVE  IInv'
<1>1. TypeOK
  BY DEF IInv
<1>2. Asking(next) \in TaskRecords /\ TaskOK(Asking(next), row'.rev)
  <2>1. row'.rev \in Nat
    BY Numbers
  <2> QED
    BY <1>1, <2>1, AskingIs, Numbers DEF TaskOK
<1>3. task' = [task EXCEPT ![t] = Asking(next)]
  BY DEF AwaitAt
<1>4. task' \in [Tasks -> TaskRecords]
  BY <1>1, <1>2, <1>3 DEF TypeOK
<1>5. \A u \in Tasks : task'[u] = task[u] \/ TaskOK(task'[u], row'.rev)
  BY <1>1, <1>2, <1>3 DEF TypeOK
<1>6. lookup' = [lookup EXCEPT ![p] = IF @ = NoLookup THEN Waiting ELSE @]
  BY DEF AwaitAt
<1>7. lookup' \in [Processes -> Accesses \cup {NoLookup, Waiting}]
  BY <1>1, <1>6 DEF TypeOK
<1>8. \A q \in Processes : lookup'[q] = lookup[q] \/ lookup'[q] = Waiting
  BY <1>1, <1>6 DEF TypeOK
<1>9. row.rev \in Nat
  BY <1>1, Numbers DEF TypeOK
<1>10. \A q \in Processes : lookup'[q] = lookup[q] \/ lookup'[q].rev <= row.rev
  BY <1>8, <1>9, Numbers
<1> QED
  BY <1>4, <1>5, <1>7, <1>10, Frame

\* A step in which a task goes on without waiting, or ends.
LEMMA MovePreserves ==
  ASSUME IInv, NEW t \in Tasks, NEW label \in {"read", "flowRead"},
         Goto(t, label) \/ Done(t),
         row' = row, joined' \in BOOLEAN, page' \in Pages
  PROVE  IInv'
<1>1. TypeOK
  BY DEF IInv
<1>a. row \in Accesses
  BY <1>1 DEF TypeOK
<1>b. row.rev \in Nat
  BY <1>a, Numbers
<1>2. row.rev \in Nat /\ row' \in Accesses /\ row'.rev >= row.rev
  BY <1>a, <1>b
<1>3. task[t] \in TaskRecords /\ TaskOK(task[t], row.rev)
  BY DEF IInv, TypeOK
<1>4. PICK next \in TaskRecords : /\ task' = [task EXCEPT ![t] = next]
                                  /\ TaskOK(next, row.rev)
  <2>1. CASE Goto(t, label)
    <3> DEFINE next == [task[t] EXCEPT !.pc = label, !.got = Denied]
    <3>1. task' = [task EXCEPT ![t] = next]
      BY <1>1, <2>1 DEF Goto, TypeOK
    <3>2. next \in TaskRecords
      BY <1>3 DEF TaskRecords
    <3>3. next.pc = label /\ next.expected = task[t].expected /\ next.got = Denied
      BY <1>3 DEF TaskRecords
    <3>4. TaskOK(next, row.rev)
      BY <1>2, <1>3, <3>3, Numbers DEF TaskOK
    <3> QED
      BY <3>1, <3>2, <3>4
  <2>2. CASE Done(t)
    BY <1>2, <2>2, IdleTask DEF Done
  <2> QED
    BY <2>1, <2>2
<1>5. task' \in [Tasks -> TaskRecords]
  BY <1>1, <1>4 DEF TypeOK
<1>6. \A u \in Tasks : task'[u] = task[u] \/ TaskOK(task'[u], row.rev)
  BY <1>1, <1>4 DEF TypeOK
<1>7. lookup' = lookup
  BY DEF Goto, Done
<1>8. lookup' \in [Processes -> Accesses \cup {NoLookup, Waiting}]
  BY <1>1, <1>7 DEF TypeOK
<1>9. \A u \in Tasks : task'[u] = task[u] \/ TaskOK(task'[u], row'.rev)
  BY <1>6
<1> QED
  BY <1>2, <1>5, <1>7, <1>8, <1>9, Frame

\* The facts about a task that has a typed state.
LEMMA TaskFacts ==
  ASSUME IInv, NEW t \in Tasks
  PROVE  /\ TypeOK
         /\ task[t] \in TaskRecords
         /\ TaskOK(task[t], row.rev)
         /\ row.rev \in Revisions /\ row.rev \in Nat
         /\ task[t].got.rev \in Revisions /\ task[t].got.rev \in Nat
         /\ task[t].expected \in Revisions /\ task[t].expected \in Nat
         /\ task[t].content \in Revisions /\ task[t].content \in Nat
<1>1. TypeOK /\ TaskOK(task[t], row.rev) /\ task[t] \in TaskRecords /\ row \in Accesses
  BY DEF IInv, TypeOK
<1>2. row.rev \in Revisions
  BY <1>1, Numbers
<1>3. task[t].got \in Accesses \cup {Denied, Waiting}
  BY <1>1 DEF TaskRecords
<1>4. task[t].expected \in Revisions /\ task[t].content \in Revisions
  BY <1>1 DEF TaskRecords
<1> QED
  BY <1>1, <1>2, <1>3, <1>4, Numbers

\* A lookup's steps keep the invariant: what it reads is the row.
LEMMA LookupPreserves ==
  ASSUME IInv, NEW p \in Processes,
         RequestLookup(p) \/ ReadLookup(p) \/ ResolveLookup(p) \/ FailLookup(p)
  PROVE  IInv'
<1>1. TypeOK /\ row \in Accesses /\ row.rev \in Nat
  BY Numbers DEF IInv, TypeOK
<1>2. row' = row /\ joined' = joined /\ page' = page
  BY DEF RequestLookup, ReadLookup, ResolveLookup, FailLookup, ResolveWith
<1>3. PICK answer \in Accesses \cup {NoLookup, Waiting} :
         /\ lookup' = [lookup EXCEPT ![p] = answer]
         /\ answer.rev <= row.rev
  <2> DEFINE Answers == Accesses \cup {NoLookup, Waiting}
             Is(answer) == lookup' = [lookup EXCEPT ![p] = answer] /\ answer.rev <= row.rev
  <2>0. NoLookup \in Answers /\ Waiting \in Answers /\ row \in Answers
    BY <1>1
  <2>1. CASE RequestLookup(p)
    <3>1. Is(Waiting)
      BY <1>1, <2>1, Numbers DEF RequestLookup
    <3> QED
      BY <2>0, <3>1
  <2>2. CASE ReadLookup(p)
    <3>1. Is(row)
      BY <1>1, <2>2 DEF ReadLookup
    <3> QED
      BY <2>0, <3>1
  <2>3. CASE ResolveLookup(p) \/ FailLookup(p)
    <3>1. Is(NoLookup)
      BY <1>1, <2>3, Numbers DEF ResolveLookup, FailLookup, ResolveWith
    <3> QED
      BY <2>0, <3>1
  <2> QED
    BY <2>1, <2>2, <2>3
<1>4. lookup' \in [Processes -> Accesses \cup {NoLookup, Waiting}]
  BY <1>1, <1>3 DEF TypeOK
<1>5. \A q \in Processes : lookup'[q] = lookup[q] \/ lookup'[q].rev <= row.rev
  BY <1>1, <1>3 DEF TypeOK
<1>6. /\ task' \in [Tasks -> TaskRecords]
      /\ \A t \in Tasks : task'[t] = task[t] \/ TaskOK(task'[t], row.rev)
  <2>1. CASE task' = task
    BY <1>1, <2>1 DEF TypeOK
  <2>2. ASSUME NEW a \in Accesses \cup {Denied}, a.rev <= row.rev, ResolveWith(p, a)
        PROVE  <1>6!:
    <3> DEFINE given(t) == IF task[t].pc \in Awaits /\ ProcessOf(t) = p
                           THEN [task[t] EXCEPT !.got = a] ELSE task[t]
    <3>1. task' = [t \in Tasks |-> given(t)]
      BY <2>2 DEF ResolveWith
    <3>2. ASSUME NEW t \in Tasks
          PROVE  given(t) \in TaskRecords /\ (given(t) = task[t] \/ TaskOK(given(t), row.rev))
      <4>1. task[t] \in TaskRecords /\ TaskOK(task[t], row.rev)
        BY TaskFacts
      <4> DEFINE next == [task[t] EXCEPT !.got = a]
      <4>2. next \in TaskRecords
        BY <2>2, <4>1 DEF TaskRecords
      <4>3. /\ next.pc = task[t].pc /\ next.expected = task[t].expected
            /\ next.content = task[t].content /\ next.got = a
        BY <4>1 DEF TaskRecords
      <4>4. TaskOK(next, row.rev)
        BY <2>2, <4>1, <4>3 DEF TaskOK
      <4> QED
        BY <4>1, <4>2, <4>4
    <3> HIDE DEF given
    <3> QED
      BY <3>1, <3>2
  <2>3. CASE ResolveLookup(p)
    <3>1. lookup[p] \in Accesses \cup {Denied} /\ lookup[p].rev <= row.rev
      BY <1>1, <2>3 DEF ResolveLookup, IInv, TypeOK
    <3> QED
      BY <2>2, <2>3, <3>1 DEF ResolveLookup
  <2>4. CASE FailLookup(p)
    <3>1. Denied.rev <= row.rev
      BY <1>1, Numbers
    <3> QED
      BY <2>2, <2>4, <3>1 DEF FailLookup
  <2> QED
    BY <2>1, <2>3, <2>4 DEF RequestLookup, ReadLookup
<1>7. row' \in Accesses /\ row'.rev >= row.rev /\ joined' \in BOOLEAN /\ page' \in Pages
  BY <1>1, <1>2 DEF TypeOK
<1>8. \A t \in Tasks : task'[t] = task[t] \/ TaskOK(task'[t], row'.rev)
  BY <1>2, <1>6
<1>9. task' \in [Tasks -> TaskRecords]
  BY <1>6
<1> QED
  BY <1>4, <1>5, <1>7, <1>8, <1>9, Frame

\* A commit moves the row to its next revision.
LEMMA NextRevision ==
  ASSUME row \in Accesses, row.rev < MaxRevision, NEW status \in Statuses,
         row' = [row EXCEPT !.status = status, !.rev = @ + 1]
  PROVE  /\ row' \in Accesses /\ row'.rev = row.rev + 1
         /\ row.rev + 1 \in Revisions /\ row'.rev >= row.rev
<1>1. row.rev \in Nat /\ MaxRevision \in Nat
  BY Numbers, RealtimeAssumption
<1>2. row.rev + 1 \in Revisions
  BY <1>1 DEF Revisions
<1>3. row' \in Accesses /\ row'.rev = row.rev + 1
  BY <1>2 DEF Accesses
<1> QED
  BY <1>1, <1>2, <1>3

\* The row's own steps keep the invariant: its revision does not go back.
LEMMA RowPreserves ==
  ASSUME IInv, CommitElsewhere \/ CompleteWithoutDetail \/ Revoke \/ Publish
  PROVE  IInv'
<1>1. TypeOK /\ row \in Accesses /\ row.rev \in Nat /\ row.rev \in 0..MaxRevision
  BY Numbers DEF IInv, TypeOK, Revisions
<1>2. row' \in Accesses /\ row'.rev >= row.rev
  <2>1. CASE CommitElsewhere
    <3>1. PICK status \in {"LIVE", "FINAL"} :
             row' = [row EXCEPT !.status = status, !.rev = @ + 1]
      BY <2>1 DEF CommitElsewhere
    <3>2. status \in Statuses /\ row.rev < MaxRevision
      BY <2>1 DEF CommitElsewhere, Statuses
    <3> QED
      BY <1>1, <3>1, <3>2, NextRevision
  <2>2. CASE CompleteWithoutDetail \/ Revoke \/ Publish
    <3>1. PICK status \in Statuses, public \in BOOLEAN :
             row' = [row EXCEPT !.status = status, !.public = public]
      BY <1>1, <2>2 DEF CompleteWithoutDetail, Revoke, Publish, Accesses, Statuses
    <3>2. row' \in Accesses /\ row'.rev = row.rev
      BY <1>1, <3>1 DEF Accesses
    <3> QED
      BY <1>1, <3>2
  <2> QED
    BY <2>1, <2>2
<1>3. lookup' = lookup /\ joined' = joined /\ page' = page
  BY DEF CommitElsewhere, CompleteWithoutDetail, Revoke, Publish
<1>4. task' = task
  BY DEF CommitElsewhere, CompleteWithoutDetail, Revoke, Publish
<1>5. lookup' \in [Processes -> Accesses \cup {NoLookup, Waiting}]
  BY <1>1, <1>3 DEF TypeOK
<1>6. joined' \in BOOLEAN /\ page' \in Pages
  BY <1>1, <1>3 DEF TypeOK
<1>7. task' \in [Tasks -> TaskRecords]
  BY <1>1, <1>4 DEF TypeOK
<1>8. \A t \in Tasks : task'[t] = task[t] \/ TaskOK(task'[t], row'.rev)
  BY <1>4
<1>9. \A p \in Processes : lookup'[p] = lookup[p] \/ lookup'[p].rev <= row.rev
  BY <1>3
<1> QED
  BY <1>2, <1>5, <1>6, <1>7, <1>8, <1>9, Frame

\* A new worker's task and a page that comes or goes keep the invariant.
LEMMA StartPreserves ==
  ASSUME IInv,
         \/ Disconnect
         \/ \E p \in Processes : Commit(p) \/ \E t \in Subscriptions : Connect(p, t)
  PROVE  IInv'
<1>1. TypeOK /\ row \in Accesses /\ row.rev \in Nat /\ row.rev \in 0..MaxRevision
  BY Numbers DEF IInv, TypeOK, Revisions
<1>2. CASE Disconnect
  <2>1. row' = row /\ lookup' = lookup /\ joined' = FALSE
    BY <1>2 DEF Disconnect
  <2>2. page' \in Pages
    BY <1>1, <1>2 DEF Disconnect, TypeOK, Pages
  <2>3. task' = [t \in Tasks |-> IF At(t, "subscribe") THEN NoTask ELSE task[t]]
    BY <1>2 DEF Disconnect
  <2>4. task' \in [Tasks -> TaskRecords]
    BY <1>1, <2>3, IdleTask DEF TypeOK
  <2>5. \A t \in Tasks : task'[t] = task[t] \/ TaskOK(task'[t], row'.rev)
    BY <1>1, <2>1, <2>3, IdleTask
  <2>6. lookup' \in [Processes -> Accesses \cup {NoLookup, Waiting}]
    BY <1>1, <2>1 DEF TypeOK
  <2>7. row' \in Accesses /\ row'.rev >= row.rev
    BY <1>1, <2>1
  <2>8. \A p \in Processes : lookup'[p] = lookup[p] \/ lookup'[p].rev <= row.rev
    BY <2>1
  <2> QED
    BY <2>1, <2>2, <2>4, <2>5, <2>6, <2>7, <2>8, Frame
<1>3. ASSUME NEW p \in Processes, NEW t \in Subscriptions, Connect(p, t) PROVE IInv'
  <2> DEFINE next == [NoTask EXCEPT !.pc = "subscribe", !.at = p]
  <2>1. next \in TaskRecords
    BY IdleTask DEF TaskRecords, Awaits
  <2>2. next.pc = "subscribe" /\ next.expected = 0
    BY DEF NoTask
  <2>3. AwaitAt(p, t, next) /\ row' = row /\ joined' = joined
    BY <1>3 DEF Connect
  <2>4. page' \in Pages
    BY <1>1, <1>3 DEF Connect, TypeOK, Pages
  <2>5. t \in Tasks /\ joined' \in BOOLEAN
    BY <1>1, <2>3 DEF Tasks, TypeOK
  <2>6. row' \in Accesses /\ row'.rev >= row.rev /\ next.expected <= row'.rev
    BY <1>1, <2>2, <2>3
  <2> HIDE DEF next
  <2> QED
    BY <2>1, <2>2, <2>3, <2>4, <2>5, <2>6, AwaitPreserves
<1>4. ASSUME NEW w \in Processes, Commit(w) PROVE IInv'
  <2>1. PICK live \in BOOLEAN :
           /\ row' = [row EXCEPT !.status = IF live THEN "LIVE" ELSE "FINAL", !.rev = @ + 1]
           /\ Await(w, [NoTask EXCEPT !.pc = FirstLookup(live), !.live = live,
                                      !.expected = row.rev + 1])
    BY <1>4 DEF Commit
  <2> DEFINE next == [NoTask EXCEPT !.pc = FirstLookup(live), !.live = live,
                                    !.expected = row.rev + 1]
  <2>2. row' \in Accesses /\ row'.rev = row.rev + 1 /\ row.rev + 1 \in Revisions
    <3> DEFINE status == IF live THEN "LIVE" ELSE "FINAL"
    <3>1. status \in Statuses /\ row.rev < MaxRevision
      BY <1>4 DEF Commit, Statuses
    <3>2. row' = [row EXCEPT !.status = status, !.rev = @ + 1]
      BY <2>1
    <3> HIDE DEF status
    <3> QED
      BY <1>1, <3>1, <3>2, NextRevision
  <2>3. FirstLookup(live) \in {"flush", "access"}
    BY DEF FirstLookup
  <2>4. next \in TaskRecords
    BY <2>2, <2>3, IdleTask DEF TaskRecords, Awaits
  <2>5. next.pc \in {"flush", "access"} /\ next.expected = row.rev + 1
    BY <2>3 DEF NoTask
  <2>6. w \in Tasks /\ joined' \in BOOLEAN /\ page' \in Pages
    BY <1>1, <1>4 DEF Commit, Tasks, TypeOK
  <2>7. AwaitAt(ProcessOf(w), w, next)
    BY <2>1 DEF Await
  <2>8. row'.rev >= row.rev /\ next.expected <= row'.rev
    BY <1>1, <2>2, <2>5
  <2> HIDE DEF next
  <2> QED
    BY <2>2, <2>4, <2>5, <2>6, <2>7, <2>8, AwaitPreserves
<1> QED
  BY <1>2, <1>3, <1>4

\* What an event does to the page leaves it a page.
LEMMA EmitPreserves ==
  ASSUME IInv, NEW t \in Tasks, NEW part \in {"score", "flow"}, Emit(t, part)
  PROVE  page' \in Pages
<1>1. page \in Pages /\ task[t].got.rev \in Revisions /\ task[t].content \in Revisions
  BY TaskFacts DEF IInv, TypeOK
<1>2. \/ page' = page
      \/ page' = [page EXCEPT !.latest = task[t].got.rev,
                     !.score = IF part = "score" THEN task[t].content ELSE @]
  BY DEF Emit
<1>3. CASE part = "score"
  BY <1>1, <1>2, <1>3 DEF Pages
<1>4. CASE part = "flow"
  BY <1>1, <1>2, <1>4 DEF Pages
<1> QED
  BY <1>3, <1>4

\* The steps of a broadcast keep the invariant: each read is made after the
\* check of the revision it is compared with.
LEMMA ProceedPreserves ==
  ASSUME IInv, NEW t \in Tasks, Proceed(t)
  PROVE  IInv'
<1>1. /\ TypeOK
      /\ task[t] \in TaskRecords
      /\ TaskOK(task[t], row.rev)
      /\ row.rev \in Revisions /\ row.rev \in Nat
      /\ task[t].got.rev \in Revisions /\ task[t].got.rev \in Nat
      /\ task[t].expected \in Revisions /\ task[t].expected \in Nat
      /\ task[t].content \in Revisions /\ task[t].content \in Nat
  BY TaskFacts
<1>2. row \in Accesses /\ joined \in BOOLEAN /\ page \in Pages
  BY <1>1 DEF TypeOK
<1>3. row' = row
  BY DEF Proceed, Subscribe, Flushed, CheckAccess, ReadRow, EmitScore,
         CheckFlowAccess, ReadFlow, EmitFlow
<1>4. row' \in Accesses /\ row'.rev >= row.rev /\ row'.rev = row.rev
  BY <1>1, <1>2, <1>3
<1>5. ASSUME NEW label \in {"flush", "access", "flowAccess"},
             Await(t, [task[t] EXCEPT !.pc = label]),
             joined' \in BOOLEAN, page' \in Pages
      PROVE  IInv'
  <2> DEFINE next == [task[t] EXCEPT !.pc = label]
  <2>1. next \in TaskRecords
    BY <1>1 DEF TaskRecords, Awaits
  <2>2. next.pc = label /\ next.expected = task[t].expected
    BY <1>1 DEF TaskRecords
  <2>3. AwaitAt(ProcessOf(t), t, next)
    BY <1>5 DEF Await
  <2>4. next.expected <= row'.rev
    BY <1>1, <1>4, <2>2 DEF TaskOK
  <2> HIDE DEF next
  <2> QED
    BY <1>4, <1>5, <2>1, <2>2, <2>3, <2>4, AwaitPreserves
<1>6. ASSUME Subscribe(t) PROVE IInv'
  <2> DEFINE access == task[t].got
             next == [task[t] EXCEPT !.pc = "access", !.expected = access.rev]
  <2>1. joined' = (joined \/ Exposed(access)) /\ page' = page
    BY <1>6 DEF Subscribe
  <2>2. joined' \in BOOLEAN
    <3>a. access \in Accesses \cup {Denied, Waiting}
      BY <1>1 DEF TaskRecords
    <3>b. Denied.public \in BOOLEAN /\ Waiting.public \in BOOLEAN
      BY DEF Denied, Waiting
    <3>c. \A found \in Accesses : found.public \in BOOLEAN
      BY DEF Accesses
    <3> HIDE DEF access
    <3>1. access.public \in BOOLEAN
      BY <3>a, <3>b, <3>c
    <3>2. Exposed(access) \in BOOLEAN
      BY <3>1 DEF Exposed
    <3> QED
      BY <1>2, <2>1, <3>2
  <2>3. CASE Done(t)
    BY <1>2, <1>3, <2>1, <2>2, <2>3, MovePreserves
  <2>4. CASE Await(t, next)
    <3>1. next \in TaskRecords
      BY <1>1 DEF TaskRecords, Awaits
    <3>2. next.pc = "access" /\ next.expected = access.rev
      BY <1>1 DEF TaskRecords
    <3>3. AwaitAt(ProcessOf(t), t, next)
      BY <2>4 DEF Await
    <3>4. next.expected <= row'.rev
      BY <1>1, <1>4, <3>2 DEF TaskOK
    <3>5. page' \in Pages
      BY <1>2, <2>1
    <3> HIDE DEF next
    <3> QED
      BY <1>4, <2>2, <3>1, <3>2, <3>3, <3>4, <3>5, AwaitPreserves
  <2> QED
    BY <1>6, <2>3, <2>4 DEF Subscribe
<1>7. ASSUME Flushed(t) PROVE IInv'
  <2>1. /\ Await(t, [task[t] EXCEPT !.pc = "access"])
        /\ joined' \in BOOLEAN /\ page' \in Pages
    BY <1>2, <1>7 DEF Flushed
  <2> QED
    BY <1>5, <2>1
<1>8. ASSUME CheckAccess(t) PROVE IInv'
  <2>1. joined' \in BOOLEAN /\ page' \in Pages
    BY <1>2, <1>8 DEF CheckAccess
  <2>2. \/ Goto(t, "read")
        \/ Await(t, [task[t] EXCEPT !.pc = "flowAccess"])
        \/ Done(t)
    BY <1>8 DEF CheckAccess, GiveUpScore
  <2> QED
    BY <1>3, <1>5, <2>1, <2>2, MovePreserves
<1>9. ASSUME ReadRow(t) PROVE IInv'
  <2>1. joined' \in BOOLEAN /\ page' \in Pages
    BY <1>2, <1>9 DEF ReadRow
  <2> DEFINE next == [task[t] EXCEPT !.pc = "emit", !.content = row.rev]
  <2>2. CASE SendableRow(t)
    <3>1. next \in TaskRecords
      BY <1>1 DEF TaskRecords, Awaits
    <3>2. /\ next.pc = "emit" /\ next.expected = task[t].expected
          /\ next.content = row.rev
      BY <1>1 DEF TaskRecords
    <3>3. AwaitAt(ProcessOf(t), t, next)
      BY <1>9, <2>2 DEF ReadRow, Await
    <3>4. next.expected <= row'.rev
      BY <1>1, <1>4, <3>2 DEF TaskOK
    <3>5. next.expected # 0 => next.content = next.expected
      BY <2>2, <3>2 DEF SendableRow, HasRevision
    <3> HIDE DEF next
    <3> QED
      BY <1>4, <2>1, <3>1, <3>2, <3>3, <3>4, <3>5, AwaitPreserves
  <2>3. CASE ~SendableRow(t)
    BY <1>3, <1>5, <1>9, <2>1, <2>3, MovePreserves DEF ReadRow, GiveUpScore
  <2> QED
    BY <2>2, <2>3
<1>10. ASSUME EmitScore(t) PROVE IInv'
  <2> DEFINE next == [task[t] EXCEPT !.pc = "flowAccess", !.content = 0]
  <2>1. page' \in Pages /\ joined' \in BOOLEAN
    BY <1>2, <1>10, EmitPreserves DEF EmitScore
  <2>2. next \in TaskRecords
    BY <1>1, Numbers DEF TaskRecords, Awaits
  <2>3. next.pc = "flowAccess" /\ next.expected = task[t].expected
    BY <1>1 DEF TaskRecords
  <2>4. AwaitAt(ProcessOf(t), t, next)
    BY <1>10 DEF EmitScore, Await
  <2>5. next.expected <= row'.rev
    BY <1>1, <1>4, <2>3 DEF TaskOK
  <2> HIDE DEF next
  <2> QED
    BY <1>4, <2>1, <2>2, <2>3, <2>4, <2>5, AwaitPreserves
<1>11. ASSUME CheckFlowAccess(t) PROVE IInv'
  BY <1>2, <1>3, <1>11, MovePreserves DEF CheckFlowAccess
<1>12. ASSUME ReadFlow(t) PROVE IInv'
  <2> DEFINE next == [task[t] EXCEPT !.pc = "flowEmit", !.content = row.rev]
  <2>1. joined' \in BOOLEAN /\ page' \in Pages
    BY <1>2, <1>12 DEF ReadFlow
  <2>2. next \in TaskRecords
    BY <1>1 DEF TaskRecords, Awaits
  <2>3. /\ next.pc = "flowEmit" /\ next.expected = task[t].expected
        /\ next.content = row.rev
    BY <1>1 DEF TaskRecords
  <2>4. AwaitAt(ProcessOf(t), t, next)
    BY <1>12 DEF ReadFlow, Await
  <2>5. next.expected <= row'.rev /\ next.content >= next.expected
    BY <1>1, <1>4, <2>3 DEF TaskOK
  <2> HIDE DEF next
  <2> QED
    BY <1>4, <2>1, <2>2, <2>3, <2>4, <2>5, AwaitPreserves
<1>13. ASSUME EmitFlow(t) PROVE IInv'
  BY <1>2, <1>3, <1>13, EmitPreserves, MovePreserves DEF EmitFlow
<1> QED
  BY <1>6, <1>7, <1>8, <1>9, <1>10, <1>11, <1>12, <1>13 DEF Proceed

\* Initially nothing waits and nothing has been read.
LEMMA InitEstablishes == Init => IInv
<1> SUFFICES ASSUME Init PROVE IInv
  OBVIOUS
<1>1. row \in Accesses
  BY RealtimeAssumption DEF Init, Accesses, Statuses, Revisions
<1>2. row.rev \in Nat
  BY <1>1, Numbers
<1>3. page \in Pages /\ joined \in BOOLEAN
  BY Numbers DEF Init, NoPage, Pages
<1>4. /\ task \in [Tasks -> TaskRecords]
      /\ lookup \in [Processes -> Accesses \cup {NoLookup, Waiting}]
  BY IdleTask DEF Init
<1>5. \A t \in Tasks : TaskOK(task[t], row.rev)
  BY <1>2, IdleTask DEF Init
<1>6. \A p \in Processes : lookup[p].rev <= row.rev
  <2> SUFFICES ASSUME NEW p \in Processes PROVE lookup[p].rev <= row.rev
    OBVIOUS
  <2>1. lookup[p] = NoLookup
    BY DEF Init
  <2>2. lookup[p].rev = 0
    BY <2>1, Numbers
  <2> QED
    BY <1>2, <2>2
<1> QED
  BY <1>1, <1>3, <1>4, <1>5, <1>6 DEF IInv, TypeOK

\* Every step of the processes, the pages and their surroundings keeps it.
LEMMA StepPreserves == IInv /\ [Next]_vars => IInv'
<1> SUFFICES ASSUME IInv, [Next]_vars PROVE IInv'
  OBVIOUS
<1>1. CASE \E p \in Processes : ReadLookup(p) \/ ResolveLookup(p)
  BY <1>1, LookupPreserves
<1>2. CASE \E p \in Processes : Commit(p)
  BY <1>2, StartPreserves
<1>3. CASE \E t \in Tasks : Proceed(t)
  BY <1>3, ProceedPreserves
<1>4. CASE Page
  BY <1>4, StartPreserves DEF Page
<1>5. CASE Environment
  BY <1>5, LookupPreserves, RowPreserves DEF Environment
<1>6. CASE UNCHANGED vars
  BY <1>6 DEF vars, IInv, TypeOK
<1> QED
  BY <1>1, <1>2, <1>3, <1>4, <1>5, <1>6 DEF Next

\* The inductive invariant holds in every reachable state.
THEOREM RealtimeInvariance == Spec => []IInv
  BY InitEstablishes, StepPreserves, PTL DEF Spec

\* No versioned event is older than its label, and a score is exactly what its
\* label says, for any number of processes and subscriptions.
THEOREM EventsAreCurrent == Spec => []VersionedEventsAreCurrent
<1>1. IInv => VersionedEventsAreCurrent
  <2> SUFFICES ASSUME IInv, NEW t \in Tasks, Emitting(t), task[t].expected # 0
               PROVE  /\ task[t].content >= task[t].got.rev
                      /\ At(t, "emit") => task[t].content = task[t].got.rev
    BY DEF VersionedEventsAreCurrent
  <2>1. task[t].got.rev = task[t].expected /\ task[t].pc \in {"emit", "flowEmit"}
    BY DEF Emitting, CanEmit, HasRevision
  <2>2. TaskOK(task[t], row.rev) /\ task[t].expected \in Nat /\ task[t].content \in Nat
    BY TaskFacts
  <2> QED
    BY <2>1, <2>2 DEF TaskOK, At
<1> QED
  BY <1>1, RealtimeInvariance, PTL

-----------------------------------------------------------------------------
(* The score on the page, for a match that has a revision                  *)

Broadcasting == {"flush", "access", "read", "emit", "flowAccess", "flowRead", "flowEmit"}

\* Whatever was read of the match has a revision, and every broadcast expects one.
Versioned ==
    /\ \A p \in Processes : lookup[p] \in {NoLookup, Waiting} \/ lookup[p].rev # 0
    /\ \A t \in Tasks : task[t].got \in {Denied, Waiting} \/ task[t].got.rev # 0
    /\ \A t \in Tasks : task[t].pc \in Broadcasting => task[t].expected # 0

\* The page shows no score that is newer than the newest revision it has seen.
ScoreInv ==
    /\ IInv
    /\ row.rev # 0
    /\ Versioned
    /\ page.score <= page.latest

\* A step in which a task waits for a lookup: a broadcast expects a revision.
LEMMA AwaitVersioned ==
  ASSUME TypeOK, Versioned, NEW p, NEW t \in Tasks, NEW next \in TaskRecords,
         AwaitAt(p, t, next), next.pc \in Broadcasting => next.expected # 0
  PROVE  Versioned'
<1>1. /\ Asking(next).pc = next.pc /\ Asking(next).expected = next.expected
      /\ Asking(next).got = Waiting
  BY AskingIs
<1>2. \A u \in Tasks : task'[u] = IF u = t THEN Asking(next) ELSE task[u]
  BY DEF AwaitAt, TypeOK
<1>3. \A q \in Processes : lookup'[q] = lookup[q] \/ lookup'[q] = Waiting
  BY DEF AwaitAt, TypeOK
<1> QED
  BY <1>1, <1>2, <1>3 DEF Versioned

\* A step in which a task goes on without waiting, or ends.
LEMMA MoveVersioned ==
  ASSUME TypeOK, Versioned, NEW t \in Tasks, NEW label,
         task[t].expected # 0, Goto(t, label) \/ Done(t)
  PROVE  Versioned'
<1>1. task[t] \in TaskRecords /\ lookup' = lookup
  BY DEF TypeOK, Goto, Done
<1>2. CASE Goto(t, label)
  <2>1. \A u \in Tasks :
          task'[u] = IF u = t THEN [task[t] EXCEPT !.pc = label, !.got = Denied] ELSE task[u]
    BY <1>2 DEF Goto, TypeOK
  <2>2. task'[t].got = Denied /\ task'[t].expected = task[t].expected
    BY <1>1, <2>1 DEF TaskRecords
  <2> QED
    BY <1>1, <2>1, <2>2 DEF Versioned
<1>3. CASE Done(t)
  <2>1. \A u \in Tasks : task'[u] = IF u = t THEN NoTask ELSE task[u]
    BY <1>3 DEF Done, TypeOK
  <2>2. NoTask.got = Denied /\ NoTask.pc \notin Broadcasting
    BY DEF NoTask, Broadcasting
  <2> QED
    BY <1>1, <2>1, <2>2 DEF Versioned
<1> QED
  BY <1>2, <1>3

\* A subscription that ends expects nothing.
LEMMA EndVersioned ==
  ASSUME TypeOK, Versioned, NEW t \in Tasks, Done(t)
  PROVE  Versioned'
<1>1. \A u \in Tasks : task'[u] = IF u = t THEN NoTask ELSE task[u]
  BY DEF Done, TypeOK
<1>2. NoTask.got = Denied /\ NoTask.pc \notin Broadcasting
  BY DEF NoTask, Broadcasting
<1> QED
  BY <1>1, <1>2 DEF Versioned, Done

\* Every step of a broadcast keeps what it expects.
LEMMA ProceedVersioned ==
  ASSUME ScoreInv, NEW t \in Tasks, Proceed(t)
  PROVE  Versioned'
<1>1. TypeOK /\ Versioned /\ task[t] \in TaskRecords
  BY DEF ScoreInv, IInv, TypeOK
<1>2. ASSUME NEW label \in Broadcasting, NEW content \in Revisions, task[t].expected # 0,
             \/ Await(t, [task[t] EXCEPT !.pc = label])
             \/ Await(t, [task[t] EXCEPT !.pc = label, !.content = content]),
             label \in Awaits
      PROVE  Versioned'
  <2>1. PICK next : /\ AwaitAt(ProcessOf(t), t, next)
                    /\ \/ next = [task[t] EXCEPT !.pc = label]
                       \/ next = [task[t] EXCEPT !.pc = label, !.content = content]
    BY <1>2 DEF Await
  <2>2. next \in TaskRecords /\ next.expected = task[t].expected
    BY <1>1, <1>2, <2>1 DEF TaskRecords
  <2> QED
    BY <1>1, <1>2, <2>1, <2>2, AwaitVersioned
<1>3. row.rev \in Revisions /\ 0 \in Revisions
  BY <1>1, Numbers DEF TypeOK
<1>4. CASE Subscribe(t)
  <2> DEFINE access == task[t].got
             next == [task[t] EXCEPT !.pc = "access", !.expected = access.rev]
  <2>1. CASE Done(t)
    BY <1>1, <2>1, EndVersioned
  <2>2. CASE Exposed(access) /\ Await(t, next)
    <3>1. access # Waiting /\ access # Denied
      BY <2>2 DEF Exposed, Waiting, Denied
    <3>2. access \in Accesses \cup {Denied, Waiting}
      BY <1>1 DEF TaskRecords
    <3>3. access.rev # 0 /\ access.rev \in Revisions
      BY <1>1, <3>1, <3>2, Numbers DEF Versioned
    <3>4. next \in TaskRecords /\ next.expected = access.rev
      BY <1>1, <3>3 DEF TaskRecords, Awaits
    <3>5. AwaitAt(ProcessOf(t), t, next)
      BY <2>2 DEF Await
    <3> HIDE DEF next, access
    <3> QED
      BY <1>1, <3>3, <3>4, <3>5, AwaitVersioned
  <2> QED
    BY <1>4, <2>1, <2>2 DEF Subscribe
<1>5. CASE ~Subscribe(t)
  <2>1. task[t].pc \in Broadcasting
    BY <1>5 DEF Proceed, Flushed, CheckAccess, ReadRow, EmitScore, CheckFlowAccess,
       ReadFlow, EmitFlow, At, Broadcasting
  <2>2. task[t].expected # 0
    BY <1>1, <2>1 DEF Versioned
  <2>3. \/ Goto(t, "read") \/ Goto(t, "flowRead") \/ Done(t)
        \/ Await(t, [task[t] EXCEPT !.pc = "access"])
        \/ Await(t, [task[t] EXCEPT !.pc = "flowAccess"])
        \/ Await(t, [task[t] EXCEPT !.pc = "emit", !.content = row.rev])
        \/ Await(t, [task[t] EXCEPT !.pc = "flowAccess", !.content = 0])
        \/ Await(t, [task[t] EXCEPT !.pc = "flowEmit", !.content = row.rev])
    BY <1>5 DEF Proceed, Flushed, CheckAccess, ReadRow, EmitScore, CheckFlowAccess,
       ReadFlow, EmitFlow, GiveUpScore
  <2>4. {"access", "flowAccess", "emit", "flowEmit"} \subseteq Broadcasting \cap Awaits
    BY DEF Broadcasting, Awaits
  <2> QED
    BY <1>1, <1>2, <1>3, <2>2, <2>3, <2>4, MoveVersioned
<1> QED
  BY <1>4, <1>5

\* The other steps: what a lookup reads is the row, which has a revision, and a
\* new broadcast expects the revision it committed.
LEMMA OthersVersioned ==
  ASSUME ScoreInv, [Next]_vars, ~ \E t \in Tasks : Proceed(t)
  PROVE  Versioned' /\ row'.rev # 0
<1>1. TypeOK /\ Versioned /\ row.rev # 0 /\ row \in Accesses /\ row.rev \in Nat
  BY Numbers DEF ScoreInv, IInv, TypeOK
<1>2. CASE UNCHANGED vars
  BY <1>1, <1>2 DEF vars, Versioned
<1>3. ASSUME NEW p \in Processes, RequestLookup(p) \/ ReadLookup(p)
      PROVE  Versioned' /\ row'.rev # 0
  <2>1. /\ row' = row /\ task' = task
        /\ \A q \in Processes : lookup'[q] \in {lookup[q], Waiting, row}
    BY <1>1, <1>3 DEF RequestLookup, ReadLookup, TypeOK
  <2> QED
    BY <1>1, <2>1 DEF Versioned
<1>4. ASSUME NEW p \in Processes, ResolveLookup(p) \/ FailLookup(p)
      PROVE  Versioned' /\ row'.rev # 0
  <2>1. PICK access : /\ ResolveWith(p, access)
                      /\ access = Denied \/ access.rev # 0
    BY <1>1, <1>4 DEF ResolveLookup, FailLookup, Versioned
  <2>2. row' = row /\ \A q \in Processes : lookup'[q] \in {lookup[q], NoLookup}
    BY <1>1, <2>1 DEF ResolveWith, TypeOK
  <2>3. \A t \in Tasks : /\ task'[t].pc = task[t].pc /\ task'[t].expected = task[t].expected
                         /\ task'[t].got \in {task[t].got, access}
    BY <1>1, <2>1 DEF ResolveWith, TypeOK, TaskRecords
  <2> QED
    BY <1>1, <2>1, <2>2, <2>3 DEF Versioned
<1>5. ASSUME CommitElsewhere \/ CompleteWithoutDetail \/ Revoke \/ Publish
      PROVE  Versioned' /\ row'.rev # 0
  <2>1. task' = task /\ lookup' = lookup
    BY <1>5 DEF CommitElsewhere, CompleteWithoutDetail, Revoke, Publish
  <2>2. row'.rev \in {row.rev, row.rev + 1}
    BY <1>1, <1>5 DEF CommitElsewhere, CompleteWithoutDetail, Revoke, Publish, Accesses
  <2> QED
    BY <1>1, <2>1, <2>2 DEF Versioned
<1>6. CASE Disconnect
  <2>1. row' = row /\ lookup' = lookup
    BY <1>6 DEF Disconnect
  <2>2. \A t \in Tasks : task'[t] \in {task[t], NoTask}
    BY <1>6 DEF Disconnect
  <2>3. NoTask.got = Denied /\ NoTask.pc \notin Broadcasting
    BY DEF NoTask, Broadcasting
  <2> QED
    BY <1>1, <2>1, <2>2, <2>3 DEF Versioned
<1>7. ASSUME NEW p \in Processes, NEW t \in Subscriptions, Connect(p, t)
      PROVE  Versioned' /\ row'.rev # 0
  <2> DEFINE next == [NoTask EXCEPT !.pc = "subscribe", !.at = p]
  <2>1. next \in TaskRecords
    BY IdleTask DEF TaskRecords, Awaits
  <2>2. next.pc = "subscribe" /\ "subscribe" \notin Broadcasting
    BY DEF NoTask, Broadcasting
  <2>3. AwaitAt(p, t, next) /\ row' = row /\ t \in Tasks
    BY <1>7 DEF Connect, Tasks
  <2> HIDE DEF next
  <2> QED
    BY <1>1, <2>1, <2>2, <2>3, AwaitVersioned
<1>8. ASSUME NEW w \in Processes, Commit(w) PROVE Versioned' /\ row'.rev # 0
  <2>1. PICK live \in BOOLEAN :
           /\ row' = [row EXCEPT !.status = IF live THEN "LIVE" ELSE "FINAL", !.rev = @ + 1]
           /\ Await(w, [NoTask EXCEPT !.pc = FirstLookup(live), !.live = live,
                                      !.expected = row.rev + 1])
    BY <1>8 DEF Commit
  <2> DEFINE next == [NoTask EXCEPT !.pc = FirstLookup(live), !.live = live,
                                    !.expected = row.rev + 1]
  <2>2. row.rev + 1 \in Revisions /\ row.rev + 1 # 0
    BY <1>1, <1>8, RealtimeAssumption DEF Commit, Revisions
  <2>3. row'.rev # 0
    BY <1>1, <2>1, <2>2 DEF Accesses
  <2>4. FirstLookup(live) \in {"flush", "access"}
    BY DEF FirstLookup
  <2>5. next \in TaskRecords
    BY <2>2, <2>4, IdleTask DEF TaskRecords, Awaits
  <2>6. next.expected = row.rev + 1
    BY DEF NoTask
  <2>7. AwaitAt(ProcessOf(w), w, next) /\ w \in Tasks
    BY <2>1 DEF Await, Tasks
  <2> HIDE DEF next
  <2> QED
    BY <1>1, <2>2, <2>3, <2>5, <2>6, <2>7, AwaitVersioned
<1> QED
  BY <1>2, <1>3, <1>4, <1>5, <1>6, <1>7, <1>8 DEF Next, Page, Environment

\* An event that is shown is no older than what the page has seen, and a score is
\* exactly what its label says.
LEMMA EmitGoesForward ==
  ASSUME ScoreInv, NEW t \in Tasks, NEW part \in {"score", "flow"}, Emit(t, part),
         At(t, IF part = "score" THEN "emit" ELSE "flowEmit")
  PROVE  page'.score >= page.score /\ page'.score <= page'.latest
<1>1. /\ page \in Pages /\ page.score \in Nat /\ page.latest \in Nat
      /\ page.score <= page.latest
  BY Numbers DEF ScoreInv, IInv, TypeOK, Pages
<1>2. CASE page' = page
  BY <1>1, <1>2
<1>3. CASE page' # page
  <2>1. /\ page' = [page EXCEPT !.latest = task[t].got.rev,
                     !.score = IF part = "score" THEN task[t].content ELSE @]
        /\ CanEmit(t) /\ AcceptsRevision(task[t].got.rev)
    BY <1>3 DEF Emit
  <2>2. /\ TaskOK(task[t], row.rev)
        /\ task[t].got.rev \in Nat /\ task[t].content \in Nat /\ task[t].expected \in Nat
    BY TaskFacts DEF ScoreInv
  <2>3. task[t].expected # 0
    BY DEF ScoreInv, Versioned, At, Broadcasting
  <2>4. task[t].got.rev = task[t].expected
    BY <2>1, <2>3 DEF CanEmit, HasRevision
  <2>5. task[t].got.rev >= page.latest
    BY <2>1, <2>3, <2>4 DEF AcceptsRevision
  <2>6. CASE part = "score"
    <3>1. task[t].content = task[t].got.rev
      BY <2>2, <2>3, <2>4, <2>6 DEF TaskOK, At
    <3>2. page'.score = task[t].content /\ page'.latest = task[t].got.rev
      BY <1>1, <2>1, <2>6 DEF Pages
    <3> QED
      BY <1>1, <2>2, <2>5, <3>1, <3>2
  <2>7. CASE part = "flow"
    <3>1. page'.score = page.score /\ page'.latest = task[t].got.rev
      BY <1>1, <2>1, <2>7 DEF Pages
    <3> QED
      BY <1>1, <2>2, <2>5, <3>1
  <2> QED
    BY <2>6, <2>7
<1> QED
  BY <1>2, <1>3

\* In every step the score on the page stays or goes forward.
LEMMA PageGoesForward ==
  ASSUME ScoreInv, [Next]_vars
  PROVE  page'.score >= page.score /\ page'.score <= page'.latest
<1>1. /\ page \in Pages /\ page.score \in Nat /\ page.latest \in Nat
      /\ page.score <= page.latest
  BY Numbers DEF ScoreInv, IInv, TypeOK, Pages
<1>2. \/ page' = page
      \/ page'.score = page.score /\ page'.latest = page.latest
      \/ \E t \in Tasks : EmitScore(t) \/ EmitFlow(t)
  <2>1. CASE \E t \in Tasks : Proceed(t)
    BY <2>1 DEF Proceed, Subscribe, Flushed, CheckAccess, ReadRow, CheckFlowAccess, ReadFlow
  <2>2. CASE Page
    BY <1>1, <2>2 DEF Page, Disconnect, Connect, Pages
  <2>3. CASE UNCHANGED vars
    BY <2>3 DEF vars
  <2>4. CASE \/ \E p \in Processes : ReadLookup(p) \/ ResolveLookup(p)
             \/ \E p \in Processes : Commit(p)
             \/ Environment
    BY <2>4 DEF ReadLookup, ResolveLookup, ResolveWith, Commit, Environment,
       CommitElsewhere, CompleteWithoutDetail, Revoke, Publish, RequestLookup, FailLookup
  <2> QED
    BY <2>1, <2>2, <2>3, <2>4 DEF Next
<1>3. CASE \E t \in Tasks : EmitScore(t)
  BY <1>3, EmitGoesForward DEF EmitScore
<1>4. CASE \E t \in Tasks : EmitFlow(t)
  BY <1>4, EmitGoesForward DEF EmitFlow
<1> QED
  BY <1>1, <1>2, <1>3, <1>4

\* The invariant of a match that has a revision from the beginning.
LEMMA ScoreInvHolds ==
  ASSUME 0 \notin FirstRevisions
  PROVE  (Init => ScoreInv) /\ (ScoreInv /\ [Next]_vars => ScoreInv')
<1>1. ASSUME Init PROVE ScoreInv
  <2>1. IInv /\ row.rev # 0
    BY <1>1, InitEstablishes DEF Init
  <2>2. Versioned
    BY <1>1 DEF Init, Versioned, NoTask, Broadcasting
  <2>3. page.score <= page.latest
    BY <1>1 DEF Init, NoPage
  <2> QED
    BY <2>1, <2>2, <2>3 DEF ScoreInv
<1>2. ASSUME ScoreInv, [Next]_vars PROVE ScoreInv'
  <2>1. IInv' /\ page'.score <= page'.latest
    BY <1>2, StepPreserves, PageGoesForward DEF ScoreInv
  <2>2. Versioned' /\ row'.rev # 0
    <3>1. CASE \E t \in Tasks : Proceed(t)
      <4>1. row' = row
        BY <3>1 DEF Proceed, Subscribe, Flushed, CheckAccess, ReadRow, EmitScore,
           CheckFlowAccess, ReadFlow, EmitFlow
      <4> QED
        BY <1>2, <3>1, <4>1, ProceedVersioned DEF ScoreInv
    <3>2. CASE ~ \E t \in Tasks : Proceed(t)
      BY <1>2, <3>2, OthersVersioned
    <3> QED
      BY <3>1, <3>2
  <2> QED
    BY <2>1, <2>2 DEF ScoreInv
<1> QED
  BY <1>1, <1>2

\* The score on the page never goes back, for any number of processes that
\* broadcast, of subscriptions that replay, and of reconnections between them, if
\* the match had a revision when the page was opened.  (A match without one is
\* replayed without a check of what was read: its replay may show an older score.)
THEOREM ScoreGoesForward ==
  ASSUME 0 \notin FirstRevisions
  PROVE  Spec => ScoreNeverGoesBack
<1>1. Init => ScoreInv
  BY ScoreInvHolds
<1>2. ScoreInv /\ [Next]_vars => ScoreInv'
  BY ScoreInvHolds
<1>3. ScoreInv /\ [Next]_vars => [page'.score >= page.score]_vars
  BY PageGoesForward
<1> QED
  BY <1>1, <1>2, <1>3, PTL DEF Spec, ScoreNeverGoesBack

=============================================================================
