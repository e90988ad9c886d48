---------------------------- MODULE FacRiskProofs ----------------------------
(***************************************************************************)
(* What holds of facultative risks for every set of risks, recommendations *)
(* and concurrent requests, and every bound.                               *)
(***************************************************************************)
EXTENDS FacRisk, TLAPS

-----------------------------------------------------------------------------
(* Types *)

LEMMA IdleType ==
  /\ Idle \in Request
  /\ Idle.op = "idle" /\ Idle.ref = 0 /\ Idle.k = NoRisk
BY DEF Idle, Request, Ops, GradeOrNull, Excuses

LEMMA GoneType ==
  ASSUME NEW status \in Statuses
  PROVE  Gone(status) \in Risk
BY DEF Gone, Risk, GradeOrNull

LEMMA BookType ==
  ASSUME TypeOK
  PROVE  /\ Book(risk) \in [Risks -> Nat]
         /\ \A k \in Risks : Book(risk)[k] = Carried(risk, k)
BY DEF TypeOK, Risk, Book, Carried

\* What the types of the requests come to.
Tasks(tasks) ==
  /\ tasks \in [Requests -> Request]
  /\ \A q \in Requests :
       /\ tasks[q].op \in {"submit", "decline", "measure", "weigh", "bind"} =>
            tasks[q].k \in Risks
       /\ tasks[q].op = "submit" => tasks[q].next \in Routes
       /\ tasks[q].op = "accept" => tasks[q].x \in Recs

LEMMA TaskSet ==
  ASSUME TypeOK, NEW q \in Requests, NEW task \in Request,
         req' = [req EXCEPT ![q] = task],
         task.op \in {"submit", "decline", "measure", "weigh", "bind"} => task.k \in Risks,
         task.op = "submit" => task.next \in Routes,
         task.op = "accept" => task.x \in Recs
  PROVE  Tasks(req')
BY DEF TypeOK, Tasks

LEMMA FinishTasks ==
  ASSUME TypeOK, NEW q \in Requests, Finish(q)
  PROVE  Tasks(req')
BY IdleType, TaskSet DEF Finish

LEMMA DriftsType ==
  ASSUME TypeOK, NEW k \in Risks, Drifts(k)
  PROVE  drift' \subseteq Risks
BY DEF Drifts, TypeOK

LEMMA SetRiskType ==
  ASSUME TypeOK, NEW k \in Risks, NEW row \in Risk, SetRisk(k, row)
  PROVE  risk' \in [Risks -> Risk]
BY DEF SetRisk, TypeOK

LEMMA EnterType ==
  ASSUME TypeOK, Enter
  PROVE  TypeOK'
<1> SUFFICES ASSUME NEW k \in Risks,
                    \/ Create(k) \/ Delete(k)
                    \/ \E e \in Exposures : SaveExposure(k, e)
                    \/ \E g \in Grades : SavePricing(k, g)
             PROVE  TypeOK'
  BY DEF Enter
<1>1. CASE Create(k)
  BY <1>1 DEF Create, TypeOK, Risk, Statuses
<1>2. CASE Delete(k)
  <2>1. risk' \in [Risks -> Risk]
    BY <1>2, GoneType DEF Delete, TypeOK, Statuses
  <2>2. rec' \in [Recs -> Answers]
    BY <1>2 DEF Delete, TypeOK, Answers
  <2> QED BY <1>2, <2>1, <2>2, DriftsType DEF Delete, TypeOK
<1>3. ASSUME NEW e \in Exposures, SaveExposure(k, e)
      PROVE  TypeOK'
  <2>1. e \in Nat
    BY FigureAssumption DEF Exposures
  <2>2. risk' \in [Risks -> Risk]
    BY <1>3, <2>1 DEF SaveExposure, TypeOK, Risk
  <2> QED BY <1>3, <2>2, DriftsType DEF SaveExposure, TypeOK
<1>4. ASSUME NEW g \in Grades, SavePricing(k, g)
      PROVE  TypeOK'
  BY <1>4 DEF SavePricing, TypeOK, Risk, GradeOrNull
<1> QED BY <1>1, <1>2, <1>3, <1>4

LEMMA BeginsType ==
  ASSUME TypeOK, NEW q \in Requests, Begins(q)
  PROVE  TypeOK'
<1>1. ASSUME NEW k \in Risks, ReadForSubmit(q, k) PROVE TypeOK'
  <2> DEFINE task == [Idle EXCEPT !.op = "submit", !.k = k, !.next = Route(k)]
  <2>1. /\ task \in Request /\ task.op = "submit" /\ task.k \in Risks
        /\ task.next \in Routes
    BY IdleType DEF Request, Ops, Route, Routes
  <2>2. Tasks(req')
    BY <1>1, <2>1, TaskSet DEF ReadForSubmit, Begin
  <2> QED BY <1>1, <2>2 DEF ReadForSubmit, TypeOK, Tasks
<1>2. ASSUME NEW k \in Risks, ReadForDecline(q, k) PROVE TypeOK'
  <2> DEFINE task == [Idle EXCEPT !.op = "decline", !.k = k]
  <2>1. task \in Request /\ task.op = "decline" /\ task.k \in Risks
    BY IdleType DEF Request, Ops
  <2>2. Tasks(req')
    BY <1>2, <2>1, TaskSet DEF ReadForDecline, Begin
  <2> QED BY <1>2, <2>2 DEF ReadForDecline, TypeOK, Tasks
<1>3. ASSUME NEW k \in Risks, ReadForBind(q, k) PROVE TypeOK'
  <2> DEFINE task == [Idle EXCEPT !.op = "measure", !.k = k, !.ref = risk[k].ref]
  <2>1. risk[k].ref \in Nat
    BY DEF TypeOK, Risk
  <2>2. task \in Request /\ task.op = "measure" /\ task.k \in Risks
    BY <2>1, IdleType DEF Request, Ops
  <2>3. Tasks(req')
    BY <1>3, <2>2, TaskSet DEF ReadForBind, Begin
  <2> QED BY <1>3, <2>3 DEF ReadForBind, TypeOK, Tasks
<1>4. ASSUME NEW x \in Recs, ReadForAccept(q, x) PROVE TypeOK'
  <2> DEFINE task == [Idle EXCEPT !.op = "accept", !.x = x]
  <2>1. task \in Request /\ task.op = "accept" /\ task.x \in Recs
    BY IdleType DEF Request, Ops
  <2>2. Tasks(req')
    BY <1>4, <2>1, TaskSet DEF ReadForAccept, Begin
  <2> QED BY <1>4, <2>2 DEF ReadForAccept, TypeOK, Tasks
<1>5. CASE RequestRefresh(q)
  <2> DEFINE task == [Idle EXCEPT !.op = "refresh"]
  <2>1. task \in Request /\ task.op = "refresh"
    BY IdleType DEF Request, Ops
  <2>2. Tasks(req')
    BY <1>5, <2>1, TaskSet DEF RequestRefresh, Begin
  <2> QED BY <1>5, <2>2 DEF RequestRefresh, TypeOK, Tasks
<1> QED BY <1>1, <1>2, <1>3, <1>4, <1>5 DEF Begins

LEMMA ContinuesType ==
  ASSUME TypeOK, NEW q \in Requests, Continues(q)
  PROVE  TypeOK'
<1> DEFINE k == req[q].k
<1>0. req[q] \in Request
  BY DEF TypeOK
<1>1. CASE Submit(q)
  <2>1. k \in Risks /\ req[q].next \in Statuses
    BY <1>1 DEF Submit, At, TypeOK, Routes, Statuses
  <2>2. [risk[k] EXCEPT !.status = req[q].next] \in Risk
    BY <2>1 DEF TypeOK, Risk
  <2>3. risk' \in [Risks -> Risk] /\ drift' \subseteq Risks /\ Tasks(req')
    BY <1>1, <2>1, <2>2, SetRiskType, DriftsType, FinishTasks DEF Submit
  <2> QED BY <1>1, <2>3 DEF Submit, TypeOK, Tasks
<1>2. CASE Decline(q)
  <2>1. k \in Risks
    BY <1>2 DEF Decline, At, TypeOK
  <2>2. [risk[k] EXCEPT !.status = "DECLINED"] \in Risk
    BY <2>1 DEF TypeOK, Risk, Statuses
  <2>3. risk' \in [Risks -> Risk] /\ drift' \subseteq Risks /\ Tasks(req')
    BY <1>2, <2>1, <2>2, SetRiskType, DriftsType, FinishTasks DEF Decline
  <2> QED BY <1>2, <2>3 DEF Decline, TypeOK, Tasks
<1>3. CASE Measure(q)
  <2> DEFINE task == [req[q] EXCEPT !.op = "weigh", !.adding = risk[k].exposure,
                                    !.grade = risk[k].grade]
  <2>1. k \in Risks
    BY <1>3 DEF Measure, At, TypeOK
  <2>2. task \in Request /\ task.op = "weigh" /\ task.k \in Risks
    BY <1>0, <2>1 DEF TypeOK, Request, Risk, Ops
  <2>3. req' = [req EXCEPT ![q] = task]
    BY <1>3 DEF Measure
  <2>4. Tasks(req')
    BY <2>2, <2>3, TaskSet
  <2> QED BY <1>3, <2>4 DEF Measure, TypeOK, Tasks
<1>4. CASE SkipCheck(q)
  <2> DEFINE task == [req[q] EXCEPT !.op = "bind", !.excuse = "unchecked"]
  <2>1. k \in Risks
    BY <1>4 DEF SkipCheck, At, TypeOK
  <2>2. task \in Request /\ task.op = "bind" /\ task.k \in Risks
    BY <1>0, <2>1 DEF Request, Ops, Excuses
  <2>3. req' = [req EXCEPT ![q] = task]
    BY <1>4 DEF SkipCheck
  <2>4. Tasks(req')
    BY <2>2, <2>3, TaskSet
  <2> QED BY <1>4, <2>4 DEF SkipCheck, TypeOK, Tasks
<1>5. CASE Bind(q)
  <2> DEFINE drawn == IF req[q].ref # 0 THEN req[q].ref ELSE seq + 1
             row == [risk[k] EXCEPT !.status = "BOUND", !.ref = Reference(k, drawn)]
             task == [Idle EXCEPT !.op = "refresh", !.k = k]
  <2>1. k \in Risks
    BY <1>5 DEF Bind, At, TypeOK
  <2>2. drawn \in Nat
    BY <1>0 DEF Request, TypeOK
  <2>3. Reference(k, drawn) \in Nat
    BY <2>1, <2>2 DEF Reference, TypeOK, Risk
  <2>4. row \in Risk
    BY <2>1, <2>3 DEF TypeOK, Risk, Statuses
  <2>5. SetRisk(k, row)
    BY <1>5 DEF Bind
  <2>6. risk' \in [Risks -> Risk]
    BY <2>1, <2>4, <2>5, SetRiskType
  <2>7. task \in Request /\ task.op = "refresh"
    BY <2>1, IdleType DEF Request, Ops
  <2>8. Finish(q) \/ req' = [req EXCEPT ![q] = task]
    BY <1>5 DEF Bind
  <2>9. Tasks(req')
    BY <2>7, <2>8, TaskSet, FinishTasks
  <2>10. seq' \in Nat
    BY <1>5 DEF Bind, TypeOK
  <2> QED BY <1>5, <2>6, <2>9, <2>10 DEF Bind, TypeOK, Tasks
<1>6. ASSUME NEW override \in BOOLEAN, Weigh(q, override)
      PROVE  TypeOK'
  <2> DEFINE breach == Breach(req[q].adding, Committed(k), req[q].grade)
             task == [req[q] EXCEPT !.op = "bind", !.snapshot = view,
                        !.own = Carried(risk, k),
                        !.excuse = IF breach THEN "overridden" ELSE "none"]
  <2>1. k \in Risks
    BY <1>6 DEF Weigh, At, TypeOK
  <2>2. (IF breach THEN "overridden" ELSE "none") \in Excuses
    BY DEF Excuses
  <2>3. task \in Request /\ task.op = "bind" /\ task.k \in Risks
    <3>1. Carried(risk, k) \in Nat
      BY <2>1 DEF Carried, TypeOK, Risk
    <3> HIDE DEF breach
    <3> QED BY <1>0, <2>1, <2>2, <3>1 DEF TypeOK, Request, Ops
  <2>4. Finish(q) \/ req' = [req EXCEPT ![q] = task]
    <3>1. breach = Breach(req[q].adding, Committed(req[q].k), req[q].grade)
      OBVIOUS
    <3> HIDE DEF breach
    <3> QED BY <1>6, <3>1 DEF Weigh
  <2>5. Tasks(req')
    BY <2>3, <2>4, TaskSet, FinishTasks
  <2> QED BY <1>6, <2>5 DEF Weigh, TypeOK, Tasks
<1>7. CASE Refresh(q)
  <2> DEFINE task == [req[q] EXCEPT !.op = "install", !.snapshot = Book(risk)]
  <2>1. task \in Request /\ task.op = "install"
    BY <1>0, BookType DEF Request, Ops
  <2>2. req' = [req EXCEPT ![q] = task]
    BY <1>7 DEF Refresh
  <2>3. Tasks(req')
    BY <2>1, <2>2, TaskSet
  <2> QED BY <1>7, <2>3 DEF Refresh, TypeOK, Tasks
<1>8. CASE Install(q)
  <2>1. view' \in [Risks -> Nat]
    BY <1>0, <1>8 DEF Install, Request
  <2>2. drift' \subseteq Risks
    BY <1>8 DEF Install, TypeOK
  <2> QED BY <1>8, <2>1, <2>2, FinishTasks DEF Install, TypeOK, Tasks
<1>9. CASE Accept(q)
  <2> DEFINE x == req[q].x
             a == About[x]
  <2>1. x \in Recs /\ a \in Risks /\ Appended[x] \in Nat
    BY <1>9, RecAssumption DEF Accept, At, TypeOK
  <2>2. risk' \in [Risks -> Risk]
    <3>1. [risk[a] EXCEPT !.exposure = @ + Appended[x]] \in Risk
      BY <2>1 DEF TypeOK, Risk
    <3> QED BY <1>9, <2>1, <3>1 DEF Accept, TypeOK
  <2>3. rec' \in [Recs -> Answers]
    BY <1>9, <2>1 DEF Accept, TypeOK, Answers
  <2>4. drift' \subseteq Risks
    BY <1>9, <2>1, DriftsType DEF Accept, TypeOK
  <2>5. applied' \subseteq Recs
    BY <1>9, <2>1 DEF Accept, TypeOK
  <2>6. Tasks(req')
    BY <1>9, FinishTasks DEF Accept
  <2> QED BY <1>9, <2>2, <2>3, <2>4, <2>5, <2>6 DEF Accept, TypeOK, Tasks
<1>10. CASE Fail(q)
  <2>1. drift' \subseteq Risks
    BY <1>10 DEF Fail, TypeOK
  <2> QED BY <1>10, <2>1, FinishTasks DEF Fail, TypeOK, Tasks
<1> QED BY <1>1, <1>2, <1>3, <1>4, <1>5, <1>6, <1>7, <1>8, <1>9, <1>10 DEF Continues

LEMMA NextType ==
  ASSUME TypeOK, [Next]_vars
  PROVE  TypeOK'
<1>1. ASSUME NEW x \in Recs, Recommend(x) \/ Reject(x)
      PROVE  TypeOK'
  BY <1>1 DEF Recommend, Reject, TypeOK, Answers
<1>2. CASE UNCHANGED vars
  BY <1>2 DEF vars, TypeOK
<1> QED BY <1>1, <1>2, EnterType, BeginsType, ContinuesType DEF Next

\* Every variable keeps its type, and every request knows what it is about.
THEOREM TypeCorrect == Spec => []TypeOK
<1>1. Init => TypeOK
  BY IdleType, GoneType DEF Init, TypeOK, Statuses, Answers
<1> QED BY <1>1, NextType, PTL DEF Spec


-----------------------------------------------------------------------------
(* Recommendations *)

\* No recommendation of one risk and its rivals is told a falsehood: the
\* writes that matter are one transaction, or name PENDING themselves.
THEOREM AnswersTrue == Spec => []AnswersHold
<1>1. Init => AnswersHold
  BY DEF Init, AnswersHold
<1>2. ASSUME TypeOK, AnswersHold, [Next]_vars
      PROVE  AnswersHold'
  <2>1. ASSUME NEW k \in Risks, Delete(k)
        PROVE  AnswersHold'
    BY <1>2, <2>1 DEF Delete, AnswersHold, TypeOK
  <2>2. ASSUME NEW x \in Recs, Recommend(x) \/ Reject(x)
        PROVE  AnswersHold'
    BY <1>2, <2>2 DEF Recommend, Reject, AnswersHold, TypeOK
  <2>3. ASSUME NEW q \in Requests, Accept(q)
        PROVE  AnswersHold'
    <3> DEFINE x == req[q].x
    <3>1. x \in Recs
      BY <1>2, <2>3 DEF Accept, At, TypeOK
    <3>2. CASE ~Exists(About[x])
      BY <1>2, <2>3, <3>2 DEF Accept, AnswersHold
    <3>3. CASE Exists(About[x])
      <4>1. applied' = applied \cup {x}
        BY <2>3, <3>3 DEF Accept
      <4>2. \A y \in Recs :
              rec'[y] = IF y = x THEN "ACCEPTED"
                        ELSE IF y \in Superseded(x) THEN "SUPERSEDED" ELSE rec[y]
        BY <2>3, <3>3 DEF Accept
      <4>3. \A y \in Superseded(x) : y \notin applied
        BY <1>2 DEF Superseded, AnswersHold
      <4> QED BY <1>2, <3>1, <4>1, <4>2, <4>3 DEF AnswersHold
    <3> QED BY <3>2, <3>3
  <2>4. CASE UNCHANGED <<rec, applied>>
    BY <1>2, <2>4 DEF AnswersHold
  <2>5. \/ UNCHANGED <<rec, applied>>
        \/ \E k \in Risks : Delete(k)
        \/ \E x \in Recs : Recommend(x) \/ Reject(x)
        \/ \E q \in Requests : Accept(q)
    BY <1>2 DEF Next, vars, Enter, Create, SaveExposure, SavePricing, Begins,
       ReadForSubmit, ReadForDecline, ReadForBind, ReadForAccept, RequestRefresh,
       Continues, Submit, Decline, Measure, SkipCheck, Bind, Weigh, Refresh,
       Install, Fail
  <2> QED BY <2>1, <2>2, <2>3, <2>4, <2>5
<1> QED BY <1>1, <1>2, TypeCorrect, PTL DEF Spec
-----------------------------------------------------------------------------
(* References *)

\* The steps that write fac_risk.
RiskWrites(k) ==
  \/ Create(k) \/ Delete(k)
  \/ \E e \in Exposures : SaveExposure(k, e)
  \/ \E g \in Grades : SavePricing(k, g)
  \/ \E q \in Requests :
       \/ req[q].k = k /\ (Submit(q) \/ Decline(q) \/ Bind(q))
       \/ req[q].x \in Recs /\ About[req[q].x] = k /\ Accept(q)

LEMMA Writes ==
  ASSUME TypeOK, [Next]_vars
  PROVE  risk' = risk \/ \E k \in Risks : RiskWrites(k)
<1>1. ASSUME NEW q \in Requests, Submit(q) \/ Decline(q) \/ Bind(q)
      PROVE  req[q].k \in Risks
  BY <1>1 DEF Submit, Decline, Bind, At, TypeOK
<1>2. ASSUME NEW q \in Requests, Accept(q)
      PROVE  req[q].x \in Recs /\ About[req[q].x] \in Risks
  BY <1>2, RecAssumption DEF Accept, At, TypeOK
<1>3. ASSUME NEW q \in Requests, Begins(q) \/ Continues(q)
      PROVE  risk' = risk \/ \E k \in Risks : RiskWrites(k)
  <2>1. \/ risk' = risk
        \/ Submit(q) \/ Decline(q) \/ Bind(q) \/ Accept(q)
    BY <1>3 DEF Begins, ReadForSubmit, ReadForDecline, ReadForBind,
       ReadForAccept, RequestRefresh, Continues, Measure, SkipCheck, Weigh,
       Refresh, Install, Fail
  <2> QED BY <1>1, <1>2, <2>1 DEF RiskWrites
<1>4. CASE Enter
  BY <1>4 DEF Enter, RiskWrites
<1>5. ASSUME NEW x \in Recs, Recommend(x) \/ Reject(x)
      PROVE  risk' = risk
  BY <1>5 DEF Recommend, Reject
<1> QED BY <1>3, <1>4, <1>5 DEF Next, vars

\* What a write leaves of a row: a number stays until the row is deleted.
Keeps(old, new) ==
  /\ old.status # "ABSENT" => new.status # "ABSENT"
  /\ old.status = "DELETED" => new.status = "DELETED"
  /\ new.status = "DELETED" \/ (old.ref # 0 => new.ref = old.ref)

LEMMA WriteKeeps ==
  ASSUME TypeOK, NEW k \in Risks, RiskWrites(k)
  PROVE  /\ \A j \in Risks \ {k} : risk'[j] = risk[j]
         /\ Keeps(risk[k], risk'[k])
<1>0. risk[k] \in Risk
  BY DEF TypeOK
<1>1. CASE Create(k)
  BY <1>1 DEF Create, TypeOK, Risk, Keeps
<1>2. CASE Delete(k)
  BY <1>2 DEF Delete, TypeOK, Risk, Keeps, Gone
<1>3. ASSUME NEW e \in Exposures, SaveExposure(k, e)
      PROVE  /\ \A j \in Risks \ {k} : risk'[j] = risk[j]
             /\ Keeps(risk[k], risk'[k])
  BY <1>3 DEF SaveExposure, TypeOK, Risk, Keeps
<1>4. ASSUME NEW g \in Grades, SavePricing(k, g)
      PROVE  /\ \A j \in Risks \ {k} : risk'[j] = risk[j]
             /\ Keeps(risk[k], risk'[k])
  BY <1>4 DEF SavePricing, TypeOK, Risk, Keeps
<1>5. ASSUME NEW q \in Requests, req[q].k = k, Submit(q)
      PROVE  /\ \A j \in Risks \ {k} : risk'[j] = risk[j]
             /\ Keeps(risk[k], risk'[k])
  <2>1. req[q].next \in Routes
    BY <1>5 DEF Submit, At, TypeOK
  <2> QED BY <1>0, <1>5, <2>1 DEF Submit, SetRisk, TypeOK, Risk, Keeps, Exists, Routes
<1>6. ASSUME NEW q \in Requests, req[q].k = k, Decline(q)
      PROVE  /\ \A j \in Risks \ {k} : risk'[j] = risk[j]
             /\ Keeps(risk[k], risk'[k])
  BY <1>0, <1>6 DEF Decline, SetRisk, TypeOK, Risk, Keeps, Exists
<1>7. ASSUME NEW q \in Requests, req[q].k = k, Bind(q)
      PROVE  /\ \A j \in Risks \ {k} : risk'[j] = risk[j]
             /\ Keeps(risk[k], risk'[k])
  BY <1>0, <1>7 DEF Bind, SetRisk, Reference, TypeOK, Risk, Keeps, Exists
<1>8. ASSUME NEW q \in Requests, req[q].x \in Recs, About[req[q].x] = k, Accept(q)
      PROVE  /\ \A j \in Risks \ {k} : risk'[j] = risk[j]
             /\ Keeps(risk[k], risk'[k])
  BY <1>0, <1>8 DEF Accept, TypeOK, Risk, Keeps
<1> QED BY <1>1, <1>2, <1>3, <1>4, <1>5, <1>6, <1>7, <1>8 DEF RiskWrites

LEMMA AllKeep ==
  ASSUME TypeOK, [Next]_vars
  PROVE  \A k \in Risks : Keeps(risk[k], risk'[k])
BY Writes, WriteKeeps DEF Keeps


\* A bind that has read a number has read the number of the row: once a row is
\* numbered only its deletion takes the number away.
Gate == {"measure", "weigh", "bind"}

ReadNumbers ==
  \A q \in Requests :
    req[q].op \in Gate =>
      LET row == risk[req[q].k] IN
      /\ row.status # "ABSENT"
      /\ row.status = "DELETED" \/ (req[q].ref # 0 => row.ref # 0)

\* Between its read and its write a bind keeps what it has read.
LEMMA GateSteps ==
  ASSUME TypeOK, [Next]_vars, NEW q \in Requests, req'[q].op \in Gate
  PROVE  \/ req[q].op \in Gate /\ req'[q].k = req[q].k /\ req'[q].ref = req[q].ref
         \/ \E k \in Risks : ReadForBind(q, k)
<1>1. CASE req'[q] = req[q]
  BY <1>1
<1>2. ASSUME NEW p \in Requests, Begins(p) \/ Continues(p), p # q
      PROVE  req'[q] = req[q]
  BY <1>2 DEF Begins, ReadForSubmit, ReadForDecline, ReadForBind, ReadForAccept,
     RequestRefresh, Begin, Continues, Submit, Decline, Measure, SkipCheck, Bind,
     Weigh, Refresh, Install, Accept, Fail, Finish, TypeOK
<1>3. CASE Begins(q)
  <2>1. ASSUME NEW k \in Risks, ReadForSubmit(q, k) \/ ReadForDecline(q, k)
        PROVE  FALSE
    BY <2>1 DEF ReadForSubmit, ReadForDecline, Begin, Idle, TypeOK, Gate
  <2>2. ASSUME NEW x \in Recs, ReadForAccept(q, x)
        PROVE  FALSE
    BY <2>2 DEF ReadForAccept, Begin, Idle, TypeOK, Gate
  <2>3. ~RequestRefresh(q)
    BY DEF RequestRefresh, Begin, Idle, TypeOK, Gate
  <2> QED BY <1>3, <2>1, <2>2, <2>3 DEF Begins
<1>4. CASE Continues(q)
  <2>0. req[q] \in Request
    BY DEF TypeOK
  <2>1. ~Finish(q)
    BY IdleType DEF Finish, TypeOK, Gate
  <2>2. CASE Measure(q)
    BY <2>0, <2>2 DEF Measure, At, TypeOK, Request, Gate
  <2>3. CASE SkipCheck(q)
    BY <2>0, <2>3 DEF SkipCheck, At, TypeOK, Request, Gate
  <2>4. ASSUME NEW override \in BOOLEAN, Weigh(q, override)
        PROVE  req[q].op \in Gate /\ req'[q].k = req[q].k /\ req'[q].ref = req[q].ref
    <3> DEFINE excuse == IF Breach(req[q].adding, Committed(req[q].k), req[q].grade)
                           THEN "overridden" ELSE "none"
    <3>1. /\ req[q].op = "weigh"
          /\ req' = [req EXCEPT ![q].op = "bind", ![q].snapshot = view,
                                ![q].own = Carried(risk, req[q].k),
                                ![q].excuse = excuse]
      BY <2>1, <2>4 DEF Weigh, At
    <3> HIDE DEF excuse
    <3> QED BY <2>0, <3>1 DEF TypeOK, Request, Gate
  <2>5. ~Bind(q)
    <3>1. [Idle EXCEPT !.op = "refresh", !.k = req[q].k].op = "refresh"
      BY DEF Idle
    <3> QED BY <2>1, <3>1 DEF Bind, TypeOK, Gate
  <2>6. ~Refresh(q)
    BY <2>0 DEF Refresh, TypeOK, Request, Gate
  <2> QED BY <1>4, <2>1, <2>2, <2>3, <2>4, <2>5, <2>6
          DEF Continues, Submit, Decline, Install, Accept, Fail
<1>5. CASE Enter
  BY <1>1, <1>5 DEF Enter, Create, Delete, SaveExposure, SavePricing
<1>6. ASSUME NEW x \in Recs, Recommend(x) \/ Reject(x)
      PROVE  req' = req
  BY <1>6 DEF Recommend, Reject
<1> QED BY <1>1, <1>2, <1>3, <1>4, <1>5, <1>6 DEF Next, vars

LEMMA ReadNumbersKept ==
  ASSUME TypeOK, ReadNumbers, [Next]_vars
  PROVE  ReadNumbers'
<1> SUFFICES ASSUME NEW q \in Requests, req'[q].op \in Gate
             PROVE  LET row == risk'[req'[q].k] IN
                    /\ row.status # "ABSENT"
                    /\ row.status = "DELETED" \/ (req'[q].ref # 0 => row.ref # 0)
  BY DEF ReadNumbers
<1>1. CASE /\ req[q].op \in Gate
           /\ req'[q].k = req[q].k /\ req'[q].ref = req[q].ref
  <2>1. req[q].k \in Risks
    BY <1>1 DEF TypeOK, Gate
  <2>2. Keeps(risk[req[q].k], risk'[req[q].k])
    BY <2>1, AllKeep
  <2> QED BY <1>1, <2>2 DEF ReadNumbers, Keeps
<1>2. ASSUME NEW k \in Risks, ReadForBind(q, k)
      PROVE  /\ req'[q].k = k /\ req'[q].ref = risk[k].ref
             /\ risk' = risk /\ risk[k].status = "QUOTED"
  BY <1>2 DEF ReadForBind, Begin, Idle, TypeOK
<1> QED BY <1>1, <1>2, GateSteps

\* A reference number belongs to one risk and stays with it.
THEOREM ReferencesStay == Spec => BoundReferences
<1>1. Init => ReadNumbers
  BY IdleType DEF Init, ReadNumbers, Gate
<1>2. ASSUME TypeOK, ReadNumbers, [Next]_vars
      PROVE  \A k \in Risks :
               risk'[k].ref # risk[k].ref =>
                 \/ risk'[k].status = "DELETED"
                 \/ risk[k].ref = 0 /\ risk'[k].ref > seq
  <2> SUFFICES ASSUME NEW k \in Risks, risk'[k].ref # risk[k].ref,
                      risk'[k].status # "DELETED"
               PROVE  risk[k].ref = 0 /\ risk'[k].ref > seq
    OBVIOUS
  <2>1. risk[k].ref = 0
    BY <1>2, AllKeep DEF Keeps
  <2>2. RiskWrites(k)
    BY <1>2, Writes, WriteKeeps
  <2>3. PICK q \in Requests : req[q].k = k /\ Bind(q)
    <3>1. ~Create(k) /\ ~Delete(k)
      BY <1>2 DEF Create, Delete, TypeOK, Risk, Gone
    <3>2. ~\E e \in Exposures : SaveExposure(k, e)
      BY <1>2 DEF SaveExposure, TypeOK, Risk
    <3>3. ~\E g \in Grades : SavePricing(k, g)
      BY <1>2 DEF SavePricing, TypeOK, Risk
    <3>4. ASSUME NEW q \in Requests, req[q].k = k, Submit(q) \/ Decline(q)
          PROVE  FALSE
      <4>1. \E status \in {req[q].next, "DECLINED"} :
              SetRisk(k, [risk[k] EXCEPT !.status = status])
        BY <3>4 DEF Submit, Decline
      <4>2. risk'[k].ref = risk[k].ref
        BY <1>2, <4>1 DEF SetRisk, TypeOK, Risk
      <4> QED BY <4>2
    <3>5. ASSUME NEW q \in Requests, req[q].x \in Recs, About[req[q].x] = k, Accept(q)
          PROVE  FALSE
      <4>1. \/ risk' = risk
            \/ risk' = [risk EXCEPT ![k].exposure = @ + Appended[req[q].x]]
        BY <3>5 DEF Accept
      <4>2. risk'[k].ref = risk[k].ref
        BY <1>2, <4>1 DEF TypeOK, Risk
      <4> QED BY <4>2
    <3> QED BY <2>2, <3>1, <3>2, <3>3, <3>4, <3>5 DEF RiskWrites
  <2>4. Exists(k)
    BY <2>3 DEF Bind, SetRisk
  <2>5. req[q].ref = 0
    BY <1>2, <2>1, <2>3, <2>4 DEF ReadNumbers, Gate, Bind, At, Exists
  <2>6. risk'[k].ref = seq + 1
    BY <1>2, <2>1, <2>3, <2>4, <2>5 DEF Bind, SetRisk, Reference, TypeOK, Risk
  <2> QED BY <1>2, <2>1, <2>6 DEF TypeOK
<1>3. Spec => [](TypeOK /\ ReadNumbers)
  BY <1>1, ReadNumbersKept, TypeCorrect, PTL DEF Spec
<1> QED BY <1>2, <1>3, PTL DEF Spec, BoundReferences


-----------------------------------------------------------------------------
(* The view and the book *)

\* A bind of k that has still to take its snapshot of the book.
Awaiting(k) == \E p \in Requests : At(p, "refresh") /\ req[p].k = k

\* What is about to be installed is as good as what will be said of the view,
\* and one refresh at a time is about to be installed.
Followed ==
  /\ BookIsSeen
  /\ \A q \in Requests : At(q, "install") =>
       \A k \in Risks :
         req[q].snapshot[k] = Carried(risk, k) \/ k \in drift \/ Awaiting(k)
  /\ \A p, q \in Requests : At(p, "install") /\ At(q, "install") => p = q

Refreshing == {"refresh", "install"}

\* A step that leaves the refreshes and the view alone, and records every
\* change to the book as drift.
Quiet ==
  /\ view' = view
  /\ drift \subseteq drift'
  /\ \A p \in Requests :
       req[p].op \in Refreshing \/ req'[p].op \in Refreshing => req'[p] = req[p]
  /\ \A k \in Risks : Carried(risk', k) = Carried(risk, k) \/ k \in drift'

LEMMA QuietFollowed ==
  ASSUME Followed, Quiet
  PROVE  Followed'
<1>1. \A k \in Risks : (Awaiting(k) => Awaiting(k)') /\ (Pending(k) => Pending(k)')
  BY DEF Quiet, Refreshing, Awaiting, Pending, At
<1>2. BookIsSeen'
  BY <1>1 DEF Followed, BookIsSeen, Quiet, Carried
<1>3. \A p \in Requests : At(p, "install")' => At(p, "install") /\ req'[p] = req[p]
  BY DEF Quiet, Refreshing, At
<1>4. \A q \in Requests : At(q, "install")' =>
        \A k \in Risks :
          req'[q].snapshot[k] = Carried(risk', k) \/ k \in drift' \/ Awaiting(k)'
  BY <1>1, <1>3 DEF Followed, Quiet
<1> QED BY <1>2, <1>3, <1>4 DEF Followed, Carried

\* One request changes, from and to an operation that is no refresh.
LEMMA OtherTask ==
  ASSUME TypeOK, NEW q \in Requests, NEW task,
         req' = [req EXCEPT ![q] = task],
         req[q].op \notin Refreshing, task.op \notin Refreshing
  PROVE  \A p \in Requests :
           req[p].op \in Refreshing \/ req'[p].op \in Refreshing => req'[p] = req[p]
BY DEF TypeOK

\* One request begins to refresh; nothing changes but what it is to refresh for.
LEMMA RefreshFollowed ==
  ASSUME TypeOK, Followed, NEW q \in Requests, NEW task,
         req' = [req EXCEPT ![q] = task],
         req[q].op \notin Refreshing, task.op = "refresh",
         UNCHANGED <<view, drift>>,
         \A k \in Risks : Carried(risk', k) = Carried(risk, k) \/ task.k = k
  PROVE  Followed'
<1>1. /\ req'[q] = task
      /\ \A p \in Requests \ {q} : req'[p] = req[p]
  BY DEF TypeOK
<1>2. \A p \in Requests : At(p, "install")' => At(p, "install") /\ req'[p] = req[p]
  BY <1>1 DEF At
<1>3. \A k \in Risks : (Awaiting(k) => Awaiting(k)') /\ (Pending(k) => Pending(k)')
  BY <1>1 DEF Awaiting, Pending, At, Refreshing
<1>4. \A k \in Risks : task.k = k => Awaiting(k)' /\ Pending(k)'
  BY <1>1 DEF Awaiting, Pending, At
<1>5. BookIsSeen'
  BY <1>3, <1>4 DEF Followed, BookIsSeen, Carried
<1>6. \A p \in Requests : At(p, "install")' =>
        \A k \in Risks :
          req'[p].snapshot[k] = Carried(risk', k) \/ k \in drift' \/ Awaiting(k)'
  BY <1>2, <1>3, <1>4 DEF Followed
<1> QED BY <1>2, <1>5, <1>6 DEF Followed, Carried

LEMMA SetRiskBook ==
  ASSUME TypeOK, NEW k \in Risks, NEW row \in Risk, SetRisk(k, row)
  PROVE  /\ \A j \in Risks \ {k} : Carried(risk', j) = Carried(risk, j)
         /\ ~Exists(k) => Carried(risk', k) = Carried(risk, k)
BY DEF SetRisk, Carried, TypeOK

\* A bound risk that is written to drifts; one that is not bound, and does not
\* become so, carries nothing.
LEMMA DriftsBook ==
  ASSUME TypeOK, NEW k \in Risks, Drifts(k),
         \A j \in Risks \ {k} : risk'[j] = risk[j],
         risk'[k].status # "BOUND" \/ risk[k].status = "BOUND"
  PROVE  /\ drift \subseteq drift'
         /\ \A j \in Risks : Carried(risk', j) = Carried(risk, j) \/ j \in drift'
BY DEF Drifts, Carried

LEMMA EnterQuiet ==
  ASSUME TypeOK, Enter
  PROVE  Quiet
<1> SUFFICES ASSUME NEW k \in Risks,
                    \/ Create(k) \/ Delete(k)
                    \/ \E e \in Exposures : SaveExposure(k, e)
                    \/ \E g \in Grades : SavePricing(k, g)
             PROVE  Quiet
  BY DEF Enter
<1>1. CASE Create(k)
  BY <1>1 DEF Create, Quiet, Carried, TypeOK, Risk
<1>2. CASE Delete(k)
  <2>1. /\ \A j \in Risks \ {k} : risk'[j] = risk[j]
        /\ risk'[k].status # "BOUND"
    BY <1>2 DEF Delete, TypeOK, Gone
  <2> QED BY <1>2, <2>1, DriftsBook DEF Delete, Quiet
<1>3. ASSUME NEW e \in Exposures, SaveExposure(k, e)
      PROVE  Quiet
  <2>1. /\ \A j \in Risks \ {k} : risk'[j] = risk[j]
        /\ risk'[k].status = risk[k].status
    BY <1>3 DEF SaveExposure, TypeOK, Risk
  <2> QED BY <1>3, <2>1, DriftsBook DEF SaveExposure, Quiet
<1>4. ASSUME NEW g \in Grades, SavePricing(k, g)
      PROVE  Quiet
  BY <1>4 DEF SavePricing, Quiet, Carried, TypeOK, Risk
<1> QED BY <1>1, <1>2, <1>3, <1>4

LEMMA BeginsFollowed ==
  ASSUME TypeOK, Followed, NEW q \in Requests, Begins(q)
  PROVE  Followed'
<1>1. UNCHANGED <<risk, view, drift>> /\ req[q].op = "idle"
  BY IdleType DEF Begins, ReadForSubmit, ReadForDecline, ReadForBind, ReadForAccept,
     RequestRefresh, Begin
<1>2. CASE RequestRefresh(q)
  <2> DEFINE task == [Idle EXCEPT !.op = "refresh"]
  <2>1. task.op = "refresh"
    BY DEF Idle
  <2>2. req' = [req EXCEPT ![q] = task]
    BY <1>2 DEF RequestRefresh, Begin
  <2>3. req[q].op \notin Refreshing
    BY <1>1 DEF Refreshing
  <2>4. \A k \in Risks : Carried(risk', k) = Carried(risk, k) \/ task.k = k
    BY <1>1 DEF Carried
  <2>5. UNCHANGED <<view, drift>>
    BY <1>1
  <2> HIDE DEF task
  <2> QED BY <2>1, <2>2, <2>3, <2>4, <2>5, RefreshFollowed
<1>3. ASSUME NEW task, Begin(q, task), task.op \notin Refreshing
      PROVE  Followed'
  <2>1. Quiet
    BY <1>1, <1>3, OtherTask DEF Begin, Quiet, Refreshing, Carried
  <2> QED BY <2>1, QuietFollowed
<1>4. ASSUME NEW k \in Risks, ReadForSubmit(q, k)
      PROVE  Followed'
  BY <1>3, <1>4 DEF ReadForSubmit, Idle, Refreshing
<1>5. ASSUME NEW k \in Risks, ReadForDecline(q, k) \/ ReadForBind(q, k)
      PROVE  Followed'
  BY <1>3, <1>5 DEF ReadForDecline, ReadForBind, Idle, Refreshing
<1>6. ASSUME NEW x \in Recs, ReadForAccept(q, x)
      PROVE  Followed'
  BY <1>3, <1>6 DEF ReadForAccept, Idle, Refreshing
<1> QED BY <1>2, <1>4, <1>5, <1>6 DEF Begins


LEMMA ContinuesFollowed ==
  ASSUME TypeOK, Followed, NEW q \in Requests, Continues(q)
  PROVE  Followed'
<1> DEFINE k == req[q].k
<1>0. req[q] \in Request
  BY DEF TypeOK
<1>1. Idle.op \notin Refreshing
  BY IdleType DEF Refreshing
<1>2. ASSUME Submit(q) \/ Decline(q)
      PROVE  Quiet
  <2>1. /\ k \in Risks /\ Drifts(k) /\ Finish(q) /\ view' = view
        /\ req[q].op \notin Refreshing
    BY <1>2 DEF Submit, Decline, At, TypeOK, Refreshing
  <2>2. PICK status \in Statuses :
          /\ status # "BOUND"
          /\ SetRisk(k, [risk[k] EXCEPT !.status = status])
    BY <1>2 DEF Submit, Decline, At, TypeOK, Routes, Statuses
  <2>3. /\ \A j \in Risks \ {k} : risk'[j] = risk[j]
        /\ risk'[k].status # "BOUND" \/ risk[k].status = "BOUND"
    BY <2>1, <2>2 DEF SetRisk, TypeOK, Risk
  <2> QED BY <1>1, <2>1, <2>3, DriftsBook, OtherTask DEF Quiet, Finish
<1>3. CASE Measure(q)
  <2> DEFINE task == [req[q] EXCEPT !.op = "weigh", !.adding = risk[k].exposure,
                                    !.grade = risk[k].grade]
  <2>1. task.op \notin Refreshing /\ req[q].op \notin Refreshing
    BY <1>0, <1>3 DEF Measure, At, Request, Refreshing
  <2>2. req' = [req EXCEPT ![q] = task]
    BY <1>3 DEF Measure
  <2> QED BY <1>3, <2>1, <2>2, OtherTask, QuietFollowed DEF Measure, Quiet, Carried
<1>4. CASE SkipCheck(q)
  <2> DEFINE task == [req[q] EXCEPT !.op = "bind", !.excuse = "unchecked"]
  <2>1. task.op \notin Refreshing /\ req[q].op \notin Refreshing
    BY <1>0, <1>4 DEF SkipCheck, At, Request, Refreshing
  <2>2. req' = [req EXCEPT ![q] = task]
    BY <1>4 DEF SkipCheck
  <2> QED BY <1>4, <2>1, <2>2, OtherTask, QuietFollowed DEF SkipCheck, Quiet, Carried
<1>5. ASSUME NEW override \in BOOLEAN, Weigh(q, override)
      PROVE  Followed'
  <2> DEFINE excuse == IF Breach(req[q].adding, Committed(k), req[q].grade)
                         THEN "overridden" ELSE "none"
             task == [req[q] EXCEPT !.op = "bind", !.snapshot = view,
                        !.own = Carried(risk, k), !.excuse = excuse]
  <2>1. task.op \notin Refreshing /\ req[q].op \notin Refreshing
    <3> HIDE DEF excuse
    <3> QED BY <1>0, <1>5 DEF Weigh, At, Request, Refreshing
  <2>2. Finish(q) \/ req' = [req EXCEPT ![q] = task]
    BY <1>5 DEF Weigh
  <2>3. \A p \in Requests :
          req[p].op \in Refreshing \/ req'[p].op \in Refreshing => req'[p] = req[p]
    <3> HIDE DEF task
    <3> QED BY <1>1, <2>1, <2>2, OtherTask DEF Finish
  <2> QED BY <1>5, <2>3, QuietFollowed DEF Weigh, Quiet, Carried
<1>6. CASE Bind(q)
  <2> DEFINE drawn == IF req[q].ref # 0 THEN req[q].ref ELSE seq + 1
             row == [risk[k] EXCEPT !.status = "BOUND", !.ref = Reference(k, drawn)]
             task == [Idle EXCEPT !.op = "refresh", !.k = k]
  <2>1. k \in Risks /\ req[q].op \notin Refreshing
    BY <1>6 DEF Bind, At, TypeOK, Refreshing
  <2>2. row \in Risk
    <3>1. drawn \in Nat
      BY <1>0 DEF Request, TypeOK
    <3>2. Reference(k, drawn) \in Nat
      BY <2>1, <3>1 DEF Reference, TypeOK, Risk
    <3> QED BY <2>1, <3>2 DEF TypeOK, Risk, Statuses
  <2>3. SetRisk(k, row)
    BY <1>6 DEF Bind
  <2>4. /\ \A j \in Risks \ {k} : Carried(risk', j) = Carried(risk, j)
        /\ ~Exists(k) => Carried(risk', k) = Carried(risk, k)
    BY <2>1, <2>2, <2>3, SetRiskBook
  <2>5. UNCHANGED <<view, drift>>
    BY <1>6 DEF Bind
  <2>6. CASE Exists(k)
    <3>1. task.op = "refresh" /\ task.k = k
      BY IdleType DEF Idle
    <3>2. req' = [req EXCEPT ![q] = task]
      BY <1>6, <2>6 DEF Bind
    <3>3. \A j \in Risks : Carried(risk', j) = Carried(risk, j) \/ task.k = j
      BY <2>4, <3>1
    <3> HIDE DEF task
    <3> QED BY <2>1, <2>5, <3>1, <3>2, <3>3, RefreshFollowed
  <2>7. CASE ~Exists(k)
    <3>1. Finish(q)
      BY <1>6, <2>7 DEF Bind
    <3>2. Quiet
      BY <1>1, <2>1, <2>4, <2>5, <2>7, <3>1, OtherTask DEF Quiet, Finish
    <3> QED BY <3>2, QuietFollowed
  <2> QED BY <2>6, <2>7
<1>7. CASE Refresh(q)
  <2> DEFINE task == [req[q] EXCEPT !.op = "install", !.snapshot = Book(risk)]
  <2>1. task.op = "install" /\ task.k = req[q].k /\ task.snapshot = Book(risk)
    BY <1>0 DEF Request
  <2>2. req'[q] = task /\ \A p \in Requests \ {q} : req'[p] = req[p]
    BY <1>7 DEF Refresh, TypeOK
  <2>3. At(q, "refresh") /\ \A p \in Requests : ~At(p, "install")
    BY <1>7 DEF Refresh
  <2>4. UNCHANGED <<risk, view, drift>>
    BY <1>7 DEF Refresh
  <2> HIDE DEF task
  <2>5. \A p \in Requests : At(p, "install")' => p = q
    BY <2>2, <2>3 DEF At
  <2>6. \A j \in Risks : req'[q].snapshot[j] = Carried(risk', j)
    BY <2>1, <2>2, <2>4, BookType DEF Carried
  <2>7. \A j \in Risks : Pending(j) => Pending(j)'
    BY <2>1, <2>2, <2>3 DEF Pending
  <2>8. BookIsSeen'
    BY <2>4, <2>7 DEF Followed, BookIsSeen, Carried
  <2> QED BY <2>5, <2>6, <2>8 DEF Followed, Carried
<1>8. CASE Install(q)
  <2>1. /\ At(q, "install") /\ view' = req[q].snapshot /\ risk' = risk
        /\ drift' = {j \in drift : req[q].snapshot[j] # Carried(risk, j)}
    BY <1>8 DEF Install
  <2>2. req'[q] = Idle /\ \A p \in Requests \ {q} : req'[p] = req[p]
    BY <1>8 DEF Install, Finish, TypeOK
  <2>3. \A p \in Requests : ~At(p, "install")'
    BY <1>1, <2>1, <2>2 DEF Followed, At, Refreshing
  <2>4. \A j \in Risks : Awaiting(j) => Pending(j)'
    BY <2>1, <2>2 DEF Awaiting, Pending, At
  <2>5. \A j \in Risks :
          req[q].snapshot[j] = Carried(risk, j) \/ j \in drift' \/ Pending(j)'
    BY <2>1, <2>4 DEF Followed
  <2>6. BookIsSeen'
    BY <2>1, <2>5 DEF BookIsSeen, Carried
  <2> QED BY <2>3, <2>6 DEF Followed
<1>9. CASE Accept(q)
  <2> DEFINE x == req[q].x
             a == About[x]
  <2>1. /\ x \in Recs /\ a \in Risks /\ Appended[x] \in Nat
        /\ req[q].op \notin Refreshing
    BY <1>9, RecAssumption DEF Accept, At, TypeOK, Refreshing
  <2>2. \A p \in Requests :
          req[p].op \in Refreshing \/ req'[p].op \in Refreshing => req'[p] = req[p]
    BY <1>1, <1>9, <2>1, OtherTask DEF Accept, Finish
  <2>3. CASE UNCHANGED <<risk, drift>>
    BY <1>9, <2>2, <2>3, QuietFollowed DEF Accept, Quiet, Carried
  <2>4. CASE risk' = [risk EXCEPT ![a].exposure = @ + Appended[x]]
    <3>1. /\ \A j \in Risks \ {a} : risk'[j] = risk[j]
          /\ risk'[a].status = risk[a].status
          /\ risk'[a].exposure = risk[a].exposure + Appended[x]
      BY <2>1, <2>4 DEF TypeOK, Risk
    <3>2. CASE Drifts(a)
      BY <1>9, <2>1, <2>2, <3>1, <3>2, DriftsBook, QuietFollowed DEF Accept, Quiet
    <3>3. CASE drift' = drift /\ Appended[x] = 0
      <4>1. risk[a].exposure \in Nat
        BY <2>1 DEF TypeOK, Risk
      <4>2. \A j \in Risks : Carried(risk', j) = Carried(risk, j)
        BY <3>1, <3>3, <4>1 DEF Carried
      <4> QED BY <1>9, <2>2, <3>3, <4>2, QuietFollowed DEF Accept, Quiet
    <3> QED BY <1>9, <2>1, <2>3, <3>2, <3>3 DEF Accept
  <2> QED BY <1>9, <2>3, <2>4 DEF Accept
<1>10. CASE Fail(q)
  <2>1. /\ UNCHANGED <<risk, view>> /\ drift \subseteq drift'
        /\ At(q, "refresh") \/ At(q, "install") => (k \in Risks => k \in drift')
    BY <1>10 DEF Fail, At
  <2>2. req'[q] = Idle /\ \A p \in Requests \ {q} : req'[p] = req[p]
    BY <1>10 DEF Fail, Finish, TypeOK
  <2>3. \A p \in Requests : At(p, "install")' => At(p, "install") /\ req'[p] = req[p]
    BY <1>1, <2>2 DEF At, Refreshing
  <2>4. \A j \in Risks :
          /\ Awaiting(j) => Awaiting(j)' \/ j \in drift'
          /\ Pending(j) => Pending(j)' \/ j \in drift'
    BY <2>1, <2>2 DEF Awaiting, Pending, At
  <2>5. BookIsSeen'
    BY <2>1, <2>4 DEF Followed, BookIsSeen, Carried
  <2>6. \A p \in Requests : At(p, "install")' =>
          \A j \in Risks :
            req'[p].snapshot[j] = Carried(risk', j) \/ j \in drift' \/ Awaiting(j)'
    BY <2>1, <2>3, <2>4 DEF Followed
  <2> QED BY <2>3, <2>5, <2>6 DEF Followed, Carried
<1> QED BY <1>2, <1>3, <1>4, <1>5, <1>6, <1>7, <1>8, <1>9, <1>10, QuietFollowed
        DEF Continues

\* The view follows the book: what it lacks is being refreshed, or is left to
\* the nightly job.
THEOREM ViewFollows == Spec => []BookIsSeen
<1>1. Init => Followed
  <2> SUFFICES ASSUME Init PROVE Followed
    OBVIOUS
  <2>1. \A k \in Risks : Carried(risk, k) = 0 /\ view[k] = 0
    BY DEF Init, Gone, Carried
  <2>2. \A q \in Requests : ~At(q, "install")
    BY IdleType DEF Init, At
  <2> QED BY <2>1, <2>2 DEF Followed, BookIsSeen
<1>2. ASSUME TypeOK, Followed, [Next]_vars
      PROVE  Followed'
  <2>1. ASSUME NEW x \in Recs, Recommend(x) \/ Reject(x)
        PROVE  Quiet
    BY <2>1 DEF Recommend, Reject, Quiet, Carried
  <2>2. CASE UNCHANGED vars
    BY <2>2, <1>2, QuietFollowed DEF vars, Quiet, Carried
  <2> QED BY <1>2, <2>1, <2>2, EnterQuiet, BeginsFollowed, ContinuesFollowed,
             QuietFollowed DEF Next
<1>3. Followed => BookIsSeen
  BY DEF Followed
<1> QED BY <1>1, <1>2, <1>3, TypeCorrect, PTL DEF Spec


-----------------------------------------------------------------------------
(* The gate *)

\* A request that has weighed its bind and needs no excuse read figures that
\* do not breach.
Weighed ==
  \A q \in Requests : At(q, "bind") /\ req[q].excuse = "none" =>
    ~Breach(req[q].adding, TreatyLoad + Total(req[q].snapshot, Risks) - req[q].own,
            req[q].grade)

\* The requests of a step but Weigh: none comes to a bind without an excuse.
GateQuiet ==
  \A q \in Requests :
    \/ req'[q] = req[q]
    \/ ~At(q, "bind")'
    \/ req'[q].excuse # "none"

LEMMA GateQuietSteps ==
  ASSUME TypeOK, [Next]_vars
  PROVE  GateQuiet \/ \E q \in Requests, override \in BOOLEAN : Weigh(q, override)
<1>1. Idle.op # "bind"
  BY IdleType
<1>2. ASSUME NEW q \in Requests, NEW task, req' = [req EXCEPT ![q] = task],
             task.op # "bind" \/ task.excuse # "none"
      PROVE  GateQuiet
  BY <1>2 DEF GateQuiet, At, TypeOK
<1>3. ASSUME NEW q \in Requests, Finish(q)
      PROVE  GateQuiet
  BY <1>1, <1>2, <1>3 DEF Finish
<1>4. ASSUME UNCHANGED req
      PROVE  GateQuiet
  BY <1>4 DEF GateQuiet
<1>5. ASSUME Enter \/ (\E x \in Recs : Recommend(x) \/ Reject(x)) \/ UNCHANGED vars
      PROVE  GateQuiet
  BY <1>4, <1>5 DEF Enter, Create, Delete, SaveExposure, SavePricing, Recommend,
     Reject, vars
<1>6. ASSUME NEW q \in Requests, Begins(q)
      PROVE  GateQuiet
  <2>1. ASSUME NEW task, Begin(q, task), task.op # "bind"
        PROVE  GateQuiet
    BY <1>2, <2>1 DEF Begin
  <2>2. ASSUME NEW k \in Risks, ReadForSubmit(q, k)
        PROVE  GateQuiet
    BY <2>1, <2>2 DEF ReadForSubmit, Idle
  <2>3. ASSUME NEW k \in Risks, ReadForDecline(q, k) \/ ReadForBind(q, k)
        PROVE  GateQuiet
    BY <2>1, <2>3 DEF ReadForDecline, ReadForBind, Idle
  <2>4. ASSUME NEW x \in Recs, ReadForAccept(q, x)
        PROVE  GateQuiet
    BY <2>1, <2>4 DEF ReadForAccept, Idle
  <2>5. CASE RequestRefresh(q)
    BY <2>1, <2>5 DEF RequestRefresh, Idle
  <2> QED BY <1>6, <2>2, <2>3, <2>4, <2>5 DEF Begins
<1>7. ASSUME NEW q \in Requests, Continues(q),
             \A override \in BOOLEAN : ~Weigh(q, override)
      PROVE  GateQuiet
  <2>0. req[q] \in Request
    BY DEF TypeOK
  <2>1. CASE Measure(q)
    <3> DEFINE task == [req[q] EXCEPT !.op = "weigh", !.adding = risk[req[q].k].exposure,
                                      !.grade = risk[req[q].k].grade]
    <3>1. task.op # "bind"
      BY <2>0 DEF Request
    <3>2. req' = [req EXCEPT ![q] = task]
      BY <2>1 DEF Measure
    <3> HIDE DEF task
    <3> QED BY <1>2, <3>1, <3>2
  <2>2. CASE SkipCheck(q)
    <3>1. [req[q] EXCEPT !.op = "bind", !.excuse = "unchecked"].excuse # "none"
      BY <2>0 DEF Request
    <3> QED BY <1>2, <2>2, <3>1 DEF SkipCheck
  <2>3. CASE Bind(q)
    <3>1. [Idle EXCEPT !.op = "refresh", !.k = req[q].k].op # "bind"
      BY DEF Idle
    <3> QED BY <1>2, <1>3, <2>3, <3>1 DEF Bind
  <2>4. CASE Refresh(q)
    <3> DEFINE task == [req[q] EXCEPT !.op = "install", !.snapshot = Book(risk)]
    <3>1. task.op # "bind"
      BY <2>0 DEF Request
    <3>2. req' = [req EXCEPT ![q] = task]
      BY <2>4 DEF Refresh
    <3> HIDE DEF task
    <3> QED BY <1>2, <3>1, <3>2
  <2>5. CASE Submit(q) \/ Decline(q) \/ Install(q) \/ Accept(q) \/ Fail(q)
    BY <1>3, <2>5 DEF Submit, Decline, Install, Accept, Fail
  <2> QED BY <1>7, <2>1, <2>2, <2>3, <2>4, <2>5 DEF Continues
<1> QED BY <1>5, <1>6, <1>7 DEF Next

\* A bind that goes through without an excuse is within the budget of the zone
\* and the capacity of its grade, or what it read has been overtaken.
THEOREM GateKept == Spec => GateHolds
<1>1. Init => Weighed
  BY IdleType DEF Init, Weighed, At
<1>2. ASSUME TypeOK, Weighed, [Next]_vars
      PROVE  Weighed'
  <2>1. CASE GateQuiet
    BY <1>2, <2>1 DEF Weighed, GateQuiet, At, Breach
  <2>2. ASSUME NEW q \in Requests, NEW override \in BOOLEAN, Weigh(q, override)
        PROVE  Weighed'
    <3> DEFINE k == req[q].k
               breach == Breach(req[q].adding, Committed(k), req[q].grade)
               task == [req[q] EXCEPT !.op = "bind", !.snapshot = view,
                          !.own = Carried(risk, k),
                          !.excuse = IF breach THEN "overridden" ELSE "none"]
    <3>1. Finish(q) \/ req' = [req EXCEPT ![q] = task]
      BY <2>2 DEF Weigh
    <3>2. \A p \in Requests \ {q} : req'[p] = req[p]
      BY <1>2, <3>1 DEF Finish, TypeOK
    <3>3. CASE Finish(q)
      BY <1>2, <3>2, <3>3, IdleType DEF Finish, TypeOK, Weighed, At, Breach
    <3>4. CASE req' = [req EXCEPT ![q] = task]
      <4>1. req[q] \in Request
        BY <1>2 DEF TypeOK
      <4>2. req'[q] = task
        BY <1>2, <3>4 DEF TypeOK
      <4>3. /\ task.adding = req[q].adding /\ task.grade = req[q].grade
            /\ task.snapshot = view /\ task.own = Carried(risk, k)
            /\ task.excuse = IF breach THEN "overridden" ELSE "none"
        BY <4>1 DEF Request
      <4>4. task.excuse = "none" =>
              ~Breach(task.adding, TreatyLoad + Total(task.snapshot, Risks) - task.own,
                      task.grade)
        <5> HIDE DEF task
        <5> QED BY <4>3 DEF Committed
      <4> HIDE DEF task, breach
      <4> QED BY <1>2, <3>2, <4>2, <4>4 DEF Weighed, At, Breach
    <3> QED BY <3>1, <3>3, <3>4
  <2> QED BY <1>2, <2>1, <2>2, GateQuietSteps
<1>3. ASSUME Weighed, NEW q \in Requests, Binds(q), req[q].excuse = "none",
             ~Overtaken(q)
      PROVE  LET k == req[q].k IN
             /\ risk[k].grade \notin Capped
             /\ ~(risk[k].exposure > 0 /\ Standing(k) + risk[k].exposure > Budget)
  <2> DEFINE k == req[q].k
  <2>1. ~Breach(req[q].adding,
                TreatyLoad + Total(req[q].snapshot, Risks) - req[q].own, req[q].grade)
    BY <1>3 DEF Weighed, Binds
  <2>2. /\ req[q].snapshot = Book(risk) /\ req[q].own = Carried(risk, k)
        /\ req[q].adding = risk[k].exposure /\ req[q].grade = risk[k].grade
    BY <1>3 DEF Overtaken
  <2>3. ~Breach(risk[k].exposure, Standing(k), risk[k].grade)
    BY <2>1, <2>2 DEF Standing
  <2> QED BY <2>3 DEF Breach
<1>4. Weighed => [\A q \in Requests :
        LET k == req[q].k IN
        Binds(q) /\ req[q].excuse = "none" =>
          \/ Overtaken(q)
          \/ /\ risk[k].grade \notin Capped
             /\ ~(risk[k].exposure > 0
                  /\ Standing(k) + risk[k].exposure > Budget)]_vars
  BY <1>3
<1> QED BY <1>1, <1>2, <1>4, TypeCorrect, PTL DEF Spec, GateHolds
================================================================================
