-------------------------- MODULE RateRevisionProofs --------------------------
(***************************************************************************)
(* What holds of the revisions of the rate tables for every set of users,  *)
(* versions, rows and requests. Two theorems hold for all interleavings,   *)
(* by the constraints of the schema; two hold as long as requests do not   *)
(* overlap, by the checks of the service.                                  *)
(***************************************************************************)
EXTENDS RateRevision, TLAPS

\* What the schema keeps: the row check of every version, one in force.
Constrained ==
  /\ TypeOK
  /\ \A v \in Versions : FourEyesCheck(version[v])
  /\ OneInForce
-----------------------------------------------------------------------------
(* Types *)

LEMMA FreshType ==
  ASSUME NEW status \in Statuses
  PROVE  Fresh(status) \in Version
<1>1. {FALSE} \subseteq BOOLEAN
  BY Zenon
<1> QED BY <1>1 DEF Fresh, Version, UserOrNull

LEMMA IdleType == Idle \in Task /\ Idle.op = "idle"
BY DEF Idle, Task, Ops, UserOrNull

\* A request that is in flight knows its version and its user.
LEMMA InFlight ==
  ASSUME TypeOK, NEW r \in Requests, task[r].op # "idle"
  PROVE  /\ task[r] \in Task
         /\ task[r].v \in Versions /\ task[r].by \in Users
         /\ version[task[r].v] \in Version
BY DEF TypeOK

LEMMA LoadType ==
  ASSUME TypeOK, NEW r \in Requests, NEW op \in Ops, NEW v \in Versions,
         NEW u \in Users, Load(r, op, v, u)
  PROVE  TypeOK'
<1>1. [Idle EXCEPT !.op = op, !.v = v, !.by = u] \in Task
  BY IdleType DEF Task, UserOrNull
<1>2. task' \in [Requests -> Task]
  BY <1>1 DEF Load, TypeOK
<1>3. \A s \in Requests : task'[s].op # "idle" =>
        task'[s].v \in Versions /\ task'[s].by \in Users
  BY DEF Load, TypeOK, Idle
<1>4. overlap' \in BOOLEAN
  BY Zenon DEF Load
<1> QED BY <1>2, <1>3, <1>4 DEF Load, TypeOK

LEMMA FinishType ==
  ASSUME TypeOK, NEW r \in Requests, Finish(r)
  PROVE  /\ task' \in [Requests -> Task]
         /\ \A s \in Requests : task'[s].op # "idle" =>
              task'[s].v \in Versions /\ task'[s].by \in Users
<1>1. task' \in [Requests -> Task]
  BY IdleType DEF Finish, TypeOK
<1> QED BY <1>1, IdleType DEF Finish, TypeOK
-----------------------------------------------------------------------------
(* What the schema keeps *)

\* A version that is not, or no longer, in force frees the place for another.
LEMMA FewerInForce ==
  ASSUME OneInForce, InForce' \subseteq InForce
  PROVE  OneInForce'
BY DEF OneInForce

LEMMA LoadConstrained ==
  ASSUME Constrained, NEW r \in Requests, NEW op \in Ops, NEW v \in Versions,
         NEW u \in Users, Load(r, op, v, u)
  PROVE  Constrained'
<1>1. TypeOK'
  BY LoadType DEF Constrained
<1>2. version' = version
  BY DEF Load
<1> QED BY <1>1, <1>2 DEF Constrained, OneInForce, InForce, Current

\* An UPDATE of a row that leaves the two columns of the index alone.
LEMMA WriteConstrained ==
  ASSUME Constrained, NEW r \in Requests, NEW row \in Version, Write(r, row),
         task[r].op # "idle",
         row.published = version[task[r].v].published,
         row.ended = version[task[r].v].ended
  PROVE  /\ version' \in [Versions -> Version]
         /\ task' \in [Requests -> Task]
         /\ \A s \in Requests : task'[s].op # "idle" =>
              task'[s].v \in Versions /\ task'[s].by \in Users
         /\ \A v \in Versions : FourEyesCheck(version'[v])
         /\ OneInForce'
<1>0. TypeOK
  BY DEF Constrained
<1>1. version' \in [Versions -> Version]
  BY <1>0 DEF Write, TypeOK
<1>2. \A v \in Versions : version'[v] = IF v = task[r].v THEN row ELSE version[v]
  BY <1>0 DEF Write, TypeOK
<1>3. \A v \in Versions : FourEyesCheck(version'[v])
  BY <1>2 DEF Write, Constrained
<1>4. \A v \in Versions : /\ version'[v].published = version[v].published
                          /\ version'[v].ended = version[v].ended
  BY <1>2
<1>5. InForce' = InForce
  BY <1>4 DEF InForce, Current
<1> QED BY <1>0, <1>1, <1>3, <1>5, FewerInForce, FinishType DEF Constrained, Write
-----------------------------------------------------------------------------
(* Every step keeps it *)

LEMMA CreateConstrained ==
  ASSUME Constrained, NEW v \in Versions, Create(v)
  PROVE  Constrained'
<1>0. TypeOK
  BY DEF Constrained
<1>1. Fresh("DRAFT") \in Version
  BY FreshType DEF Statuses
<1>2. version' \in [Versions -> Version]
  BY <1>0, <1>1 DEF Create, TypeOK
<1>3. TypeOK'
  BY <1>0, <1>2 DEF Create, TypeOK
<1>4. \A w \in Versions : version'[w] = IF w = v THEN Fresh("DRAFT") ELSE version[w]
  BY <1>0 DEF Create, TypeOK
<1>5. \A w \in Versions : FourEyesCheck(version'[w])
  BY <1>4 DEF Constrained, FourEyesCheck, Fresh
<1>6. Fresh("DRAFT").published = FALSE
  BY DEF Fresh
<1>7. ~Fresh("DRAFT").published
  BY Zenon, <1>6
<1>8. InForce' \subseteq InForce
  BY <1>4, <1>7 DEF InForce, Current
<1> QED BY <1>3, <1>5, <1>8, FewerInForce DEF Constrained

LEMMA BeginConstrained ==
  ASSUME Constrained, NEW r \in Requests, NEW v \in Versions, NEW u \in Users,
         Drafting(r, v, u) \/ Deciding(r, v, u) \/ BeginPublish(r, v, u)
  PROVE  Constrained'
<1>1. {"stage", "submit", "approve", "reject", "read"} \subseteq Ops
  BY DEF Ops
<1> QED BY <1>1, LoadConstrained
        DEF Drafting, BeginStage, BeginSubmit, Deciding, BeginApprove, BeginReject,
            BeginPublish

\* The three decisions are an UPDATE of one row each.
LEMMA DecisionConstrained ==
  ASSUME Constrained, NEW r \in Requests, Submit(r) \/ Approve(r) \/ Reject(r)
  PROVE  Constrained'
<1> DEFINE v == task[r].v
<1>0. TypeOK
  BY DEF Constrained
<1>1. task[r].op # "idle"
  BY DEF Submit, Approve, Reject
<1>2. version[v] \in Version /\ v \in Versions /\ task[r].by \in Users
  BY <1>0, <1>1, InFlight
<1>3. PICK row \in Version :
        /\ Write(r, row)
        /\ row.published = version[v].published /\ row.ended = version[v].ended
  <2>1. CASE Submit(r)
    <3>1. [version[v] EXCEPT !.status = "PENDING_APPROVAL", !.submitter = task[r].by]
            \in Version
      BY <1>2 DEF Version, Statuses, UserOrNull
    <3> QED BY <2>1, <3>1, <1>2 DEF Submit, Version
  <2>2. CASE Approve(r)
    <3>1. [version[v] EXCEPT !.status = "APPROVED", !.approver = task[r].by] \in Version
      BY <1>2 DEF Version, Statuses, UserOrNull
    <3> QED BY <2>2, <3>1, <1>2 DEF Approve, Version
  <2>3. CASE Reject(r)
    <3>1. [version[v] EXCEPT !.status = "DRAFT", !.submitter = NoUser] \in Version
      BY <1>2 DEF Version, Statuses, UserOrNull
    <3> QED BY <2>3, <3>1, <1>2 DEF Reject, Version
  <2> QED BY <2>1, <2>2, <2>3
<1>4. /\ version' \in [Versions -> Version]
      /\ task' \in [Requests -> Task]
      /\ \A s \in Requests : task'[s].op # "idle" =>
           task'[s].v \in Versions /\ task'[s].by \in Users
      /\ \A w \in Versions : FourEyesCheck(version'[w])
      /\ OneInForce'
  BY <1>1, <1>3, WriteConstrained
<1>5. reviewed' \in [Versions -> SUBSET Rows]
  BY <1>0, <1>2 DEF Submit, Approve, Reject, TypeOK
<1> QED BY <1>0, <1>4, <1>5 DEF Submit, Approve, Reject, Constrained, TypeOK

\* The steps that write no version.
LEMMA RowConstrained ==
  ASSUME Constrained, NEW r \in Requests,
         \/ \E row \in Rows : InsertRow(r, row)
         \/ ReadStaged(r) \/ FindSuperseded(r) \/ Fail(r)
  PROVE  Constrained'
<1>0. TypeOK
  BY DEF Constrained
<1>1. CASE \E row \in Rows : InsertRow(r, row)
  BY <1>0, <1>1, FinishType DEF InsertRow, TypeOK, Constrained, OneInForce, InForce, Current
<1>2. CASE ReadStaged(r)
  <2>1. task[r] \in Task /\ task[r].v \in Versions
    BY <1>0, <1>2, InFlight DEF ReadStaged
  <2>2. [task[r] EXCEPT !.op = "publish", !.rows = stage[task[r].v]] \in Task
    BY <1>0, <2>1 DEF Task, Ops, TypeOK
  <2>3. TypeOK'
    BY <1>0, <1>2, <2>2 DEF ReadStaged, TypeOK, Task
  <2> QED BY <1>2, <2>3 DEF ReadStaged, Constrained, OneInForce, InForce, Current
<1>3. CASE FindSuperseded(r)
  <2>1. task[r] \in Task
    BY <1>0, <1>3, InFlight DEF FindSuperseded
  <2>2. [task[r] EXCEPT !.op = "commit", !.found = InForce \ {task[r].v}] \in Task
    BY <2>1 DEF Task, Ops, InForce, Current
  <2>3. TypeOK'
    BY <1>0, <1>3, <2>2 DEF FindSuperseded, TypeOK, Task
  <2> QED BY <1>3, <2>3 DEF FindSuperseded, Constrained, OneInForce, InForce, Current
<1>4. CASE Fail(r)
  BY <1>0, <1>4, FinishType DEF Fail, TypeOK, Constrained, OneInForce, InForce, Current
<1> QED BY <1>1, <1>2, <1>3, <1>4

\* A publication that the unique index admits.
LEMMA PublishConstrained ==
  ASSUME Constrained, NEW r \in Requests, Publish(r)
  PROVE  Constrained'
<1> DEFINE v == task[r].v
           closing == task[r].found \cap InForce
<1>0. TypeOK
  BY DEF Constrained
<1>1. task[r] \in Task /\ v \in Versions
  BY <1>0, InFlight DEF Publish
<1>2. ASSUME NEW w \in Versions
      PROVE  version'[w] \in Version /\ FourEyesCheck(version'[w])
  <2>0. version[w] \in Version /\ FourEyesCheck(version[w])
    BY <1>0 DEF TypeOK, Constrained
  <2>1. CASE w = v
    <3>1. version'[w] = [version[w] EXCEPT !.published = TRUE]
      BY <2>1 DEF Publish
    <3>2. TRUE \in BOOLEAN
      BY Zenon
    <3> QED BY <2>0, <3>1, <3>2 DEF Version, FourEyesCheck
  <2>2. CASE w # v /\ w \in closing
    <3>1. version'[w] = [version[w] EXCEPT !.status = "SUPERSEDED", !.ended = TRUE]
      BY <2>2 DEF Publish
    <3>2. TRUE \in BOOLEAN
      BY Zenon
    <3> QED BY <2>0, <3>1, <3>2 DEF Version, FourEyesCheck, Statuses
  <2>3. CASE w # v /\ w \notin closing
    BY <2>0, <2>3 DEF Publish
  <2> QED BY <2>1, <2>2, <2>3
<1>3. version' \in [Versions -> Version]
  BY <1>2 DEF Publish
<1>4. applied' \in [Versions -> SUBSET Rows]
  BY <1>0, <1>1 DEF Publish, TypeOK, Task
<1>5. OneInForce'
  BY DEF Publish, InForceIndex, OneInForce, InForce
<1> QED BY <1>0, <1>2, <1>3, <1>4, <1>5, FinishType DEF Publish, Constrained, TypeOK

LEMMA StepConstrained == Constrained /\ [Next]_vars => Constrained'
<1> SUFFICES ASSUME Constrained, [Next]_vars
             PROVE  Constrained'
  OBVIOUS
<1>1. ASSUME NEW v \in Versions, Create(v)
      PROVE  Constrained'
  BY <1>1, CreateConstrained
<1>2. ASSUME NEW r \in Requests, NEW v \in Versions, NEW u \in Users,
             Drafting(r, v, u) \/ Deciding(r, v, u) \/ BeginPublish(r, v, u)
      PROVE  Constrained'
  BY <1>2, BeginConstrained
<1>3. ASSUME NEW r \in Requests, Writing(r)
      PROVE  Constrained'
  BY <1>3, DecisionConstrained, RowConstrained, PublishConstrained DEF Writing
<1>4. CASE UNCHANGED vars
  BY <1>4 DEF vars, Constrained, TypeOK, OneInForce, InForce, Current
<1> QED BY <1>1, <1>2, <1>3, <1>4 DEF Next

LEMMA InitConstrained == Init => Constrained
<1> SUFFICES ASSUME Init
             PROVE  Constrained
  OBVIOUS
<1>1. Fresh("APPROVED") \in Version /\ Fresh("ABSENT") \in Version
  BY FreshType DEF Statuses
<1>2. TRUE \in BOOLEAN /\ FALSE \in BOOLEAN
  BY Zenon
<1>3. [Fresh("APPROVED") EXCEPT !.published = TRUE] \in Version
  BY <1>1, <1>2 DEF Version
<1>4. version \in [Versions -> Version]
  BY <1>1, <1>3 DEF Init
<1>5. overlap \in BOOLEAN
  BY Zenon DEF Init
<1>6. TypeOK
  BY <1>4, <1>5, IdleType DEF Init, TypeOK
<1>7. ASSUME NEW v \in Versions, v # Seed
      PROVE  v \notin InForce
  <2>1. version[v].published = FALSE
    BY <1>7 DEF Init, Fresh
  <2>2. ~version[v].published
    BY Zenon, <2>1
  <2> QED BY <2>2 DEF InForce, Current
<1>8. OneInForce
  BY <1>7 DEF OneInForce, InForce, Current
<1>9. \A v \in Versions : version[v].submitter = NoUser
  BY DEF Init, Fresh
<1> QED BY <1>6, <1>8, <1>9 DEF Constrained, FourEyesCheck

LEMMA AlwaysConstrained == Spec => []Constrained
BY InitConstrained, StepConstrained, PTL DEF Spec

\* Every state is well typed, and a request in flight names a version and a user.
THEOREM TypeCorrect == Spec => []TypeOK
<1>1. Constrained => TypeOK
  BY DEF Constrained
<1> QED BY AlwaysConstrained, <1>1, PTL

\* At no time are two versions in force, however many publications overlap.
THEOREM SingleInForce == Spec => []OneInForce
<1>1. Constrained => OneInForce
  BY DEF Constrained
<1> QED BY AlwaysConstrained, <1>1, PTL

\* Nobody is recorded as the approver of a revision that they are recorded to
\* have submitted, though it may be resubmitted while an approval is on its way.
THEOREM ApproverIsNotSubmitter == Spec => []NotSelfApproved
<1>1. Constrained => NotSelfApproved
  BY DEF Constrained, FourEyesCheck, NotSelfApproved
<1> QED BY AlwaysConstrained, <1>1, PTL
-----------------------------------------------------------------------------
(* What the service keeps as long as requests do not overlap *)

\* The history of each version, up to its place in the live tables.
Sound(v) ==
  /\ ~version[v].published => applied[v] = {} /\ ~version[v].ended
  /\ version[v].published =>
       version[v].status = IF version[v].ended THEN "SUPERSEDED" ELSE "APPROVED"
  /\ v # Seed =>
       /\ version[v].published => applied[v] = reviewed[v]
       /\ version[v].status \in {"PENDING_APPROVAL", "APPROVED"} =>
            reviewed[v] = stage[v]
       /\ version[v].status \in {"APPROVED", "SUPERSEDED"} =>
            version[v].approver \in Users \ {version[v].submitter}

\* What a request has checked still holds when it writes.
Loaded(r) ==
  LET v == task[r].v IN
  /\ task[r].op \in {"stage", "submit"} => version[v].status = "DRAFT"
  /\ task[r].op \in {"approve", "reject"} => version[v].status = "PENDING_APPROVAL"
  /\ task[r].op = "approve" => version[v].submitter # task[r].by
  /\ task[r].op \in {"read", "publish", "commit"} =>
       version[v].status = "APPROVED" /\ ~version[v].published
  /\ task[r].op \in {"publish", "commit"} => task[r].rows = stage[v]
  /\ task[r].op = "commit" => task[r].found = InForce \ {v}

AtMostOne == \A r, s \in Requests : r # s => task[r] = Idle \/ task[s] = Idle

Serial ==
  ~overlap =>
    /\ AtMostOne
    /\ \A v \in Versions : Sound(v)
    /\ \A r \in Requests : Loaded(r)
    /\ \E v \in Versions : InForce = {v}

\* A request that ends leaves nobody in flight.
LEMMA Alone ==
  ASSUME Constrained, Serial, ~overlap, NEW r \in Requests, task[r] # Idle,
         Finish(r)
  PROVE  AtMostOne' /\ \A s \in Requests : task'[s] = Idle /\ Loaded(s)'
<1>1. \A s \in Requests \ {r} : task[s] = Idle
  BY IdleType DEF Serial, AtMostOne
<1>2. \A s \in Requests : task'[s] = Idle
  BY <1>1 DEF Finish, Constrained, TypeOK
<1> QED BY <1>2, IdleType DEF AtMostOne, Loaded

LEMMA LoadSerial ==
  ASSUME Constrained, Serial, NEW r \in Requests, NEW v \in Versions,
         NEW u \in Users, NEW op, Load(r, op, v, u),
         \/ op \in {"stage", "submit"} /\ version[v].status = "DRAFT"
         \/ op = "reject" /\ version[v].status = "PENDING_APPROVAL"
         \/ op = "approve" /\ version[v].status = "PENDING_APPROVAL"
              /\ version[v].submitter # u
         \/ op = "read" /\ version[v].status = "APPROVED" /\ ~version[v].published
  PROVE  Serial'
<1> SUFFICES ASSUME ~overlap'
             PROVE  /\ AtMostOne' /\ \A w \in Versions : Sound(w)'
                    /\ \A s \in Requests : Loaded(s)'
                    /\ \E w \in Versions : InForce' = {w}
  BY DEF Serial
<1>1. ~overlap /\ \A s \in Requests \ {r} : task[s] = Idle
  BY Zenon DEF Load
<1>2. \A s \in Requests : task'[s] =
        IF s = r THEN [Idle EXCEPT !.op = op, !.v = v, !.by = u] ELSE Idle
  BY <1>1 DEF Load, Constrained, TypeOK
<1>3. AtMostOne'
  BY <1>2 DEF AtMostOne
<1>4. \A w \in Versions : Sound(w)'
  BY <1>1 DEF Load, Serial, Sound
<1>5. \A s \in Requests : Loaded(s)'
  BY <1>2 DEF Load, Loaded, Idle
<1>6. \E w \in Versions : InForce' = {w}
  BY <1>1 DEF Load, Serial, InForce, Current
<1> QED BY <1>3, <1>4, <1>5, <1>6

LEMMA BeginSerial ==
  ASSUME Constrained, Serial, NEW r \in Requests, NEW v \in Versions, NEW u \in Users,
         Drafting(r, v, u) \/ Deciding(r, v, u) \/ BeginPublish(r, v, u)
  PROVE  Serial'
BY LoadSerial
   DEF Drafting, BeginStage, BeginSubmit, Deciding, BeginApprove, BeginReject,
       BeginPublish

LEMMA CreateSerial ==
  ASSUME Constrained, Serial, NEW v \in Versions, Create(v)
  PROVE  Serial'
<1> SUFFICES ASSUME ~overlap
             PROVE  /\ AtMostOne' /\ \A w \in Versions : Sound(w)'
                    /\ \A s \in Requests : Loaded(s)'
                    /\ \E w \in Versions : InForce' = {w}
  BY DEF Serial, Create
<1>1. \A w \in Versions : version'[w] = IF w = v THEN Fresh("DRAFT") ELSE version[w]
  BY DEF Create, Constrained, TypeOK
<1>2. ~Fresh("DRAFT").published /\ ~Fresh("DRAFT").ended /\ Fresh("DRAFT").status = "DRAFT"
  <2>1. Fresh("DRAFT").published = FALSE /\ Fresh("DRAFT").ended = FALSE
    BY DEF Fresh
  <2>2. Fresh("DRAFT").status = "DRAFT"
    BY DEF Fresh
  <2> QED BY Zenon, <2>1, <2>2
<1>3. ~version[v].published
  BY DEF Serial, Sound, Create
<1>4. \A w \in Versions : Sound(w)'
  BY <1>1, <1>2, <1>3 DEF Serial, Sound, Create
<1>5. InForce' = InForce
  BY <1>1, <1>2, <1>3 DEF InForce, Current
<1>6. ASSUME NEW s \in Requests
      PROVE  Loaded(s)'
  <2>1. CASE task[s].op = "idle"
    BY <2>1 DEF Create, Loaded
  <2>2. CASE task[s].op # "idle"
    <3>1. task[s] \in Task /\ task[s].v \in Versions
      BY <2>2, InFlight DEF Constrained
    <3>2. version[task[s].v].status # "ABSENT"
      BY <2>2, <3>1 DEF Serial, Loaded, Task, Ops
    <3>3. version'[task[s].v] = version[task[s].v]
      BY <1>1, <3>1, <3>2 DEF Create
    <3> QED BY <3>3, <1>5 DEF Create, Serial, Loaded
  <2> QED BY <2>1, <2>2
<1> QED BY <1>4, <1>5, <1>6 DEF Serial, AtMostOne, Create

\* A request that writes leaves the store sound and one version in force.
LEMMA EndSerial ==
  ASSUME Constrained, Serial, NEW r \in Requests, task[r] # Idle,
         Finish(r), UNCHANGED overlap,
         ~overlap => /\ \A v \in Versions : Sound(v)'
                     /\ \E v \in Versions : InForce' = {v}
  PROVE  Serial'
BY Alone DEF Serial

LEMMA InsertSerial ==
  ASSUME Constrained, Serial, NEW r \in Requests, NEW row \in Rows, InsertRow(r, row)
  PROVE  Serial'
<1> DEFINE v == task[r].v
<1>1. v \in Versions /\ task[r].op # "idle"
  BY InFlight DEF Constrained, InsertRow
<1>2. CASE ~overlap
  <2>1. version[v].status = "DRAFT"
    BY <1>2 DEF Serial, Loaded, InsertRow
  <2>2. \A w \in Versions \ {v} : stage'[w] = stage[w]
    BY DEF InsertRow, Constrained, TypeOK
  <2>3. \A w \in Versions : Sound(w)'
    BY <1>2, <2>1, <2>2 DEF Serial, Sound, InsertRow
  <2>4. InForce' = InForce
    BY DEF InsertRow, InForce, Current
  <2> QED BY <1>1, <1>2, <2>3, <2>4, IdleType, EndSerial DEF InsertRow, Serial
<1> QED BY <1>1, <1>2, IdleType, EndSerial DEF InsertRow

\* The three decisions leave published versions alone.
LEMMA DecisionSerial ==
  ASSUME Constrained, Serial, NEW r \in Requests, Submit(r) \/ Approve(r) \/ Reject(r)
  PROVE  Serial'
<1>1. PICK v \in Versions :
        /\ v = task[r].v
        /\ task[r].op # "idle" /\ task[r].by \in Users /\ version[v] \in Version
  BY InFlight DEF Constrained, Submit, Approve, Reject
<1>2. CASE ~overlap
  <2>1. version[v].status \in {"DRAFT", "PENDING_APPROVAL"} /\ ~version[v].published
    BY <1>1, <1>2 DEF Serial, Sound, Loaded, Submit, Approve, Reject
  <2>2. \A w \in Versions \ {v} : version'[w] = version[w] /\ reviewed'[w] = reviewed[w]
    BY <1>1 DEF Submit, Approve, Reject, Write, Constrained, TypeOK
  <2>3. /\ version'[v].published = version[v].published
        /\ version'[v].ended = version[v].ended
        /\ \/ version'[v].status \in {"DRAFT", "PENDING_APPROVAL"}
           \/ Approve(r) /\ version'[v].status = "APPROVED"
                /\ version'[v].approver = task[r].by
                /\ version'[v].submitter = version[v].submitter
    <3>1. CASE Submit(r)
      <4>1. version'[v] = [version[v] EXCEPT !.status = "PENDING_APPROVAL",
                                             !.submitter = task[r].by]
        BY <1>1, <3>1 DEF Submit, Write, Constrained, TypeOK
      <4> QED BY <1>1, <4>1 DEF Version
    <3>2. CASE Approve(r)
      <4>1. version'[v] = [version[v] EXCEPT !.status = "APPROVED", !.approver = task[r].by]
        BY <1>1, <3>2 DEF Approve, Write, Constrained, TypeOK
      <4> QED BY <1>1, <3>2, <4>1 DEF Version
    <3>3. CASE Reject(r)
      <4>1. version'[v] = [version[v] EXCEPT !.status = "DRAFT", !.submitter = NoUser]
        BY <1>1, <3>3 DEF Reject, Write, Constrained, TypeOK
      <4> QED BY <1>1, <4>1 DEF Version
    <3> QED BY <3>1, <3>2, <3>3
  <2>4. Sound(v)'
    <3>1. ~version'[v].published /\ applied'[v] = {} /\ ~version'[v].ended
      <4>1. applied' = applied
        BY DEF Submit, Approve, Reject
      <4> QED BY Zenon, <1>1, <1>2, <2>1, <2>3, <4>1 DEF Serial, Sound
    <3>2. ASSUME v # Seed, version'[v].status = "PENDING_APPROVAL"
          PROVE  reviewed'[v] = stage'[v]
      <4>1. Submit(r)
        BY <1>1, <2>3, <3>2 DEF Submit, Approve, Reject, Write, Constrained, TypeOK, Version
      <4> QED BY <1>1, <4>1 DEF Submit, Constrained, TypeOK
    <3>3. ASSUME v # Seed, version'[v].status = "APPROVED"
          PROVE  reviewed'[v] = stage'[v] /\ version'[v].approver \in Users \ {version'[v].submitter}
      <4>1. Approve(r) /\ version'[v].approver = task[r].by
              /\ version'[v].submitter = version[v].submitter
        BY <2>3, <3>3
      <4>2. version[v].submitter # task[r].by /\ version[v].status = "PENDING_APPROVAL"
        BY <1>1, <1>2, <4>1 DEF Serial, Loaded, Approve
      <4>3. reviewed[v] = stage[v]
        BY <1>1, <1>2, <3>3, <4>2 DEF Serial, Sound
      <4> QED BY <1>1, <4>1, <4>2, <4>3 DEF Approve
    <3>4. version'[v].status # "SUPERSEDED"
      BY <2>3
    <3> QED BY <3>1, <3>2, <3>3, <3>4 DEF Sound
  <2>5. \A w \in Versions : Sound(w)'
    BY <1>2, <2>2, <2>4 DEF Serial, Sound, Submit, Approve, Reject
  <2>6. InForce' = InForce
    BY <2>2, <2>3 DEF InForce, Current
  <2> QED BY <1>1, <1>2, <2>5, <2>6, IdleType, EndSerial DEF Submit, Approve, Reject, Write, Serial
<1> QED BY <1>1, <1>2, IdleType, EndSerial DEF Submit, Approve, Reject, Write

\* The two reads of a publication.
LEMMA ReadingSerial ==
  ASSUME Constrained, Serial, NEW r \in Requests, ReadStaged(r) \/ FindSuperseded(r)
  PROVE  Serial'
<1> SUFFICES ASSUME ~overlap
             PROVE  /\ AtMostOne' /\ \A w \in Versions : Sound(w)'
                    /\ \A s \in Requests : Loaded(s)'
                    /\ \E w \in Versions : InForce' = {w}
  BY DEF Serial, ReadStaged, FindSuperseded
<1>1. task[r] \in Task /\ task[r].op # "idle"
  BY InFlight DEF Constrained, ReadStaged, FindSuperseded
<1>2. \A s \in Requests \ {r} : task[s] = Idle
  BY <1>1, IdleType DEF Serial, AtMostOne
<1>3. \A s \in Requests \ {r} : task'[s] = Idle
  BY <1>2 DEF ReadStaged, FindSuperseded, Constrained, TypeOK
<1>4. AtMostOne'
  BY <1>3 DEF AtMostOne
<1>5. \A w \in Versions : Sound(w)'
  BY DEF Serial, Sound, ReadStaged, FindSuperseded
<1>6. InForce' = InForce
  BY DEF InForce, Current, ReadStaged, FindSuperseded
<1>7. Loaded(r)'
  <2>1. CASE ReadStaged(r)
    <3>1. task'[r] = [task[r] EXCEPT !.op = "publish", !.rows = stage[task[r].v]]
      BY <2>1 DEF ReadStaged, Constrained, TypeOK
    <3> QED BY <1>1, <2>1, <3>1 DEF ReadStaged, Serial, Loaded, Task
  <2>2. CASE FindSuperseded(r)
    <3>1. task'[r] = [task[r] EXCEPT !.op = "commit", !.found = InForce \ {task[r].v}]
      BY <2>2 DEF FindSuperseded, Constrained, TypeOK
    <3> QED BY <1>1, <1>6, <2>2, <3>1 DEF FindSuperseded, Serial, Loaded, Task
  <2> QED BY <2>1, <2>2
<1>8. \A s \in Requests : Loaded(s)'
  BY <1>3, <1>7, IdleType DEF Loaded
<1> QED BY <1>4, <1>5, <1>6, <1>8 DEF Serial

\* A publication takes the place of the version in force.
LEMMA PublishSerial ==
  ASSUME Constrained, Serial, NEW r \in Requests, Publish(r)
  PROVE  Serial'
<1>1. PICK v \in Versions : v = task[r].v /\ task[r].op # "idle" /\ task[r] \in Task
  BY InFlight DEF Constrained, Publish
<1>2. CASE ~overlap
  <2>1. /\ version[v].status = "APPROVED" /\ ~version[v].published
        /\ task[r].rows = stage[v] /\ task[r].found \cap InForce = InForce \ {v}
    BY <1>1, <1>2 DEF Serial, Loaded, Publish
  <2>2. Sound(v) /\ version[v] \in Version
    BY <1>1, <1>2 DEF Serial, Constrained, TypeOK
  <2>3. version'[v] = [version[v] EXCEPT !.published = TRUE]
    BY <1>1 DEF Publish
  <2>4. version'[v].published /\ ~version'[v].ended
    <3>1. version'[v].published = TRUE /\ version'[v].ended = version[v].ended
      BY <2>2, <2>3 DEF Version
    <3>2. ~version[v].ended
      BY <2>1, <2>2 DEF Sound
    <3> QED BY Zenon, <3>1, <3>2
  <2>5. \A w \in Versions \ {v} : version'[w] =
          IF w \in InForce
          THEN [version[w] EXCEPT !.status = "SUPERSEDED", !.ended = TRUE] ELSE version[w]
    BY <1>1, <2>1 DEF Publish
  <2>6. Sound(v)'
    <3>1. /\ version'[v].status = "APPROVED" /\ version'[v].approver = version[v].approver
          /\ version'[v].submitter = version[v].submitter
      BY <2>1, <2>2, <2>3 DEF Version
    <3>2. applied'[v] = applied[v] \cup stage[v] /\ applied[v] = {}
      BY <1>1, <2>1, <2>2 DEF Publish, Constrained, TypeOK, Sound
    <3>3. v # Seed => applied'[v] = reviewed'[v] /\ reviewed'[v] = stage'[v]
      BY <1>1, <2>1, <2>2, <3>2 DEF Sound, Publish
    <3>4. v # Seed => version'[v].approver \in Users \ {version'[v].submitter}
      BY <2>1, <2>2, <3>1 DEF Sound
    <3> QED BY Zenon, <2>4, <3>1, <3>3, <3>4 DEF Sound
  <2>7. ASSUME NEW w \in Versions \ {v}
        PROVE  Sound(w)' /\ w \notin InForce'
    <3>1. applied'[w] = applied[w] /\ Sound(w) /\ version[w] \in Version
      BY <1>1, <1>2 DEF Publish, Constrained, TypeOK, Serial
    <3>2. CASE w \in InForce
      <4>1. /\ version'[w].status = "SUPERSEDED" /\ version'[w].ended = TRUE
            /\ version'[w].published = version[w].published
            /\ version'[w].approver = version[w].approver
            /\ version'[w].submitter = version[w].submitter
        BY <2>5, <3>1, <3>2 DEF Version
      <4>2. version'[w].ended /\ version[w].published /\ version[w].status = "APPROVED"
        BY Zenon, <3>1, <3>2, <4>1 DEF Sound, InForce, Current
      <4> QED BY <3>1, <4>1, <4>2 DEF Sound, Publish, InForce, Current
    <3>3. CASE w \notin InForce
      <4>1. version'[w] = version[w]
        BY <2>5, <3>3
      <4> QED BY <3>1, <3>3, <4>1 DEF Sound, Publish, InForce, Current
    <3> QED BY <3>2, <3>3
  <2>8. InForce' = {v}
    <3>1. v \in InForce'
      BY <1>1, <2>4 DEF InForce, Current
    <3>2. InForce' \subseteq Versions
      BY DEF InForce, Current
    <3> QED BY <2>7, <3>1, <3>2
  <2> QED BY <1>1, <1>2, <2>6, <2>7, <2>8, IdleType, EndSerial DEF Publish
<1> QED BY <1>1, <1>2, IdleType, EndSerial DEF Publish

LEMMA FailSerial ==
  ASSUME Constrained, Serial, NEW r \in Requests, Fail(r)
  PROVE  Serial'
<1>1. ~overlap => \A v \in Versions : Sound(v)'
  BY DEF Fail, Serial, Sound
<1>2. InForce' = InForce
  BY DEF Fail, InForce, Current
<1> QED BY <1>1, <1>2, EndSerial DEF Fail, Serial

LEMMA InitSerial == Init => Serial
<1> SUFFICES ASSUME Init
             PROVE  Serial
  OBVIOUS
<1>1. ~Fresh("APPROVED").ended /\ ~Fresh("ABSENT").ended /\ ~Fresh("ABSENT").published
  <2>1. /\ Fresh("APPROVED").ended = FALSE
        /\ Fresh("ABSENT").ended = FALSE /\ Fresh("ABSENT").published = FALSE
    BY DEF Fresh
  <2> QED BY Zenon, <2>1
<1>2. version[Seed].published /\ ~version[Seed].ended /\ version[Seed].status = "APPROVED"
  <2>1. version[Seed] = [Fresh("APPROVED") EXCEPT !.published = TRUE]
    BY SeedAssumption DEF Init
  <2>2. /\ version[Seed].published = TRUE
        /\ version[Seed].ended = Fresh("APPROVED").ended
        /\ version[Seed].status = "APPROVED"
    BY <2>1 DEF Fresh
  <2> QED BY Zenon, <1>1, <2>2
<1>3. \A v \in Versions : v # Seed => version[v] = Fresh("ABSENT")
  BY DEF Init
<1>4. Fresh("ABSENT").status = "ABSENT"
  BY DEF Fresh
<1>5. \A v \in Versions : Sound(v)
  <2>1. ASSUME NEW v \in Versions, v # Seed
        PROVE  Sound(v)
    BY <1>1, <1>3, <1>4, <2>1 DEF Init, Sound
  <2>2. Sound(Seed)
    BY Zenon, <1>2 DEF Sound
  <2> QED BY <2>1, <2>2
<1>6. InForce = {Seed}
  BY <1>1, <1>2, <1>3, SeedAssumption DEF InForce, Current
<1>7. \A r \in Requests : task[r] = Idle
  BY DEF Init
<1>8. AtMostOne /\ \A r \in Requests : Loaded(r)
  BY <1>7, IdleType DEF AtMostOne, Loaded
<1> QED BY <1>5, <1>6, <1>8, SeedAssumption DEF Serial

LEMMA StepSerial == Constrained /\ Serial /\ [Next]_vars => Serial'
<1> SUFFICES ASSUME Constrained, Serial, [Next]_vars
             PROVE  Serial'
  OBVIOUS
<1>1. ASSUME NEW v \in Versions, Create(v)
      PROVE  Serial'
  BY <1>1, CreateSerial
<1>2. ASSUME NEW r \in Requests, NEW v \in Versions, NEW u \in Users,
             Drafting(r, v, u) \/ Deciding(r, v, u) \/ BeginPublish(r, v, u)
      PROVE  Serial'
  BY <1>2, BeginSerial
<1>3. ASSUME NEW r \in Requests, Writing(r)
      PROVE  Serial'
  BY <1>3, InsertSerial, DecisionSerial, ReadingSerial, PublishSerial, FailSerial
     DEF Writing
<1>4. CASE UNCHANGED vars
  BY <1>4 DEF vars, Serial, AtMostOne, Sound, Loaded, InForce, Current
<1> QED BY <1>1, <1>2, <1>3, <1>4 DEF Next

LEMMA AlwaysSerial == Spec => []Serial
BY InitSerial, StepSerial, AlwaysConstrained, PTL DEF Spec

\* Until two requests overlap there is exactly one version in force, and the
\* live tables hold what was submitted and approved by a second person.
THEOREM RatesAttributed == Spec => []AttributedRates
<1>1. Serial => AttributedRates
  <2> SUFFICES ASSUME Serial, ~overlap
               PROVE  /\ \E v \in Versions : InForce = {v}
                      /\ \A v \in Versions : version[v].published =>
                           /\ version[v].status =
                                IF version[v].ended THEN "SUPERSEDED" ELSE "APPROVED"
                           /\ v # Seed =>
                                /\ applied[v] = reviewed[v]
                                /\ version[v].approver \in Users \ {version[v].submitter}
    BY DEF AttributedRates
  <2>1. \A v \in Versions : Sound(v)
    BY DEF Serial
  <2>2. \E v \in Versions : InForce = {v}
    BY DEF Serial
  <2> QED BY <2>1, <2>2 DEF Sound
<1> QED BY AlwaysSerial, <1>1, PTL

\* What a step may do to a published version.
Final(v) ==
  /\ applied'[v] = applied[v]
  /\ \/ version'[v] = version[v]
     \/ /\ ~version[v].ended
        /\ version'[v] = [version[v] EXCEPT !.status = "SUPERSEDED", !.ended = TRUE]

LEMMA PublishedUntouched ==
  ASSUME Constrained, Serial, [Next]_vars, ~overlap', NEW v \in Versions,
         version[v].published
  PROVE  Final(v)
<1>1. ASSUME NEW w \in Versions, Create(w)
      PROVE  Final(v)
  <2>1. version[v].status # "ABSENT"
    BY <1>1 DEF Create, Serial, Sound
  <2> QED BY <1>1, <2>1 DEF Create, Final, Constrained, TypeOK
<1>2. ASSUME NEW r \in Requests, NEW w \in Versions, NEW u \in Users,
             Drafting(r, w, u) \/ Deciding(r, w, u) \/ BeginPublish(r, w, u)
      PROVE  Final(v)
  BY <1>2 DEF Drafting, BeginStage, BeginSubmit, Deciding, BeginApprove,
              BeginReject, BeginPublish, Load, Final
<1>3. ASSUME NEW r \in Requests, Writing(r)
      PROVE  Final(v)
  <2>1. CASE \/ \E row \in Rows : InsertRow(r, row)
             \/ ReadStaged(r) \/ FindSuperseded(r) \/ Fail(r)
    BY <2>1 DEF InsertRow, ReadStaged, FindSuperseded, Fail, Final
  <2>2. CASE Submit(r) \/ Approve(r) \/ Reject(r)
    <3>1. task[r].v # v
      BY <2>2 DEF Submit, Approve, Reject, Serial, Sound, Loaded
    <3> QED BY <2>2, <3>1 DEF Submit, Approve, Reject, Write, Final, Constrained, TypeOK
  <2>3. CASE Publish(r)
    <3>1. task[r].v # v /\ task[r].v \in Versions
      BY <2>3, InFlight DEF Publish, Serial, Loaded, Constrained
    <3>2. applied'[v] = applied[v]
      BY <2>3, <3>1 DEF Publish, Constrained, TypeOK
    <3>3. CASE v \in task[r].found \cap InForce
      <4>1. version'[v] = [version[v] EXCEPT !.status = "SUPERSEDED", !.ended = TRUE]
        BY <2>3, <3>1, <3>3 DEF Publish
      <4> QED BY <3>2, <3>3, <4>1 DEF Final, InForce, Current
    <3>4. CASE v \notin task[r].found \cap InForce
      BY <2>3, <3>1, <3>2, <3>4 DEF Publish, Final
    <3> QED BY <3>3, <3>4
  <2> QED BY <1>3, <2>1, <2>2, <2>3 DEF Writing
<1>4. CASE UNCHANGED vars
  BY <1>4 DEF vars, Final
<1> QED BY <1>1, <1>2, <1>3, <1>4 DEF Next

\* Until two requests overlap, nothing happens to a published version but that
\* a later one takes its place.
THEOREM PublishedStays == Spec => PublishedIsFinal
<1>1. Constrained /\ Serial /\ [Next]_vars =>
        [\A v \in Versions : version[v].published /\ ~overlap' =>
           /\ applied'[v] = applied[v]
           /\ \/ version'[v] = version[v]
              \/ /\ ~version[v].ended
                 /\ version'[v] = [version[v] EXCEPT !.status = "SUPERSEDED",
                                                    !.ended = TRUE]]_vars
  BY PublishedUntouched DEF Final
<1> QED BY AlwaysConstrained, AlwaysSerial, <1>1, PTL DEF Spec, PublishedIsFinal
=============================================================================
