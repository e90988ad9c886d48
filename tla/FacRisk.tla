------------------------------ MODULE FacRisk ------------------------------
(***************************************************************************)
(* Facultative risks: the workflow of a risk, the capacity gate in front   *)
(* of a bind and the view of the book it measures against, and the answers *)
(* to the recommendations that document AI makes.                          *)
(*                                                                         *)
(*   server/src/routes/facultative.js                                      *)
(*   server/src/services/facAccumulationService.js                         *)
(*   server/src/lib/facRecommendationApply.js, facDocAi.js                 *)
(*   shared/fac/accumulation.js                                            *)
(*                                                                         *)
(* Submit, decline, bind and accept read on the pool and write by id in a  *)
(* later statement. Exposure is what a risk carries in the one CRESTA zone *)
(* of the model, at our share; 0 stands for no location in the zone.       *)
(***************************************************************************)
EXTENDS Integers, Functions

CONSTANTS
  Risks,
  Recs,         \* recommendations that document AI may make
  About,        \* the risk each of them is about
  Target,       \* the target_field of each of them
  Appended,     \* the exposure that a recommendation of a location adds, else 0
  Requests,     \* concurrent requests, manual and nightly refreshes included
  Grades,       \* capacity grades of a complete pricing
  Senior,       \* those that route a submission to a senior underwriter
  Capped,       \* those that allow less than the share being written
  Budget,       \* the budget of the zone
  TreatyLoad,   \* what treaties in force have committed in the zone
  MaxExposure, MaxRef,   \* bounds
  NoRisk, NoRec, NoGrade

ASSUME RecAssumption ==
  /\ About \in [Recs -> Risks]
  /\ Appended \in [Recs -> Nat]
ASSUME FigureAssumption ==
  Budget \in Nat /\ TreatyLoad \in Nat /\ MaxExposure \in Nat /\ MaxRef \in Nat
ASSUME NullAssumption ==
  NoRisk \notin Risks /\ NoRec \notin Recs /\ NoGrade \notin Grades

VARIABLES
  risk,     \* fac_risk, with the sum of its fac_location rows and its fac_pricing
  view,     \* mv_fac_accumulation: the exposure it holds for each risk
  seq,      \* fac_bound_reference_seq: the last number drawn
  rec,      \* fac_ai_recommendation.status
  req,      \* what each request has read
  drift,    \* history: risks that changed, or whose refresh was lost, since the
            \* view last agreed with them
  applied   \* history: recommendations whose value has been written

vars == <<risk, view, seq, rec, req, drift, applied>>

Statuses == {"ABSENT", "DRAFT", "QUOTED", "REFERRED", "BOUND", "DECLINED",
             "DELETED"}
Answers == {"NONE", "PENDING", "ACCEPTED", "REJECTED", "SUPERSEDED", "GONE"}
Ops == {"idle", "submit", "decline", "measure", "weigh", "bind", "refresh",
        "install", "accept"}
Routes == {"QUOTED", "REFERRED"}   \* where a submission leads
Excuses == {"none", "overridden", "unchecked"}
Exposures == 0..MaxExposure
GradeOrNull == Grades \cup {NoGrade}

Risk == [status : Statuses, ref : Nat, grade : GradeOrNull, exposure : Nat]
Gone(status) ==
  [status |-> status, ref |-> 0, grade |-> NoGrade, exposure |-> 0]

Idle ==
  [op |-> "idle", k |-> NoRisk, x |-> NoRec, ref |-> 0, next |-> "NONE",
   adding |-> 0, grade |-> NoGrade, own |-> 0, excuse |-> "none",
   snapshot |-> [k \in Risks |-> 0]]

Request ==
  [op : Ops, k : Risks \cup {NoRisk}, x : Recs \cup {NoRec}, ref : Nat,
   next : Routes \cup {"NONE"}, adding : Nat, grade : GradeOrNull, own : Nat,
   excuse : Excuses, snapshot : [Risks -> Nat]]

Exists(k) == risk[k].status \notin {"ABSENT", "DELETED"}
At(q, op) == req[q].op = op

\* The rows that the FAC leg of the view selects, WHERE r.status = 'BOUND'.
Carried(r, k) == IF r[k].status = "BOUND" THEN r[k].exposure ELSE 0
Book(r) == [k \in Risks |-> Carried(r, k)]

Total(book, ks) == SumFunctionOnSet(book, ks)

Begin(q, task) == req[q] = Idle /\ req' = [req EXCEPT ![q] = task]
Finish(q) == req' = [req EXCEPT ![q] = Idle]

\* A change to a risk that the book holds, or that leaves the book, without a
\* refresh of the view.
Drifts(k) == drift' = IF risk[k].status = "BOUND" THEN drift \cup {k} ELSE drift

\* UPDATE fac_risk .. WHERE fac_risk_id = $1: no row, no change.
SetRisk(k, row) ==
  risk' = IF Exists(k) THEN [risk EXCEPT ![k] = row] ELSE risk

-----------------------------------------------------------------------------
(* The risk and what is entered on it *)

\* POST /fac/risks: "a fac risk is always born DRAFT".
Create(k) ==
  /\ risk[k].status = "ABSENT"
  /\ risk' = [risk EXCEPT ![k].status = "DRAFT"]
  /\ UNCHANGED <<view, seq, rec, req, drift, applied>>

\* DELETE /fac/risks/:id, in any status; locations, pricing and
\* recommendations go with it (ON DELETE CASCADE).
Delete(k) ==
  /\ Exists(k)
  /\ Drifts(k)
  /\ risk' = [risk EXCEPT ![k] = Gone("DELETED")]
  /\ rec' = [x \in Recs |-> IF About[x] = k /\ rec[x] # "NONE" THEN "GONE" ELSE rec[x]]
  /\ UNCHANGED <<view, seq, req, applied>>

\* PUT .. /locations, and our_share_pct through PUT /fac/risks/:id, in any status.
SaveExposure(k, e) ==
  /\ Exists(k)
  /\ e # risk[k].exposure
  /\ Drifts(k)
  /\ risk' = [risk EXCEPT ![k].exposure = e]
  /\ UNCHANGED <<view, seq, rec, req, applied>>

\* PUT .. /pricing stores the score, the grade and the capacity it allows.
SavePricing(k, g) ==
  /\ Exists(k)
  /\ g # risk[k].grade
  /\ risk' = [risk EXCEPT ![k].grade = g]
  /\ UNCHANGED <<view, seq, rec, req, drift, applied>>

-----------------------------------------------------------------------------
(* Submission and decline *)

\* "'H','I','J','K' route to senior".
Route(k) == IF risk[k].grade \in Senior THEN "REFERRED" ELSE "QUOTED"

\* POST .. /submit-for-approval takes a priced risk in any status.
ReadForSubmit(q, k) ==
  /\ Exists(k)
  /\ risk[k].grade # NoGrade
  /\ Begin(q, [Idle EXCEPT !.op = "submit", !.k = k, !.next = Route(k)])
  /\ UNCHANGED <<risk, view, seq, rec, drift, applied>>

Submit(q) ==
  LET k == req[q].k IN
  /\ At(q, "submit")
  /\ Drifts(k)
  /\ SetRisk(k, [risk[k] EXCEPT !.status = req[q].next])
  /\ Finish(q)
  /\ UNCHANGED <<view, seq, rec, applied>>

ReadForDecline(q, k) ==
  /\ risk[k].status \in {"DRAFT", "QUOTED", "REFERRED"}
  /\ Begin(q, [Idle EXCEPT !.op = "decline", !.k = k])
  /\ UNCHANGED <<risk, view, seq, rec, drift, applied>>

Decline(q) ==
  LET k == req[q].k IN
  /\ At(q, "decline")
  /\ Drifts(k)
  /\ SetRisk(k, [risk[k] EXCEPT !.status = "DECLINED"])
  /\ Finish(q)
  /\ UNCHANGED <<view, seq, rec, applied>>

-----------------------------------------------------------------------------
(* The bind and its gate *)

\* POST .. /bind: "Risk must be QUOTED first".
ReadForBind(q, k) ==
  /\ risk[k].status = "QUOTED"
  /\ Begin(q, [Idle EXCEPT !.op = "measure", !.k = k, !.ref = risk[k].ref])
  /\ UNCHANGED <<risk, view, seq, rec, drift, applied>>

\* checkFacCapacity reads the risk, its pricing and what it would add ..
Measure(q) ==
  LET k == req[q].k IN
  /\ At(q, "measure")
  /\ Exists(k)
  /\ req' = [req EXCEPT ![q].op = "weigh", ![q].adding = risk[k].exposure,
                        ![q].grade = risk[k].grade]
  /\ UNCHANGED <<risk, view, seq, rec, drift, applied>>

\* .. and then the view, less the risk itself when it is bound already: below
\* zero, even, for a bound risk that the view does not hold yet.
Committed(k) == TreatyLoad + Total(view, Risks) - Carried(risk, k)

\* Mutant: the gate looks at the book without what the risk would add.
BreachBefore(adding, committed, grade) ==
  \/ grade \in Capped
  \/ adding > 0 /\ committed > Budget

\* perRiskLineCheck and zoneAccumulationCheck; a risk that adds nothing names
\* no zone to check.
Breach(adding, committed, grade) ==
  \/ grade \in Capped
  \/ adding > 0 /\ committed + adding > Budget

\* A breach is a referral: without the override of an approver the bind ends
\* here, with 409 or 403.
Weigh(q, override) ==
  LET c == Committed(req[q].k)
      breach == Breach(req[q].adding, c, req[q].grade)
  IN
  /\ At(q, "weigh")
  /\ IF breach /\ ~override
       THEN Finish(q)
       ELSE req' = [req EXCEPT ![q].op = "bind", ![q].snapshot = view,
                      ![q].own = Carried(risk, req[q].k),
                      ![q].excuse = IF breach THEN "overridden" ELSE "none"]
  /\ UNCHANGED <<risk, view, seq, rec, drift, applied>>

\* "A capacity check that cannot run must not block a bind."
SkipCheck(q) ==
  /\ At(q, "measure") \/ At(q, "weigh")
  /\ req' = [req EXCEPT ![q].op = "bind", ![q].excuse = "unchecked"]
  /\ UNCHANGED <<risk, view, seq, rec, drift, applied>>

\* bound_reference = COALESCE(bound_reference, $2).
Reference(k, drawn) == IF risk[k].ref # 0 THEN risk[k].ref ELSE drawn

\* Mutant: the refresh is not part of the request that binds.
BindAlone(q) ==
  LET k == req[q].k
      drawn == IF req[q].ref # 0 THEN req[q].ref ELSE seq + 1
  IN
  /\ At(q, "bind")
  /\ seq < MaxRef
  /\ seq' = seq + 1
  /\ SetRisk(k, [risk[k] EXCEPT !.status = "BOUND", !.ref = Reference(k, drawn)])
  /\ Finish(q)
  /\ UNCHANGED <<view, rec, drift, applied>>

\* A number is drawn in every case, and used unless the row had one when it
\* was read. Of a deleted risk the answer is read from no row: it throws.
Bind(q) ==
  LET k == req[q].k
      drawn == IF req[q].ref # 0 THEN req[q].ref ELSE seq + 1
  IN
  /\ At(q, "bind")
  /\ seq < MaxRef
  /\ seq' = seq + 1
  /\ SetRisk(k, [risk[k] EXCEPT !.status = "BOUND", !.ref = Reference(k, drawn)])
  /\ IF Exists(k)
       THEN req' = [req EXCEPT ![q] = [Idle EXCEPT !.op = "refresh", !.k = k]]
       ELSE Finish(q)
  /\ UNCHANGED <<view, rec, drift, applied>>

-----------------------------------------------------------------------------
(* The view of the book *)

\* POST /fac/accumulation/refresh and the nightly job.
RequestRefresh(q) ==
  /\ Begin(q, [Idle EXCEPT !.op = "refresh"])
  /\ UNCHANGED <<risk, view, seq, rec, drift, applied>>

\* REFRESH MATERIALIZED VIEW computes the book of one moment ..
Refresh(q) ==
  /\ At(q, "refresh")
  /\ \A p \in Requests : ~At(p, "install")   \* its lock on the view
  /\ req' = [req EXCEPT ![q].op = "install", ![q].snapshot = Book(risk)]
  /\ UNCHANGED <<risk, view, seq, rec, drift, applied>>

\* .. and installs it when it commits; until then the old one is read.
Install(q) ==
  LET s == req[q].snapshot IN
  /\ At(q, "install")
  /\ view' = s
  /\ drift' = {k \in drift : s[k] # Carried(risk, k)}
  /\ Finish(q)
  /\ UNCHANGED <<risk, seq, rec, applied>>

-----------------------------------------------------------------------------
(* Recommendations *)

\* runFacDocumentAnalysis inserts what it found; the row needs its risk.
Recommend(x) ==
  /\ rec[x] = "NONE"
  /\ Exists(About[x])
  /\ rec' = [rec EXCEPT ![x] = "PENDING"]
  /\ UNCHANGED <<risk, view, seq, req, drift, applied>>

\* POST /fac/recommendation/:recId/accept, "only PENDING".
ReadForAccept(q, x) ==
  /\ rec[x] = "PENDING"
  /\ Begin(q, [Idle EXCEPT !.op = "accept", !.x = x])
  /\ UNCHANGED <<risk, view, seq, rec, drift, applied>>

\* Mutant: every other recommendation of the field is superseded.
SupersededAll(x) ==
  {y \in Recs \ {x} : rec[y] # "NONE" /\ About[y] = About[x]
                                      /\ Target[y] = Target[x]}

\* What is PENDING for the same field of the same risk is answered too.
Superseded(x) ==
  {y \in Recs \ {x} : rec[y] = "PENDING" /\ About[y] = About[x]
                                         /\ Target[y] = Target[x]}

\* One transaction applies the value, marks the recommendation ACCEPTED
\* whatever it has become, and supersedes its rivals. When the risk has been
\* deleted the insert breaks its foreign key, or no row is updated.
Accept(q) ==
  LET x == req[q].x
      k == About[x]
  IN
  /\ At(q, "accept")
  /\ risk[k].exposure + Appended[x] <= MaxExposure
  /\ IF Exists(k)
       THEN /\ risk' = [risk EXCEPT ![k].exposure = @ + Appended[x]]
            /\ IF Appended[x] > 0 THEN Drifts(k) ELSE drift' = drift
            /\ rec' = [y \in Recs |->
                 IF y = x THEN "ACCEPTED"
                 ELSE IF y \in Superseded(x) THEN "SUPERSEDED" ELSE rec[y]]
            /\ applied' = applied \cup {x}
       ELSE UNCHANGED <<risk, rec, drift, applied>>
  /\ Finish(q)
  /\ UNCHANGED <<view, seq>>

\* POST .. /reject: UPDATE .. WHERE status = 'PENDING'.
Reject(x) ==
  /\ rec[x] = "PENDING"
  /\ rec' = [rec EXCEPT ![x] = "REJECTED"]
  /\ UNCHANGED <<risk, view, seq, req, drift, applied>>

-----------------------------------------------------------------------------
\* A statement fails, a deadlock is broken or the process dies. A refresh
\* that fails is logged and leaves the bind as it is.
Fail(q) ==
  /\ req[q] # Idle
  /\ drift' = IF req[q].op \in {"refresh", "install"} /\ req[q].k \in Risks
                THEN drift \cup {req[q].k} ELSE drift
  /\ Finish(q)
  /\ UNCHANGED <<risk, view, seq, rec, applied>>

Init ==
  /\ risk = [k \in Risks |-> Gone("ABSENT")]
  /\ view = [k \in Risks |-> 0]
  /\ seq = 0
  /\ rec = [x \in Recs |-> "NONE"]
  /\ req = [q \in Requests |-> Idle]
  /\ drift = {}
  /\ applied = {}

Enter ==
  \E k \in Risks :
    \/ Create(k) \/ Delete(k)
    \/ \E e \in Exposures : SaveExposure(k, e)
    \/ \E g \in Grades : SavePricing(k, g)

Begins(q) ==
  \/ \E k \in Risks : ReadForSubmit(q, k) \/ ReadForDecline(q, k) \/ ReadForBind(q, k)
  \/ \E x \in Recs : ReadForAccept(q, x)
  \/ RequestRefresh(q)

Continues(q) ==
  \/ Submit(q) \/ Decline(q)
  \/ Measure(q) \/ SkipCheck(q) \/ Bind(q)
  \/ \E override \in BOOLEAN : Weigh(q, override)
  \/ Refresh(q) \/ Install(q)
  \/ Accept(q) \/ Fail(q)

Next ==
  \/ Enter
  \/ \E x \in Recs : Recommend(x) \/ Reject(x)
  \/ \E q \in Requests : Begins(q) \/ Continues(q)

Spec == Init /\ [][Next]_vars

-----------------------------------------------------------------------------
(* Properties *)

TypeOK ==
  /\ risk \in [Risks -> Risk]
  /\ view \in [Risks -> Nat]
  /\ seq \in Nat
  /\ rec \in [Recs -> Answers]
  /\ req \in [Requests -> Request]
  /\ \A q \in Requests :
       /\ req[q].op \in {"submit", "decline", "measure", "weigh", "bind"} =>
            req[q].k \in Risks
       /\ req[q].op = "submit" => req[q].next \in Routes
       /\ req[q].op = "accept" => req[q].x \in Recs
  /\ drift \subseteq Risks
  /\ applied \subseteq Recs

\* A bind of k whose refresh is not in the view yet.
Pending(k) ==
  \E q \in Requests : req[q].k = k /\ req[q].op \in {"refresh", "install"}

\* "This risk is now part of the book, so the next risk's check has to see
\* it": what the view holds of a risk is what the book carries, except while
\* the bind of that risk is still refreshing, and for what the nightly job is
\* there for: a bound risk changed or taken off the book, a refresh lost.
BookIsSeen ==
  \A k \in Risks : view[k] = Carried(risk, k) \/ k \in drift \/ Pending(k)

Binds(q) == At(q, "bind") /\ At(q, "refresh")'

\* What request q has read, of the book (through the view) and of its risk, is
\* not what they are now.
Overtaken(q) ==
  LET k == req[q].k IN
  \/ req[q].snapshot # Book(risk) \/ req[q].own # Carried(risk, k)
  \/ req[q].adding # risk[k].exposure
  \/ req[q].grade # risk[k].grade

\* What the zone carries without risk k.
Standing(k) == TreatyLoad + Total(Book(risk), Risks) - Carried(risk, k)

\* No bind takes the zone over its budget, or writes more than the grade
\* allows, but one that an approver has overridden, one whose check could not
\* run, or one whose figures have been overtaken since they were read.
GateHolds ==
  [][\A q \in Requests :
       LET k == req[q].k IN
       Binds(q) /\ req[q].excuse = "none" =>
         \/ Overtaken(q)
         \/ /\ risk[k].grade \notin Capped
            /\ ~(risk[k].exposure > 0 /\ Standing(k) + risk[k].exposure > Budget)]_vars

\* A number is given to one risk, once, and never changes: binds race, a risk
\* is submitted and bound again, a bound risk is deleted.
BoundReferences ==
  [][\A k \in Risks :
       risk'[k].ref # risk[k].ref =>
         \/ risk'[k].status = "DELETED"
         \/ risk[k].ref = 0 /\ risk'[k].ref > seq]_vars

\* A recommendation that reads as turned down or still open has not been
\* written to the risk, and one that reads as accepted has, though accepts and
\* rejects of it and of its rivals race.
AnswersHold ==
  \A x \in Recs :
    /\ rec[x] \in {"NONE", "PENDING", "REJECTED", "SUPERSEDED"} => x \notin applied
    /\ rec[x] = "ACCEPTED" => x \in applied

\* ---- what a comment says and the code does not keep ----

\* "BOUND/RENEWED are on risk": a bound risk is not declined.
BoundIsNotDeclined ==
  [][\A k \in Risks :
       risk[k].status = "BOUND" => risk'[k].status # "DECLINED"]_vars

\* "Every later state is owned by a dedicated workflow route .. each with its
\* own legality + capacity checks": a bound or declined risk is not quoted again.
SubmitsFromOpenStates ==
  [][\A k \in Risks :
       risk[k].status \in {"BOUND", "DECLINED"} => risk'[k].status # "QUOTED"]_vars

\* "The check that measures against the book": binds that nobody overrode keep
\* the zone within its budget, if bound risks are neither edited nor unchecked.
WithinBudget ==
  [][\A q \in Requests :
       Binds(q) /\ req[q].excuse = "none" /\ drift = {} =>
         \/ risk[req[q].k].exposure = 0
         \/ TreatyLoad + Total(Book(risk)', Risks) <= Budget]_vars

\* "Accepting one effectively answers the others": a value is written once.
AppliedOnce ==
  [][\A q \in Requests :
       At(q, "accept") /\ applied' # applied => req[q].x \notin applied]_vars

=============================================================================
