---------------------------- MODULE RateRevision ----------------------------
(***************************************************************************)
(* How facultative rate tables are revised: draft, stage, submit, approve, *)
(* publish.                                                                *)
(*                                                                         *)
(*   server/src/services/facReferenceAdminService.js                       *)
(*   server/src/db/migrations/139_fac_reference_governance.sql             *)
(*                                                                         *)
(* Every operation loads the version on the pool, checks it, and then      *)
(* writes by version_id alone. What is left when two of them overlap are   *)
(* the constraints of the schema: the CHECK fac_rate_version_four_eyes and *)
(* the unique index uq_fac_rate_table_version_in_force.                    *)
(***************************************************************************)
EXTENDS Naturals

CONSTANTS
  Users,
  Versions,  \* rate table versions that may come to exist
  Seed,      \* the version in force when migration 139 has run
  Rows,      \* rows that may be staged
  Requests,  \* concurrent requests
  NoUser, NoVersion

ASSUME SeedAssumption == Seed \in Versions
ASSUME NullAssumption == NoUser \notin Users /\ NoVersion \notin Versions

VARIABLES
  version,   \* fac_rate_table_version
  stage,     \* fac_rate_stage: the rows staged for each version
  applied,   \* the rows of each version that were written to the live tables
  task,      \* what each request has loaded
  reviewed,  \* history: the rows staged when the version was last submitted
  overlap    \* history: two requests have been in flight together

vars == <<version, stage, applied, task, reviewed, overlap>>

Statuses == {"ABSENT", "DRAFT", "PENDING_APPROVAL", "APPROVED", "SUPERSEDED"}
Ops == {"idle", "stage", "submit", "approve", "reject", "read", "publish",
        "commit"}
UserOrNull == Users \cup {NoUser}

Version ==
  [status : Statuses, submitter : UserOrNull, approver : UserOrNull,
   published : BOOLEAN, ended : BOOLEAN]

Fresh(status) ==
  [status |-> status, submitter |-> NoUser, approver |-> NoUser,
   published |-> FALSE, ended |-> FALSE]

Idle == [op |-> "idle", v |-> NoVersion, by |-> NoUser, rows |-> {}, found |-> {}]

\* published_at IS NOT NULL AND effective_to IS NULL.
Current(vs) == {v \in Versions : vs[v].published /\ ~vs[v].ended}
InForce == Current(version)

\* CHECK fac_rate_version_four_eyes.
FourEyesCheck(row) ==
  row.approver = NoUser \/ row.submitter = NoUser \/ row.approver # row.submitter

\* UNIQUE INDEX uq_fac_rate_table_version_in_force.
InForceIndex(vs) == \A v, w \in Current(vs) : v = w

\* One request loads version v as user u and goes on to `op`.
Load(r, op, v, u) ==
  /\ task[r] = Idle
  /\ task' = [task EXCEPT ![r] = [Idle EXCEPT !.op = op, !.v = v, !.by = u]]
  /\ overlap' = (overlap \/ \E s \in Requests \ {r} : task[s] # Idle)
  /\ UNCHANGED <<version, stage, applied, reviewed>>

Finish(r) == task' = [task EXCEPT ![r] = Idle]

\* UPDATE .. WHERE version_id = $1, by the request that loaded it.
Write(r, row) ==
  /\ FourEyesCheck(row)
  /\ version' = [version EXCEPT ![task[r].v] = row]
  /\ Finish(r)

-----------------------------------------------------------------------------
(* Drafting *)

\* createDraftVersion.
Create(v) ==
  /\ version[v].status = "ABSENT"
  /\ version' = [version EXCEPT ![v] = Fresh("DRAFT")]
  /\ UNCHANGED <<stage, applied, task, reviewed, overlap>>

\* Mutant: rows may be added until the revision is approved.
StageUntilApproved(r, v, u) ==
  /\ version[v].status \in {"DRAFT", "PENDING_APPROVAL"}
  /\ Load(r, "stage", v, u)

\* stageRows: "only a DRAFT can take new rows".
BeginStage(r, v, u) ==
  /\ version[v].status = "DRAFT"
  /\ Load(r, "stage", v, u)

InsertRow(r, row) ==
  /\ task[r].op = "stage"
  /\ row \notin stage[task[r].v]
  /\ stage' = [stage EXCEPT ![task[r].v] = @ \cup {row}]
  /\ Finish(r)
  /\ UNCHANGED <<version, applied, reviewed, overlap>>

\* submitForApproval. Rows are never unstaged, so the count that follows the
\* status check may as well be read with it.
BeginSubmit(r, v, u) ==
  /\ version[v].status = "DRAFT"
  /\ stage[v] # {}
  /\ Load(r, "submit", v, u)

Submit(r) ==
  LET v == task[r].v IN
  /\ task[r].op = "submit"
  /\ Write(r, [version[v] EXCEPT !.status = "PENDING_APPROVAL",
                                 !.submitter = task[r].by])
  /\ reviewed' = [reviewed EXCEPT ![v] = stage[v]]
  /\ UNCHANGED <<stage, applied, overlap>>

-----------------------------------------------------------------------------
(* Reviewing *)

\* approveVersion.
BeginApprove(r, v, u) ==
  /\ version[v].status = "PENDING_APPROVAL"
  /\ version[v].submitter # u
  /\ Load(r, "approve", v, u)

Approve(r) ==
  /\ task[r].op = "approve"
  /\ Write(r, [version[task[r].v] EXCEPT !.status = "APPROVED",
                                         !.approver = task[r].by])
  /\ UNCHANGED <<stage, applied, reviewed, overlap>>

\* Mutant: a rejection uses the REJECTED state that the schema allows.
RejectForGood(r) ==
  /\ task[r].op = "reject"
  /\ Write(r, [version[task[r].v] EXCEPT !.status = "REJECTED"])
  /\ UNCHANGED <<stage, applied, reviewed, overlap>>

\* rejectVersion, open to the submitter as well.
BeginReject(r, v, u) ==
  /\ version[v].status = "PENDING_APPROVAL"
  /\ Load(r, "reject", v, u)

Reject(r) ==
  /\ task[r].op = "reject"
  /\ Write(r, [version[task[r].v] EXCEPT !.status = "DRAFT",
                                         !.submitter = NoUser])
  /\ UNCHANGED <<stage, applied, reviewed, overlap>>

-----------------------------------------------------------------------------
(* Publishing *)

\* publishVersion: status and published_at are checked on the pool,
BeginPublish(r, v, u) ==
  /\ version[v].status = "APPROVED"
  /\ ~version[v].published
  /\ Load(r, "read", v, u)

\* the staged rows are read on the pool,
ReadStaged(r) ==
  /\ task[r].op = "read"
  /\ task' = [task EXCEPT ![r] = [@ EXCEPT !.op = "publish",
                                           !.rows = stage[task[r].v]]]
  /\ UNCHANGED <<version, stage, applied, reviewed, overlap>>

\* the UPDATE that supersedes finds the published, open-ended versions of its
\* own snapshot,
FindSuperseded(r) ==
  /\ task[r].op = "publish"
  /\ task' = [task EXCEPT ![r] = [@ EXCEPT !.op = "commit",
                                           !.found = InForce \ {task[r].v}]]
  /\ UNCHANGED <<version, stage, applied, reviewed, overlap>>

\* and with their row locks granted leaves out those that are ended by now.
\* published_at is written last, where the unique index may refuse.
Publish(r) ==
  LET v == task[r].v
      closing == task[r].found \cap InForce
      after == [w \in Versions |->
        IF w = v THEN [version[w] EXCEPT !.published = TRUE]
        ELSE IF w \in closing
             THEN [version[w] EXCEPT !.status = "SUPERSEDED", !.ended = TRUE]
             ELSE version[w]]
  IN
  /\ task[r].op = "commit"
  /\ InForceIndex(after)
  /\ version' = after
  /\ applied' = [applied EXCEPT ![v] = @ \cup task[r].rows]
  /\ Finish(r)
  /\ UNCHANGED <<stage, reviewed, overlap>>

\* Refused by a constraint, a deadlock victim, or dead: nothing is written.
Fail(r) ==
  /\ task[r] # Idle
  /\ Finish(r)
  /\ UNCHANGED <<version, stage, applied, reviewed, overlap>>

-----------------------------------------------------------------------------
\* The seeded version predates the approval lifecycle: nobody approved it.
Init ==
  /\ version = [v \in Versions |->
       IF v = Seed THEN [Fresh("APPROVED") EXCEPT !.published = TRUE]
       ELSE Fresh("ABSENT")]
  /\ stage = [v \in Versions |-> {}]
  /\ applied = [v \in Versions |-> {}]
  /\ task = [r \in Requests |-> Idle]
  /\ reviewed = [v \in Versions |-> {}]
  /\ overlap = FALSE

Drafting(r, v, u) == BeginStage(r, v, u) \/ BeginSubmit(r, v, u)
Deciding(r, v, u) == BeginApprove(r, v, u) \/ BeginReject(r, v, u)

Writing(r) ==
  \/ \E row \in Rows : InsertRow(r, row)
  \/ Submit(r)
  \/ Approve(r)
  \/ Reject(r)
  \/ ReadStaged(r)
  \/ FindSuperseded(r)
  \/ Publish(r)
  \/ Fail(r)

Next ==
  \/ \E v \in Versions : Create(v)
  \/ \E r \in Requests, v \in Versions, u \in Users :
       Drafting(r, v, u) \/ Deciding(r, v, u) \/ BeginPublish(r, v, u)
  \/ \E r \in Requests : Writing(r)

Spec == Init /\ [][Next]_vars
-----------------------------------------------------------------------------
(* Properties *)

Task ==
  [op : Ops, v : Versions \cup {NoVersion}, by : UserOrNull,
   rows : SUBSET Rows, found : SUBSET Versions]

TypeOK ==
  /\ version \in [Versions -> Version]
  /\ stage \in [Versions -> SUBSET Rows]
  /\ applied \in [Versions -> SUBSET Rows]
  /\ task \in [Requests -> Task]
  /\ \A r \in Requests : task[r].op # "idle" =>
       task[r].v \in Versions /\ task[r].by \in Users
  /\ reviewed \in [Versions -> SUBSET Rows]
  /\ overlap \in BOOLEAN

\* "Only one revision is in force at a time", though two publications read
\* the version they supersede before either of them commits.
OneInForce == \A v, w \in InForce : v = w

\* "The approver must not be the submitter", though the submitter may change
\* between the check and the write of an approval.
NotSelfApproved ==
  \A v \in Versions : version[v].approver # NoUser =>
    version[v].approver # version[v].submitter

\* As long as no two requests have overlapped: what is in the live tables is
\* what was submitted and approved by a second person; what was published
\* stays as it was; there is exactly one version in force.
AttributedRates ==
  ~overlap =>
    /\ \E v \in Versions : InForce = {v}
    /\ \A v \in Versions : version[v].published =>
         /\ version[v].status = IF version[v].ended THEN "SUPERSEDED" ELSE "APPROVED"
         /\ v # Seed => /\ applied[v] = reviewed[v]
                        /\ version[v].approver \in Users \ {version[v].submitter}

\* Once published, a version is out of reach of every later operation except
\* being superseded, as long as no two requests have overlapped.
PublishedIsFinal ==
  [][\A v \in Versions : version[v].published /\ ~overlap' =>
       /\ applied'[v] = applied[v]
       /\ \/ version'[v] = version[v]
          \/ /\ ~version[v].ended
             /\ version'[v] = [version[v] EXCEPT !.status = "SUPERSEDED",
                                                !.ended = TRUE]]_vars

\* ---- what a comment says and the code does not keep ----

\* "so a historic quote still resolves to the rates that priced it instead of
\* to a gap": some version is always in force.
NoGap == InForce # {}
=============================================================================
