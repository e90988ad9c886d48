------------------------ MODULE ServerLifecycleProofs ------------------------
(***************************************************************************)
(* What holds of starting and stopping server processes for any number of  *)
(* processes, migration files, statements and connections.                 *)
(***************************************************************************)
EXTENDS ServerLifecycle, TLAPS

Worker ==
  [pc : {"down"} \cup Booting \cup Up, applied : SUBSET Files,
   file : Files \cup {0}, done : 0 .. Statements, armed : BOOLEAN]
Load == [idle : 0 .. MaxRequests, busy : 0 .. MaxRequests,
         late : 0 .. MaxRequests, held : 0 .. MaxRequests]

(* The inductive invariant, one process at a time *)

\* A process applies the first file it does not know to be applied, and knows
\* of no file that is not marked.
Informed(w) ==
  /\ worker[w].applied \subseteq marked
  /\ At(w, "run") =>
       /\ worker[w].file \in Files \ worker[w].applied
       /\ \A g \in Files \ worker[w].applied : worker[w].file <= g

\* While no fault has occurred, the process that migrates holds the lock, and
\* has seen every mark.
Exclusive(w) ==
  ~faulted =>
    /\ worker[w].pc \in {"read", "next", "run"} => holder = w
    /\ worker[w].pc \in {"next", "run"} => worker[w].applied = marked

\* The states after the last connection of a client is gone.
Drained == {"closing", "ending", "failed"}

\* A process that serves is migrated; one that closes its pools has answered
\* everybody; the sockets and handlers are as many as the bound allows.
Settled(w) ==
  /\ worker[w].pc \in Up => Files \subseteq marked
  /\ worker[w].pc \in Drained => traffic[w].busy = 0
  /\ traffic[w].idle + Requests(w) <= MaxRequests

Local(w) == Informed(w) /\ Exclusive(w) /\ Settled(w)

IInv == TypeOK /\ AppliedOnce /\ \A w \in Workers : Local(w)
-----------------------------------------------------------------------------
(* Types *)

LEMMA RecordTypes ==
  ASSUME TypeOK, NEW w \in Workers
  PROVE  worker[w] \in Worker /\ traffic[w] \in Load
BY DEF TypeOK, Worker, Load

LEMMA RestTypes ==
  /\ Off \in Worker /\ Off.pc = "down" /\ Off.applied = {}
  /\ Quiet \in Load /\ Quiet.busy = 0 /\ Quiet.late = 0 /\ Quiet.idle = 0
  /\ Quiet.held = 0
<1>1. FALSE \in BOOLEAN
  BY Zenon
<1> QED BY <1>1, BoundAssumption DEF Off, Quiet, Worker, Load

LEMMA GotoType ==
  ASSUME TypeOK, NEW w \in Workers, NEW pc \in Booting \cup Up, Goto(w, pc)
  PROVE  /\ worker' \in [Workers -> Worker]
         /\ worker'[w] = [worker[w] EXCEPT !.pc = pc]
BY DEF TypeOK, Worker, Goto

\* A process keeps its part of the invariant while others work, as long as they
\* add marks only when it does not hold the lock.
LEMMA OthersKeep ==
  ASSUME NEW u \in Workers, Local(u),
         worker'[u] = worker[u], traffic'[u] = traffic[u], marked \subseteq marked',
         ~faulted' =>
           /\ ~faulted
           /\ holder = u => holder' = u /\ marked' = marked
           /\ marked' = marked \/ holder # u
  PROVE  Local(u)'
<1>1. Informed(u)' /\ Settled(u)'
  BY DEF Local, Informed, Settled, At, Requests
<1>2. Exclusive(u)'
  BY DEF Local, Exclusive
<1> QED BY <1>1, <1>2 DEF Local
-----------------------------------------------------------------------------
(* The end of a process, whatever ends it *)

LEMMA EndKeeps ==
  ASSUME IInv, NEW w \in Workers, NEW code \in 0 .. 1, End(w, code)
  PROVE  IInv'
<1> USE DEF IInv
<1>1. TypeOK'
  BY RestTypes, NobodyAssumption DEF End, Unlocked, TypeOK, Worker, Load
<1>2. AppliedOnce'
  BY DEF End, AppliedOnce
<1>3. ASSUME NEW u \in Workers \ {w}
      PROVE  Local(u)'
  BY OthersKeep DEF End, Unlocked, TypeOK
<1>4. worker'[w] = Off /\ traffic'[w] = Quiet
  BY DEF End, TypeOK
<1>5. Local(w)'
  BY <1>4, RestTypes, BoundAssumption
     DEF Local, Informed, Exclusive, Settled, At, Up, Drained, Requests
<1> QED BY <1>1, <1>2, <1>3, <1>5
-----------------------------------------------------------------------------
(* Migrating *)

\* Starting, and taking the lock that nobody holds.
LEMMA LockingKeeps ==
  ASSUME IInv, NEW w \in Workers, NEW pc,
         \/ pc = "wait" /\ Boot(w)
         \/ pc = "read" /\ AcquireLock(w)
  PROVE  IInv'
<1> USE DEF IInv
<1>1. Goto(w, pc) /\ pc \in {"wait", "read"}
  BY DEF Boot, AcquireLock
<1>2. /\ worker' \in [Workers -> Worker]
      /\ worker'[w] = [worker[w] EXCEPT !.pc = pc]
  BY <1>1, GotoType DEF Booting
<1>3. TypeOK' /\ AppliedOnce'
  BY <1>2 DEF Boot, AcquireLock, TypeOK, AppliedOnce, Worker
<1>4. ASSUME NEW u \in Workers \ {w}
      PROVE  Local(u)'
  <2>1. worker'[u] = worker[u]
    BY DEF Boot, AcquireLock, Goto, TypeOK
  <2> QED BY <2>1, NobodyAssumption, OthersKeep DEF Boot, AcquireLock
<1>5. Local(w)'
  <2>1. /\ worker'[w].pc = pc /\ worker'[w].applied = worker[w].applied
        /\ pc = "read" => holder' = w
    BY <1>1, <1>2, RecordTypes DEF Worker, Boot, AcquireLock, At
  <2> QED BY <1>1, <2>1 DEF Boot, AcquireLock, Local, Informed, Exclusive, Settled,
                            At, Up, Drained, Requests
<1> QED BY <1>3, <1>4, <1>5

LEMMA ReadingKeeps ==
  ASSUME IInv, NEW w \in Workers, ReadApplied(w) \/ ReadNothing(w)
  PROVE  IInv'
<1> USE DEF IInv
<1>1. worker[w] \in Worker
  BY RecordTypes
<1>2. PICK a \in SUBSET Files :
        /\ worker'[w] = [worker[w] EXCEPT !.pc = "next", !.applied = a]
        /\ \A u \in Workers \ {w} : worker'[u] = worker[u]
        /\ worker' \in [Workers -> Worker]
        /\ a \subseteq marked
        /\ ReadApplied(w) => a = marked
  <2>1. CASE ReadApplied(w)
    <3>1. worker' = [worker EXCEPT ![w] = [worker[w] EXCEPT !.pc = "next", !.applied = marked]]
      BY <2>1 DEF ReadApplied
    <3>2. [worker[w] EXCEPT !.pc = "next", !.applied = marked] \in Worker
      BY <1>1 DEF Worker, Booting, TypeOK
    <3> QED BY <3>1, <3>2 DEF TypeOK, Worker
  <2>2. CASE ReadNothing(w) /\ ~ReadApplied(w)
    <3>1. worker' = [worker EXCEPT ![w] = [worker[w] EXCEPT !.pc = "next"]]
      BY <2>2 DEF ReadNothing
    <3>2. [worker[w] EXCEPT !.pc = "next"] \in Worker
      BY <1>1 DEF Worker, Booting
    <3>3. worker[w].applied \subseteq marked /\ worker[w].applied \in SUBSET Files
      BY <1>1 DEF Local, Informed, Worker
    <3> QED BY <1>1, <2>2, <3>1, <3>2, <3>3 DEF TypeOK, Worker
  <2> QED BY <2>1, <2>2
<1>3. faulted' \in BOOLEAN
  BY Zenon DEF ReadApplied, ReadNothing, TypeOK
<1>4. TypeOK'
  BY <1>2, <1>3 DEF ReadApplied, ReadNothing, TypeOK, Worker
<1>5. ~faulted' => ~faulted /\ ReadApplied(w)
  BY Zenon DEF ReadApplied, ReadNothing
<1>6. AppliedOnce'
  BY <1>5 DEF ReadApplied, ReadNothing, AppliedOnce
<1>7. ASSUME NEW u \in Workers \ {w}
      PROVE  Local(u)'
  BY <1>2, <1>5, OthersKeep DEF ReadApplied, ReadNothing
<1>8. Local(w)'
  <2>1. worker'[w].pc = "next" /\ worker'[w].applied = a
    BY <1>1, <1>2 DEF Worker
  <2>2. Informed(w)' /\ Settled(w)'
    BY <1>2, <2>1 DEF ReadApplied, ReadNothing, Local, Informed, Settled, At, Up, Drained, Requests
  <2>3. Exclusive(w)'
    BY <1>2, <1>5, <2>1 DEF ReadApplied, Local, Exclusive, At
  <2> QED BY <2>2, <2>3 DEF Local
<1> QED BY <1>4, <1>6, <1>7, <1>8

LEMMA FileKeeps ==
  ASSUME IInv, NEW w \in Workers,
         RunStatement(w) \/ \E f \in Files : BeginFile(w, f)
  PROVE  IInv'
<1> USE DEF IInv
<1>1. worker[w] \in Worker /\ worker[w].pc \in {"next", "run"}
  BY RecordTypes DEF RunStatement, BeginFile, At
<1>2. /\ worker' \in [Workers -> Worker]
      /\ worker'[w].pc = "run" /\ worker'[w].applied = worker[w].applied
      /\ worker'[w].file \in Files \ worker[w].applied
      /\ \A g \in Files \ worker[w].applied : worker'[w].file <= g
  <2>1. CASE RunStatement(w)
    <3>1. worker' = [worker EXCEPT ![w] = [worker[w] EXCEPT !.done = worker[w].done + 1]]
      BY <2>1 DEF RunStatement, TypeOK
    <3>2. worker[w].done + 1 \in 0 .. Statements
      BY <1>1, <2>1, BoundAssumption DEF RunStatement, Worker
    <3>3. [worker[w] EXCEPT !.done = worker[w].done + 1] \in Worker
      BY <1>1, <3>2 DEF Worker
    <3>4. worker' \in [Workers -> Worker]
      BY <3>1, <3>3 DEF TypeOK, Worker
    <3>5. worker'[w] = [worker[w] EXCEPT !.done = worker[w].done + 1]
      BY <3>1 DEF TypeOK
    <3> QED BY <1>1, <2>1, <3>4, <3>5 DEF RunStatement, Worker, Local, Informed, At
  <2>2. ASSUME NEW f \in Files, BeginFile(w, f)
        PROVE  /\ worker' \in [Workers -> Worker]
               /\ worker'[w].pc = "run" /\ worker'[w].applied = worker[w].applied
               /\ worker'[w].file = f
    <3>0. 0 \in 0 .. Statements /\ f \in Files \cup {0}
      BY BoundAssumption
    <3>1. [worker[w] EXCEPT !.pc = "run", !.file = f, !.done = 0] \in Worker
      BY <1>1, <3>0 DEF Worker, Booting
    <3>2. worker' = [worker EXCEPT ![w] = [worker[w] EXCEPT !.pc = "run", !.file = f, !.done = 0]]
      BY <2>2 DEF BeginFile
    <3>3. worker' \in [Workers -> Worker]
      BY <3>1, <3>2 DEF TypeOK, Worker
    <3> QED BY <1>1, <3>2, <3>3 DEF TypeOK, Worker
  <2> QED BY <2>1, <2>2 DEF BeginFile
<1>3. /\ UNCHANGED <<holder, marked, runs, traffic, exit, faulted>>
      /\ \A u \in Workers \ {w} : worker'[u] = worker[u]
  BY DEF RunStatement, BeginFile, TypeOK
<1>4. TypeOK' /\ AppliedOnce'
  BY <1>2, <1>3 DEF TypeOK, AppliedOnce, Worker
<1>5. ASSUME NEW u \in Workers \ {w}
      PROVE  Local(u)'
  BY <1>3, OthersKeep
<1>6. Local(w)'
  <2>1. Informed(w)'
    BY <1>2, <1>3 DEF Local, Informed, At
  <2>2. Exclusive(w)'
    BY <1>1, <1>2, <1>3 DEF Local, Exclusive
  <2>3. Settled(w)'
    BY <1>2, <1>3 DEF Local, Settled, At, Up, Drained, Requests
  <2> QED BY <2>1, <2>2, <2>3 DEF Local
<1> QED BY <1>4, <1>5, <1>6

\* The file that is marked was not marked before, unless a fault has occurred.
LEMMA CommitKeeps ==
  ASSUME IInv, NEW w \in Workers, CommitFile(w)
  PROVE  IInv'
<1> USE DEF IInv
<1>1. worker[w] \in Worker /\ At(w, "run")
  BY RecordTypes DEF CommitFile
<1>2. PICK f \in Files : f = worker[w].file /\ f \notin worker[w].applied
  BY <1>1 DEF Local, Informed
<1>3. /\ runs' = [runs EXCEPT ![f] = @ + 1] /\ runs[f] < MaxRuns
      /\ marked' = marked \cup {f}
      /\ worker' = [worker EXCEPT ![w] =
           [worker[w] EXCEPT !.pc = "next", !.applied = worker[w].applied \cup {f}]]
  BY <1>2 DEF CommitFile
<1>4. [worker[w] EXCEPT !.pc = "next", !.applied = worker[w].applied \cup {f}] \in Worker
  BY <1>1 DEF Worker, Booting
<1>5. TypeOK'
  <2>1. worker' \in [Workers -> Worker]
    BY <1>3, <1>4 DEF TypeOK, Worker
  <2>2. runs[f] \in 0 .. MaxRuns
    BY DEF TypeOK
  <2>3. runs[f] + 1 \in 0 .. MaxRuns
    BY <1>3, <2>2, BoundAssumption
  <2>4. runs' \in [Files -> 0 .. MaxRuns]
    BY <1>3, <2>3 DEF TypeOK
  <2> QED BY <1>3, <2>1, <2>4 DEF CommitFile, TypeOK, Worker
<1>6. AppliedOnce'
  <2> SUFFICES ASSUME ~faulted, NEW g \in Files
               PROVE  runs'[g] = IF g \in marked' THEN 1 ELSE 0
    BY DEF AppliedOnce, CommitFile
  <2>1. f \notin marked
    BY <1>1, <1>2 DEF Local, Exclusive, At
  <2>2. runs[f] = 0
    BY <2>1 DEF AppliedOnce
  <2>3. runs'[g] = IF g = f THEN 1 ELSE runs[g]
    BY <1>3, <2>2 DEF TypeOK
  <2> QED BY <1>3, <2>3 DEF AppliedOnce
<1>7. ASSUME NEW u \in Workers \ {w}
      PROVE  Local(u)'
  <2>1. worker'[u] = worker[u] /\ marked \subseteq marked'
    BY <1>3 DEF TypeOK
  <2>2. ~faulted => holder = w
    BY <1>1 DEF Local, Exclusive, At
  <2> QED BY <2>1, <2>2, OthersKeep DEF CommitFile
<1>8. Local(w)'
  <2>1. worker'[w].pc = "next" /\ worker'[w].applied = worker[w].applied \cup {f}
    BY <1>1, <1>3 DEF TypeOK, Worker
  <2> QED BY <1>1, <1>3, <2>1 DEF CommitFile, Local, Informed, Exclusive, Settled,
                                  At, Up, Drained, Requests
<1> QED BY <1>5, <1>6, <1>7, <1>8

LEMMA ListenKeeps ==
  ASSUME IInv, NEW w \in Workers, Listen(w)
  PROVE  IInv'
<1> USE DEF IInv
<1>1. worker' = [worker EXCEPT ![w] = [Off EXCEPT !.pc = "serving"]]
  BY DEF Listen
<1>2. [Off EXCEPT !.pc = "serving"] \in Worker
  BY RestTypes DEF Worker, Up
<1>3. TypeOK'
  <2>1. worker' \in [Workers -> Worker]
    BY <1>1, <1>2 DEF TypeOK, Worker
  <2> QED BY <2>1 DEF Listen, Unlocked, TypeOK, Worker
<1>4. AppliedOnce'
  BY DEF Listen, AppliedOnce
<1>5. ASSUME NEW u \in Workers \ {w}
      PROVE  Local(u)'
  <2>1. worker'[u] = worker[u]
    BY <1>1 DEF TypeOK
  <2> QED BY <2>1, OthersKeep DEF Listen, Unlocked
<1>6. Local(w)'
  <2>1. worker'[w].pc = "serving" /\ worker'[w].applied = {}
    BY <1>1, RestTypes DEF TypeOK, Worker
  <2>2. Files \subseteq marked
    BY DEF Listen, Local, Informed
  <2> QED BY <2>1, <2>2 DEF Listen, Local, Informed, Exclusive, Settled, At, Up, Drained, Requests
<1> QED BY <1>3, <1>4, <1>5, <1>6
-----------------------------------------------------------------------------
(* Serving and stopping *)

\* The numbers of a process that is at pc, within the bound also together.
Bounded(n, pc) ==
  /\ n \in Load
  /\ n.idle + (n.busy + (n.late + n.held)) <= MaxRequests
  /\ pc \in Drained => n.busy = 0

LEMMA Counts ==
  ASSUME IInv, NEW w \in Workers
  PROVE  Bounded(traffic[w], worker[w].pc)
BY RecordTypes DEF IInv, Local, Settled, Requests, Bounded

\* So many more, or fewer, of each are still within the bounds.
Fits(w, i, b, l, h) ==
  /\ i \in Int /\ b \in Int /\ l \in Int /\ h \in Int
  /\ traffic[w].idle + i >= 0 /\ traffic[w].busy + b >= 0
  /\ traffic[w].late + l >= 0 /\ traffic[w].held + h >= 0
  /\ traffic[w].idle + Requests(w) + (i + (b + (l + h))) <= MaxRequests
  /\ worker[w].pc \in Drained => b = 0

\* A step that moves only sockets and handlers of one process.
LEMMA MoveKeeps ==
  ASSUME IInv, NEW w \in Workers, NEW i, NEW b, NEW l, NEW h,
         Fits(w, i, b, l, h), Move(w, i, b, l, h)
  PROVE  IInv'
<1> USE DEF IInv
<1>1. PICK n : n = [idle |-> traffic[w].idle + i, busy |-> traffic[w].busy + b,
                    late |-> traffic[w].late + l, held |-> traffic[w].held + h]
  OBVIOUS
<1>2. /\ traffic' = [traffic EXCEPT ![w] = n]
      /\ UNCHANGED <<worker, holder, marked, runs, exit, faulted>>
  BY <1>1 DEF Move
<1>3. Bounded(traffic[w], worker[w].pc)
  BY Counts
<1>4. Bounded(n, worker[w].pc)
  <2>1. /\ n.idle = traffic[w].idle + i /\ n.busy = traffic[w].busy + b
        /\ n.late = traffic[w].late + l /\ n.held = traffic[w].held + h
    BY <1>1
  <2>2. /\ n.idle \in Nat /\ n.busy \in Nat /\ n.late \in Nat /\ n.held \in Nat
        /\ n.idle + (n.busy + (n.late + n.held)) <= MaxRequests
    BY <1>3, <2>1, BoundAssumption DEF Bounded, Load, Requests, Fits
  <2>3. /\ n.idle \in 0 .. MaxRequests /\ n.busy \in 0 .. MaxRequests
        /\ n.late \in 0 .. MaxRequests /\ n.held \in 0 .. MaxRequests
    BY <2>2, BoundAssumption
  <2>4. n \in Load
    BY <1>1, <2>1, <2>3 DEF Load
  <2>5. worker[w].pc \in Drained => n.busy = 0
    BY <1>3, <2>1 DEF Bounded, Load, Fits
  <2> QED BY <2>2, <2>4, <2>5 DEF Bounded
<1>5. TypeOK' /\ AppliedOnce'
  BY <1>2, <1>4 DEF TypeOK, AppliedOnce, Bounded, Load
<1>6. ASSUME NEW u \in Workers \ {w}
      PROVE  Local(u)'
  <2>1. traffic'[u] = traffic[u]
    BY <1>2 DEF TypeOK
  <2> QED BY <1>2, <2>1, OthersKeep
<1>7. Local(w)'
  <2>1. traffic'[w] = n
    BY <1>2 DEF TypeOK
  <2> QED BY <1>2, <1>4, <2>1 DEF Local, Informed, Exclusive, Settled, At, Requests, Bounded
<1> QED BY <1>5, <1>6, <1>7

LEMMA ServingKeeps ==
  ASSUME IInv, NEW w \in Workers, Serving(w) \/ DestroyIdle(w)
  PROVE  IInv'
<1>1. /\ traffic[w].idle \in Nat /\ traffic[w].busy \in Nat
      /\ traffic[w].late \in Nat /\ traffic[w].held \in Nat
      /\ traffic[w].idle + Requests(w) <= MaxRequests
      /\ Requests(w) \in Nat /\ MaxRequests \in Nat
      /\ worker[w].pc \in Drained => traffic[w].busy = 0
  BY Counts, BoundAssumption DEF Bounded, Load, Requests
<1>2. CASE Connect(w)
  <2>1. Fits(w, 1, 0, 0, 0) /\ Move(w, 1, 0, 0, 0)
    BY <1>1, <1>2 DEF Connect, Fits
  <2> QED BY <2>1, MoveKeeps
<1>3. CASE Request(w)
  <2>1. Fits(w, -1, 1, 0, 0) /\ Move(w, -1, 1, 0, 0)
    BY <1>1, <1>3 DEF Request, Fits, Drained
  <2> QED BY <2>1, MoveKeeps
<1>4. CASE Reply(w)
  <2>1. Fits(w, 1, -1, 0, 0) /\ Move(w, 1, -1, 0, 0)
    BY <1>1, <1>4 DEF Reply, Fits
  <2> QED BY <2>1, MoveKeeps
<1>5. CASE TimeOut(w)
  <2>1. PICK held \in {0, 1} : Move(w, 1, -1, 1 - held, held)
    BY <1>5 DEF TimeOut
  <2>2. traffic[w].busy > 0 /\ traffic[w].idle + Requests(w) < MaxRequests
    BY <1>5 DEF TimeOut
  <2>3. Fits(w, 1, -1, 1 - held, held)
    BY <1>1, <2>2 DEF Fits
  <2> QED BY <2>1, <2>3, MoveKeeps
<1>6. CASE TakeConnection(w)
  <2>1. Fits(w, 0, 0, -1, 1) /\ Move(w, 0, 0, -1, 1)
    BY <1>1, <1>6 DEF TakeConnection, Fits
  <2> QED BY <2>1, MoveKeeps
<1>7. CASE ReleaseConnection(w)
  <2>1. Fits(w, 0, 0, 1, -1) /\ Move(w, 0, 0, 1, -1)
    BY <1>1, <1>7 DEF ReleaseConnection, Fits
  <2> QED BY <2>1, MoveKeeps
<1>8. CASE EndLate(w)
  <2>1. Fits(w, 0, 0, -1, 0) /\ Move(w, 0, 0, -1, 0)
    BY <1>1, <1>8 DEF EndLate, Fits
  <2> QED BY <2>1, MoveKeeps
<1>9. CASE Disconnect(w)
  <2>1. Fits(w, -1, 0, 0, 0) /\ Move(w, -1, 0, 0, 0)
    BY <1>1, <1>9 DEF Disconnect, Fits
  <2> QED BY <2>1, MoveKeeps
<1>10. CASE DestroyIdle(w)
  <2>1. Fits(w, -traffic[w].idle, 0, 0, 0) /\ Move(w, -traffic[w].idle, 0, 0, 0)
    BY <1>1, <1>10 DEF DestroyIdle, Fits
  <2> QED BY <2>1, MoveKeeps
<1> QED BY <1>2, <1>3, <1>4, <1>5, <1>6, <1>7, <1>8, <1>9, <1>10 DEF Serving

LEMMA ShuttingKeeps ==
  ASSUME IInv, NEW w \in Workers,
         \/ Shutdown(w) \/ HttpClosed(w) \/ EndPools(w) \/ CloseFails(w)
  PROVE  IInv'
<1> USE DEF IInv
<1>0. worker[w] \in Worker /\ worker[w].pc \in Up
  BY RecordTypes DEF Shutdown, HttpClosed, EndPools, CloseFails, At, Up
<1>1. PICK now \in Worker :
        /\ worker' = [worker EXCEPT ![w] = now]
        /\ now.pc \in Up /\ (now.pc \in Drained => traffic[w].busy = 0)
        /\ now.applied = worker[w].applied
  <2>1. CASE Shutdown(w)
    <3>1. TRUE \in BOOLEAN
      BY Zenon
    <3>2. [worker[w] EXCEPT !.pc = "draining", !.armed = TRUE] \in Worker
      BY <1>0, <3>1 DEF Worker, Up
    <3> QED BY <1>0, <2>1, <3>2 DEF Shutdown, Worker, Up, Drained
  <2>2. ASSUME NEW pc \in Drained, Goto(w, pc), traffic[w].busy = 0
        PROVE  /\ [worker[w] EXCEPT !.pc = pc] \in Worker
               /\ worker' = [worker EXCEPT ![w] = [worker[w] EXCEPT !.pc = pc]]
               /\ [worker[w] EXCEPT !.pc = pc].pc \in Up
               /\ [worker[w] EXCEPT !.pc = pc].applied = worker[w].applied
    BY <1>0, <2>2 DEF Goto, Worker, Up, Drained
  <2>3. CASE HttpClosed(w) \/ EndPools(w) \/ CloseFails(w)
    <3>1. PICK pc \in Drained : Goto(w, pc)
      BY <2>3 DEF HttpClosed, EndPools, CloseFails, Drained
    <3>2. traffic[w].busy = 0
      BY <2>3, Counts DEF HttpClosed, EndPools, CloseFails, At, Drained, Bounded
    <3> QED BY <2>2, <3>1, <3>2
  <2> QED BY <2>1, <2>3
<1>2. UNCHANGED <<holder, marked, runs, traffic, exit, faulted>>
  BY DEF Shutdown, HttpClosed, EndPools, CloseFails
<1>3. TypeOK' /\ AppliedOnce'
  BY <1>1, <1>2 DEF TypeOK, AppliedOnce, Worker
<1>4. ASSUME NEW u \in Workers \ {w}
      PROVE  Local(u)'
  <2>1. worker'[u] = worker[u]
    BY <1>1 DEF TypeOK
  <2> QED BY <1>2, <2>1, OthersKeep
<1>5. worker'[w] = now
  BY <1>1 DEF TypeOK
<1>6. Local(w)'
  <2>1. Informed(w)' /\ Exclusive(w)'
    BY <1>1, <1>2, <1>5 DEF Local, Informed, Exclusive, At, Up
  <2>2. Settled(w)'
    BY <1>0, <1>1, <1>2, <1>5 DEF Local, Settled, At, Requests
  <2> QED BY <2>1, <2>2 DEF Local
<1> QED BY <1>3, <1>4, <1>6

LEMMA LosingKeeps ==
  ASSUME IInv, NEW w \in Workers, LoseLockConnection(w)
  PROVE  IInv'
<1>1. faulted' /\ faulted' \in BOOLEAN
  BY Zenon DEF LoseLockConnection
<1>2. TypeOK' /\ AppliedOnce'
  BY <1>1 DEF IInv, LoseLockConnection, TypeOK, AppliedOnce
<1>3. \A u \in Workers : Informed(u)' /\ Settled(u)' /\ Exclusive(u)'
  BY <1>1 DEF IInv, LoseLockConnection, Local, Informed, Settled, Exclusive, At, Requests
<1> QED BY <1>2, <1>3 DEF IInv, Local
-----------------------------------------------------------------------------
(* Every step keeps the invariant *)

LEMMA ProcessKeeps ==
  ASSUME IInv, NEW w \in Workers,
         \/ Boot(w) \/ Migrating(w) \/ Serving(w) \/ Stopping(w)
         \/ Crash(w) \/ LoseLockConnection(w)
  PROVE  IInv'
<1>1. CASE Boot(w)
  BY <1>1, LockingKeeps
<1>2. CASE Migrating(w)
  <2>1. LockTimeout(w) \/ FatalStatement(w) => End(w, 1)
    BY DEF LockTimeout, FatalStatement
  <2> QED BY <1>2, <2>1, EndKeeps, LockingKeeps, ReadingKeeps, FileKeeps, CommitKeeps,
             ListenKeeps
          DEF Migrating
<1>3. CASE Serving(w)
  BY <1>3, ServingKeeps
<1>4. CASE Stopping(w)
  <2>1. /\ ShutdownAgain(w) \/ Deadline(w) => End(w, 1)
        /\ PoolsClosed(w) \/ ExitAfterFailure(w) => End(w, 0)
    BY DEF ShutdownAgain, Deadline, PoolsClosed, ExitAfterFailure
  <2> QED BY <1>4, <2>1, EndKeeps, ServingKeeps, ShuttingKeeps DEF Stopping
<1>5. CASE Crash(w)
  BY <1>5, EndKeeps DEF Crash
<1>6. CASE LoseLockConnection(w)
  BY <1>6, LosingKeeps
<1> QED BY <1>1, <1>2, <1>3, <1>4, <1>5, <1>6

LEMMA StepKeeps == IInv /\ [Next]_vars => IInv'
<1> SUFFICES ASSUME IInv, [Next]_vars
             PROVE  IInv'
  OBVIOUS
<1>1. CASE Next
  BY <1>1, ProcessKeeps DEF Next
<1>2. CASE UNCHANGED vars
  <2>1. TypeOK' /\ AppliedOnce'
    BY <1>2 DEF vars, IInv, TypeOK, AppliedOnce
  <2>2. \A w \in Workers : Local(w)'
    BY <1>2 DEF vars, IInv, Local, Informed, Exclusive, Settled, At, Requests
  <2> QED BY <2>1, <2>2 DEF IInv
<1> QED BY <1>1, <1>2

LEMMA Initially == Init => IInv
<1> SUFFICES ASSUME Init
             PROVE  IInv
  OBVIOUS
<1>1. faulted \in BOOLEAN
  BY Zenon DEF Init
<1>2. /\ worker \in [Workers -> Worker] /\ traffic \in [Workers -> Load]
      /\ exit \in [Workers -> 0 .. 1]
  BY RestTypes DEF Init
<1>3. runs \in [Files -> 0 .. MaxRuns]
  BY BoundAssumption DEF Init
<1>4. TypeOK
  BY <1>1, <1>2, <1>3 DEF Init, TypeOK, Worker, Load
<1>5. AppliedOnce
  BY DEF Init, AppliedOnce
<1>6. ASSUME NEW w \in Workers
      PROVE  Local(w)
  <2>1. worker[w] = Off /\ traffic[w] = Quiet
    BY DEF Init
  <2> QED BY <2>1, RestTypes, BoundAssumption
          DEF Local, Informed, Exclusive, Settled, At, Up, Drained, Requests
<1> QED BY <1>4, <1>5, <1>6 DEF IInv

LEMMA Inductive == Spec => []IInv
BY Initially, StepKeeps, PTL DEF Spec
-----------------------------------------------------------------------------
(* The theorems *)

\* Every state is well typed; sockets and handlers stay within their bound.
THEOREM TypeCorrect == Spec => []TypeOK
<1>1. IInv => TypeOK
  BY DEF IInv
<1> QED BY Inductive, <1>1, PTL

\* No file is applied twice and no marker is written without its file, for any
\* number of processes that start, crash and time out together, until a lock
\* connection is lost or _migrations cannot be read.
THEOREM MigratesOnce == Spec => []AppliedOnce
<1>1. IInv => AppliedOnce
  BY DEF IInv
<1> QED BY Inductive, <1>1, PTL

\* No process takes a request on a schema that is not fully migrated, even
\* after faults.
THEOREM MigratedWhenServing == Spec => []ServesMigrated
<1>1. IInv => ServesMigrated
  BY DEF IInv, Local, Settled, ServesMigrated
<1> QED BY Inductive, <1>1, PTL

\* Files are marked in the order of their names, even after faults.
THEOREM FilesInOrder == Spec => InOrder
<1>1. ASSUME IInv, [Next]_vars, NEW f \in marked' \ marked
      PROVE  1 .. f - 1 \subseteq marked
  <2>1. PICK w \in Workers : CommitFile(w)
    BY <1>1 DEF Next, vars, Boot, Migrating, AcquireLock, LockTimeout, ReadApplied,
                ReadNothing, BeginFile, RunStatement, FatalStatement, Listen, Serving,
                Connect, Request, Reply, TimeOut, TakeConnection, ReleaseConnection,
                EndLate, Disconnect, Move, Stopping, Shutdown, ShutdownAgain, DestroyIdle,
                HttpClosed, EndPools, PoolsClosed, CloseFails, ExitAfterFailure,
                Deadline, Crash, LoseLockConnection, End
  <2>2. f = worker[w].file /\ At(w, "run")
    BY <1>1, <2>1 DEF CommitFile
  <2>3. /\ f \in Files /\ worker[w].applied \subseteq marked
        /\ \A g \in Files \ worker[w].applied : f <= g
    BY <1>1, <2>2 DEF IInv, Local, Informed
  <2>4. ASSUME NEW g \in 1 .. f - 1
        PROVE  g \in marked
    <3>1. g \in Files /\ ~(f <= g)
      BY <2>3, BoundAssumption DEF Files
    <3> QED BY <2>3, <3>1
  <2> QED BY <2>4
<1>2. IInv /\ [Next]_vars => [\A f \in marked' \ marked : 1 .. f - 1 \subseteq marked]_vars
  BY <1>1
<1> QED BY Inductive, <1>2, PTL DEF Spec, InOrder

\* A step of one process leaves the others where they are.
LEMMA OneMoves ==
  ASSUME TypeOK, NEW u \in Workers, NEW w \in Workers \ {u},
         \/ Boot(u) \/ Migrating(u) \/ Serving(u) \/ Stopping(u)
         \/ Crash(u) \/ LoseLockConnection(u)
  PROVE  worker'[w] = worker[w]
<1>1. CASE Boot(u) \/ Crash(u) \/ LoseLockConnection(u)
  BY <1>1 DEF Boot, Crash, LoseLockConnection, Goto, End, TypeOK
<1>2. CASE Migrating(u)
  BY <1>2 DEF Migrating, AcquireLock, LockTimeout, ReadApplied, ReadNothing, BeginFile,
              RunStatement, CommitFile, FatalStatement, Listen, Goto, End, TypeOK
<1>3. CASE Serving(u)
  BY <1>3 DEF Serving, Connect, Request, Reply, TimeOut, TakeConnection,
              ReleaseConnection, EndLate, Disconnect, Move
<1>4. CASE Stopping(u)
  BY <1>4 DEF Stopping, Shutdown, ShutdownAgain, DestroyIdle, HttpClosed, EndPools,
              PoolsClosed, CloseFails, ExitAfterFailure, Deadline, Goto, End, Move, TypeOK
<1> QED BY <1>1, <1>2, <1>3, <1>4

\* A process that is shutting down goes down when its pools are closed, after
\* their closing has failed, or with exit code 1.
LEMMA StaysUp ==
  ASSUME TypeOK, NEW w \in Workers, worker[w].pc \in Down, worker'[w].pc = "down",
         \/ Boot(w) \/ Migrating(w) \/ Serving(w) \/ Stopping(w)
         \/ Crash(w) \/ LoseLockConnection(w)
  PROVE  PoolsClosed(w) \/ ExitAfterFailure(w) \/ End(w, 1)
<1> USE DEF Down, Up
<1>1. worker[w] \in Worker
  BY RecordTypes
<1>2. CASE Boot(w) \/ Crash(w) \/ LoseLockConnection(w)
  BY <1>2 DEF Boot, Crash, LoseLockConnection, At
<1>3. ~Migrating(w)
  BY DEF Migrating, AcquireLock, LockTimeout, ReadApplied, ReadNothing, BeginFile,
         RunStatement, CommitFile, FatalStatement, Listen, At
<1>4. CASE Serving(w)
  BY <1>4 DEF Serving, Connect, Request, Reply, TimeOut, TakeConnection,
              ReleaseConnection, EndLate, Disconnect, Move
<1>5. CASE Stopping(w)
  BY <1>1, <1>5 DEF Stopping, Shutdown, ShutdownAgain, DestroyIdle, Move, HttpClosed,
                    EndPools, CloseFails, Deadline, Goto, At, TypeOK
<1> QED BY <1>2, <1>3, <1>4, <1>5

\* A process that exits with 0 has answered every request it accepted, and has
\* waited for every connection to the database that a handler holds, also one
\* whose client was answered by the timeout, unless closing its pools failed.
THEOREM CleanExits == Spec => CleanExit
<1>1. ASSUME IInv, [Next]_vars, NEW w \in Workers,
             worker[w].pc \in Down, worker'[w].pc = "down", exit'[w] = 0
      PROVE  traffic[w].busy = 0 /\ (traffic[w].held = 0 \/ At(w, "failed"))
  <2>1. worker'[w] # worker[w] /\ worker[w] \in Worker
    BY <1>1, RecordTypes DEF IInv, Down, Up
  <2>2. PICK u \in Workers :
          \/ Boot(u) \/ Migrating(u) \/ Serving(u) \/ Stopping(u)
          \/ Crash(u) \/ LoseLockConnection(u)
    BY <1>1, <2>1 DEF Next, vars
  <2>3. u = w
    BY <1>1, <2>1, <2>2, OneMoves DEF IInv
  <2>4. PoolsClosed(w) \/ ExitAfterFailure(w)
    <3>1. ~End(w, 1)
      BY <1>1 DEF End, IInv, TypeOK
    <3>2. worker'[w].pc = "down"
      BY <1>1
    <3> QED BY <1>1, <2>2, <2>3, <3>1, <3>2, StaysUp DEF IInv
  <2> QED BY <1>1, <2>4, Counts DEF PoolsClosed, ExitAfterFailure, At, Bounded, Drained
<1>2. IInv /\ [Next]_vars =>
        [\A w \in Workers :
           /\ worker[w].pc \in Down /\ worker'[w].pc = "down" /\ exit'[w] = 0
           => /\ traffic[w].busy = 0
              /\ traffic[w].held = 0 \/ At(w, "failed")]_vars
  BY <1>1
<1> QED BY Inductive, <1>2, PTL DEF Spec, CleanExit
=============================================================================
