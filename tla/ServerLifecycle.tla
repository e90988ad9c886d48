-------------------------- MODULE ServerLifecycle --------------------------
(***************************************************************************)
(* Server processes from their start to their exit.                        *)
(*                                                                         *)
(*   server/src/startup/bootstrap.js          migrate, then listen         *)
(*   server/src/startup/runMigrations.js      the advisory lock, one       *)
(*                                            transaction per file         *)
(*   server/src/startup/gracefulShutdown.js   drain, close, deadline       *)
(*   server/src/middleware/requestTimeout.js  the 503 of a slow request    *)
(*   server/src/db/pool.js                    closePools                   *)
(*                                                                         *)
(* Several processes start at once (RUN_MIGRATIONS_ON_BOOT). The lock is   *)
(* that of a session: it falls with its connection, which the process that *)
(* is migrating on other connections need not notice.                      *)
(***************************************************************************)
EXTENDS Integers

CONSTANTS
  Workers,     \* server processes
  LastFile,    \* migration files are 1 .. LastFile, in the order of their names
  Statements,  \* statements of each file
  MaxRequests, \* bound on the requests a process has at a time
  MaxRuns,     \* bound on the times a file is applied
  Nobody

ASSUME BoundAssumption ==
  /\ LastFile \in Nat /\ Statements \in Nat
  /\ MaxRequests \in Nat /\ MaxRuns \in Nat \ {0}
ASSUME NobodyAssumption == Nobody \notin Workers

VARIABLES
  worker,   \* where each process is, and what it holds in memory
  holder,   \* the process whose session holds the advisory lock
  marked,   \* the rows of _migrations
  runs,     \* how often the statements of each file were committed
  traffic,  \* sockets and requests of each process
  exit,     \* the exit code of its last end
  faulted   \* history: a lock connection was lost, or _migrations not readable

vars == <<worker, holder, marked, runs, traffic, exit, faulted>>

Files == 1 .. LastFile

Booting == {"wait", "read", "next", "run"}
Up      == {"serving", "draining", "closing", "ending", "failed"}

\* Shutting down: "closing" is before pool.end, "ending" waits for it, and
\* "failed" is the catch of an error of either.
Down    == Up \ {"serving"}

Off   == [pc |-> "down", applied |-> {}, file |-> 0, done |-> 0, armed |-> FALSE]
Quiet == [idle |-> 0, busy |-> 0, late |-> 0, held |-> 0]

At(w, pc)   == worker[w].pc = pc
Goto(w, pc) == worker' = [worker EXCEPT ![w].pc = pc]

Unlocked(w) == IF holder = w THEN Nobody ELSE holder

\* A process ends: its connections are gone, with lock and transactions.
End(w, code) ==
  /\ worker' = [worker EXCEPT ![w] = Off]
  /\ holder' = Unlocked(w)
  /\ traffic' = [traffic EXCEPT ![w] = Quiet]
  /\ exit' = [exit EXCEPT ![w] = code]
  /\ UNCHANGED <<marked, runs, faulted>>

-----------------------------------------------------------------------------
(* Start and migrations *)

Boot(w) ==
  /\ At(w, "down")
  /\ Goto(w, "wait")
  /\ UNCHANGED <<holder, marked, runs, traffic, exit, faulted>>

\* Mutant: the answer of a lock that does not wait is not looked at.
AcquireLightly(w) ==
  /\ At(w, "wait")
  /\ holder' = IF holder = Nobody THEN w ELSE holder
  /\ Goto(w, "read")
  /\ UNCHANGED <<marked, runs, traffic, exit, faulted>>

\* pg_advisory_lock.
AcquireLock(w) ==
  /\ At(w, "wait")
  /\ holder = Nobody
  /\ holder' = w
  /\ Goto(w, "read")
  /\ UNCHANGED <<marked, runs, traffic, exit, faulted>>

\* Mutant: a start that does not get the lock goes on to listen.
ServeAnyway(w) ==
  /\ At(w, "wait")
  /\ holder # Nobody
  /\ Goto(w, "serving")
  /\ UNCHANGED <<holder, marked, runs, traffic, exit, faulted>>

\* The pool's statement_timeout ends the wait, and the start with it.
LockTimeout(w) ==
  /\ At(w, "wait")
  /\ holder # Nobody
  /\ End(w, 1)

\* getAppliedMigrations,
ReadApplied(w) ==
  /\ At(w, "read")
  /\ worker' = [worker EXCEPT ![w] = [@ EXCEPT !.pc = "next", !.applied = marked]]
  /\ UNCHANGED <<holder, marked, runs, traffic, exit, faulted>>

\* which takes a failing query for an empty table.
ReadNothing(w) ==
  /\ At(w, "read")
  /\ worker' = [worker EXCEPT ![w].pc = "next"]
  /\ faulted' = TRUE
  /\ UNCHANGED <<holder, marked, runs, traffic, exit>>

\* The next file in the order of names that is not applied.
BeginFile(w, f) ==
  /\ At(w, "next")
  /\ f \notin worker[w].applied
  /\ \A g \in Files \ worker[w].applied : f <= g
  /\ runs[f] < MaxRuns
  /\ worker' = [worker EXCEPT ![w] = [@ EXCEPT !.pc = "run", !.file = f, !.done = 0]]
  /\ UNCHANGED <<holder, marked, runs, traffic, exit, faulted>>

\* One statement, applied or skipped under its savepoint.
RunStatement(w) ==
  /\ At(w, "run")
  /\ worker[w].done < Statements
  /\ worker' = [worker EXCEPT ![w].done = @ + 1]
  /\ UNCHANGED <<holder, marked, runs, traffic, exit, faulted>>

\* Statements and marker commit together.
CommitFile(w) ==
  LET f == worker[w].file IN
  /\ At(w, "run")
  /\ worker[w].done = Statements
  /\ runs[f] < MaxRuns
  /\ runs' = [runs EXCEPT ![f] = @ + 1]
  /\ marked' = marked \cup {f}
  /\ worker' = [worker EXCEPT ![w] =
                  [@ EXCEPT !.pc = "next", !.applied = worker[w].applied \cup {f}]]
  /\ UNCHANGED <<holder, traffic, exit, faulted>>

\* An error that is not skippable rolls the file back and ends the start.
FatalStatement(w) ==
  /\ At(w, "run")
  /\ End(w, 1)

\* Unlock (an error of it is only logged), seed, listen.
Listen(w) ==
  /\ At(w, "next")
  /\ Files \subseteq worker[w].applied
  /\ holder' = Unlocked(w)
  /\ worker' = [worker EXCEPT ![w] = [Off EXCEPT !.pc = "serving"]]
  /\ UNCHANGED <<marked, runs, traffic, exit, faulted>>

-----------------------------------------------------------------------------
(* Traffic *)

\* Handlers that are at work: busy ones have a client that waits, the others'
\* client has had its 503. Of these, late ones are between two statements on the
\* pool or queue for a connection, held ones have a connection checked out.
Requests(w) == traffic[w].busy + (traffic[w].late + traffic[w].held)

\* So many more, or fewer, of each.
Move(w, idle, busy, late, held) ==
  /\ traffic' = [traffic EXCEPT ![w] =
       [idle |-> @.idle + idle, busy |-> @.busy + busy,
        late |-> @.late + late, held |-> @.held + held]]
  /\ UNCHANGED <<worker, holder, marked, runs, exit, faulted>>

\* A client connects; a draining server no longer listens.
Connect(w) ==
  /\ At(w, "serving")
  /\ traffic[w].idle + Requests(w) < MaxRequests
  /\ Move(w, 1, 0, 0, 0)

\* A request on a connection that is kept alive, draining or not.
Request(w) ==
  /\ worker[w].pc \in {"serving", "draining"}
  /\ traffic[w].idle > 0
  /\ Move(w, -1, 1, 0, 0)

\* The handler has released its connection to the database and replied.
Reply(w) ==
  /\ traffic[w].busy > 0
  /\ Move(w, 1, -1, 0, 0)

\* requestTimeout: the client is answered, the handler goes on, with a
\* connection or without one.
TimeOut(w) ==
  /\ traffic[w].busy > 0
  /\ traffic[w].idle + Requests(w) < MaxRequests
  /\ \E held \in {0, 1} : Move(w, 1, -1, 1 - held, held)

\* A late handler's next statement or transaction, until pool.end refuses it,
TakeConnection(w) ==
  /\ worker[w].pc \in {"serving", "draining", "closing"}
  /\ traffic[w].late > 0
  /\ Move(w, 0, 0, -1, 1)

\* which it ends, with COMMIT or ROLLBACK if it is a transaction.
ReleaseConnection(w) ==
  /\ traffic[w].held > 0
  /\ Move(w, 0, 0, 1, -1)

\* A late handler returns, or throws because the pool has ended.
EndLate(w) ==
  /\ traffic[w].late > 0
  /\ Move(w, 0, 0, -1, 0)

\* The client hangs up, or the idle connection times out.
Disconnect(w) ==
  /\ traffic[w].idle > 0
  /\ Move(w, -1, 0, 0, 0)

-----------------------------------------------------------------------------
(* Shutdown *)

\* SIGTERM, SIGINT or an uncaught exception: the deadline is armed and the
\* server stops listening.
Shutdown(w) ==
  /\ At(w, "serving")
  /\ worker' = [worker EXCEPT ![w] = [@ EXCEPT !.pc = "draining", !.armed = TRUE]]
  /\ UNCHANGED <<holder, marked, runs, traffic, exit, faulted>>

\* A second signal.
ShutdownAgain(w) ==
  /\ worker[w].pc \in Down
  /\ End(w, 1)

\* After the grace period sockets without a request are destroyed.
DestroyIdle(w) ==
  /\ At(w, "draining")
  /\ traffic[w].idle > 0
  /\ Move(w, -traffic[w].idle, 0, 0, 0)

\* Mutant: the deadline is cleared before the pools are closed.
HttpClosedUnguarded(w) ==
  /\ At(w, "draining")
  /\ traffic[w].idle = 0 /\ traffic[w].busy = 0
  /\ worker' = [worker EXCEPT ![w] = [@ EXCEPT !.pc = "closing", !.armed = FALSE]]
  /\ UNCHANGED <<holder, marked, runs, traffic, exit, faulted>>

\* The callback of server.close, when the last connection is gone: the store of
\* the rate limits is closed first.
HttpClosed(w) ==
  /\ At(w, "draining")
  /\ traffic[w].idle = 0 /\ traffic[w].busy = 0
  /\ Goto(w, "closing")
  /\ UNCHANGED <<holder, marked, runs, traffic, exit, faulted>>

\* closePools: from now on pool.end refuses a connection to whoever asks for one.
EndPools(w) ==
  /\ At(w, "closing")
  /\ Goto(w, "ending")
  /\ UNCHANGED <<holder, marked, runs, traffic, exit, faulted>>

\* Mutant: the process exits without waiting for its pools.
ExitAtOnce(w) ==
  /\ At(w, "ending")
  /\ End(w, 0)

\* pool.end waits for the connections that are checked out, not for handlers
\* that have none at the moment.
PoolsClosed(w) ==
  /\ At(w, "ending")
  /\ traffic[w].held = 0
  /\ End(w, 0)

\* Either of the two throws: logged,
CloseFails(w) ==
  /\ worker[w].pc \in {"closing", "ending"}
  /\ Goto(w, "failed")
  /\ UNCHANGED <<holder, marked, runs, traffic, exit, faulted>>

\* and the exit code is 0 all the same.
ExitAfterFailure(w) ==
  /\ At(w, "failed")
  /\ End(w, 0)

Deadline(w) ==
  /\ worker[w].armed
  /\ End(w, 1)

-----------------------------------------------------------------------------
(* Faults *)

Crash(w) ==
  /\ ~At(w, "down")
  /\ End(w, 1)

LoseLockConnection(w) ==
  /\ holder = w
  /\ holder' = Nobody
  /\ faulted' = TRUE
  /\ UNCHANGED <<worker, marked, runs, traffic, exit>>

-----------------------------------------------------------------------------
\* A new file may sort before files that are applied.
Init ==
  /\ worker = [w \in Workers |-> Off]
  /\ holder = Nobody
  /\ marked \in SUBSET Files
  /\ runs = [f \in Files |-> IF f \in marked THEN 1 ELSE 0]
  /\ traffic = [w \in Workers |-> Quiet]
  /\ exit = [w \in Workers |-> 0]
  /\ faulted = FALSE

Migrating(w) ==
  \/ AcquireLock(w)
  \/ LockTimeout(w)
  \/ ReadApplied(w)
  \/ ReadNothing(w)
  \/ \E f \in Files : BeginFile(w, f)
  \/ RunStatement(w)
  \/ CommitFile(w)
  \/ FatalStatement(w)
  \/ Listen(w)

Serving(w) ==
  \/ Connect(w) \/ Request(w) \/ Reply(w) \/ Disconnect(w)
  \/ TimeOut(w) \/ TakeConnection(w) \/ ReleaseConnection(w) \/ EndLate(w)

Stopping(w) ==
  \/ Shutdown(w)
  \/ ShutdownAgain(w)
  \/ DestroyIdle(w)
  \/ HttpClosed(w)
  \/ EndPools(w)
  \/ PoolsClosed(w)
  \/ CloseFails(w)
  \/ ExitAfterFailure(w)
  \/ Deadline(w)

Next ==
  \E w \in Workers :
    \/ Boot(w) \/ Migrating(w) \/ Serving(w) \/ Stopping(w)
    \/ Crash(w) \/ LoseLockConnection(w)

\* Timers fire. Handlers, clients and the database owe nothing.
Fairness == \A w \in Workers : WF_vars(Deadline(w))

Spec == Init /\ [][Next]_vars /\ Fairness
-----------------------------------------------------------------------------
(* Properties *)

TypeOK ==
  /\ worker \in [Workers ->
       [pc : {"down"} \cup Booting \cup Up, applied : SUBSET Files,
        file : Files \cup {0}, done : 0 .. Statements, armed : BOOLEAN]]
  /\ holder \in Workers \cup {Nobody}
  /\ marked \subseteq Files
  /\ runs \in [Files -> 0 .. MaxRuns]
  /\ traffic \in [Workers -> [idle : 0 .. MaxRequests, busy : 0 .. MaxRequests,
                              late : 0 .. MaxRequests, held : 0 .. MaxRequests]]
  /\ exit \in [Workers -> 0 .. 1]
  /\ faulted \in BOOLEAN

\* "A half-applied migration never gets recorded", nor is any applied twice,
\* through crashes, lock timeouts and concurrent starts, as long as no lock
\* connection is lost and _migrations can be read.
AppliedOnce ==
  ~faulted => \A f \in Files : runs[f] = IF f \in marked THEN 1 ELSE 0

\* A file is applied when all that sort before it are, even after a fault.
InOrder ==
  [][\A f \in marked' \ marked : 1 .. f - 1 \subseteq marked]_vars

\* A process takes requests only on a fully migrated schema, whichever process
\* migrated it and whatever happened to the lock.
ServesMigrated ==
  \A w \in Workers : worker[w].pc \in Up => Files \subseteq marked

\* Exit code 0 says that every request the process ever accepted has had its
\* answer, and that no transaction was cut off, not even one of a handler whose
\* client has had its 503, unless the closing of the pools had failed.
CleanExit ==
  [][\A w \in Workers :
       /\ worker[w].pc \in Down /\ worker'[w].pc = "down" /\ exit'[w] = 0
       => /\ traffic[w].busy = 0
          /\ traffic[w].held = 0 \/ At(w, "failed")]_vars

\* "Deploys never hang": a shutdown ends, though a handler may hang, clients
\* keep their connections busy, and the pools never close.
ShutdownEnds ==
  \A w \in Workers : worker[w].pc \in Down ~> At(w, "down")

\* ---- what a comment says and the code does not keep ----

\* "Drain HTTP cleanly ... so deploys don't kill in-flight saves": a process that
\* exits with 0 has let every handler finish.
SavesSurvive ==
  [][\A w \in Workers :
       worker[w].pc \in Down /\ worker'[w].pc = "down" /\ exit'[w] = 0
       => Requests(w) = 0]_vars

\* "Skip migrations already applied - this prevents DROP TABLE from re-running."
NeverRerun == \A f \in Files : runs[f] <= 1
=============================================================================
