---------------------------- MODULE TreatyEditing ----------------------------
(***************************************************************************)
(* Screens that load and save one treaty under the optimistic lock.        *)
(*                                                                         *)
(*   server/src/db/optimisticLock.js            assertEntityUnchanged      *)
(*   server/src/lib/parentEntityPersistence.js  touchParentEntity          *)
(*   server/src/routes/treaties.js              GET and PUT /treaties/:id  *)
(*   server/src/modules/pricing/repositories/   the saves of the pricing   *)
(*   server/src/services/assignments.js         who writes updated_at too  *)
(*                                                                         *)
(* A save that sends If-Unmodified-Since locks the contract row, compares  *)
(* updated_at with what the screen last saw, writes, and sets updated_at   *)
(* to now(), which is the time of its BEGIN. Without the header, or with   *)
(* `*`, the row is locked by the last statement only. Time is in           *)
(* milliseconds, the unit of the comparison.                               *)
(***************************************************************************)
EXTENDS Naturals

CONSTANTS
  Screens,   \* open browser screens, each with one request at a time
  Sections,  \* what a screen shows and saves as a whole: terms, pricing
  MaxClock,  \* bound on the time
  Nobody

ASSUME ClockAssumption == MaxClock \in Nat
ASSUME ScreenAssumption == Nobody \notin Screens /\ Sections # {}

VARIABLES
  updatedAt,  \* contract.updated_at
  screen,     \* the section each screen shows, whether no save has replaced
              \* what it shows, and the updated_at it was given
  req,        \* the request of each screen
  lock,       \* the transaction that holds the contract row
  clock,
  behind      \* history: some commit did not move updated_at forward

vars == <<updatedAt, screen, req, lock, clock, behind>>

Rest == [pc |-> "rest", begun |-> 0]

At(t, pc) == req[t].pc = pc

\* A transaction that began at `begun` sets updated_at when it commits.
Touch(begun) ==
  /\ updatedAt' = begun
  /\ behind' = (behind \/ begun <= updatedAt)

-----------------------------------------------------------------------------
(* Loading *)

\* GET: the contract row is read first,
BeginLoad(t, s) ==
  /\ req[t].pc \in {"rest", "load"}
  /\ screen' = [screen EXCEPT ![t] = [section |-> s, latest |-> FALSE, stamp |-> updatedAt]]
  /\ req' = [req EXCEPT ![t].pc = "load"]
  /\ UNCHANGED <<updatedAt, lock, clock, behind>>

\* then, in statements of their own, the tables of the section.
FinishLoad(t) ==
  /\ At(t, "load")
  /\ screen' = [screen EXCEPT ![t].latest = TRUE]
  /\ req' = [req EXCEPT ![t] = Rest]
  /\ UNCHANGED <<updatedAt, lock, clock, behind>>

-----------------------------------------------------------------------------
(* Saving *)

\* BEGIN of a save, guarded or not. The answer that gave the screen its
\* updated_at is at least a millisecond old.
BeginSave(t, pc) ==
  /\ At(t, "rest")
  /\ screen[t].stamp < clock
  /\ req' = [req EXCEPT ![t] = [pc |-> pc, begun |-> clock]]
  /\ UNCHANGED <<updatedAt, screen, lock, clock, behind>>

\* Mutant: the grace of half a second that earlier versions had.
CheckWithGrace(t) ==
  /\ At(t, "check")
  /\ lock = Nobody
  /\ updatedAt <= screen[t].stamp + 1
  /\ lock' = t
  /\ req' = [req EXCEPT ![t].pc = "write"]
  /\ UNCHANGED <<updatedAt, screen, clock, behind>>

\* Mutant: the row is locked and its updated_at not looked at.
CheckExists(t) ==
  /\ At(t, "check")
  /\ lock = Nobody
  /\ lock' = t
  /\ req' = [req EXCEPT ![t].pc = "write"]
  /\ UNCHANGED <<updatedAt, screen, clock, behind>>

\* assertEntityUnchanged: a row that has moved on is a 409 (Fail).
Check(t) ==
  /\ At(t, "check")
  /\ lock = Nobody
  /\ updatedAt <= screen[t].stamp
  /\ lock' = t
  /\ req' = [req EXCEPT ![t].pc = "write"]
  /\ UNCHANGED <<updatedAt, screen, clock, behind>>

\* The section is replaced, under every screen that shows it. This screen takes
\* over the updated_at of the answer, if it gets one.
Save(t, answered) ==
  LET s == screen[t].section IN
  /\ Touch(req[t].begun)
  /\ screen' = [u \in Screens |->
       IF u = t /\ answered
       THEN [section |-> s, latest |-> TRUE, stamp |-> req[t].begun]
       ELSE [screen[u] EXCEPT !.latest = @ /\ screen[u].section # s]]
  /\ req' = [req EXCEPT ![t] = Rest]
  /\ UNCHANGED clock

SaveGuarded(t, answered) ==
  /\ At(t, "write")
  /\ Save(t, answered)
  /\ lock' = Nobody

\* No header, an unreadable one, or `*`: the touch waits for the row.
SaveUnguarded(t, answered) ==
  /\ At(t, "plain")
  /\ lock = Nobody
  /\ Save(t, answered)
  /\ UNCHANGED lock

\* Allocate, reassign and claim: one UPDATE by id sets updated_at as well.
BeginAssign(t) ==
  /\ At(t, "rest")
  /\ req' = [req EXCEPT ![t] = [pc |-> "assign", begun |-> clock]]
  /\ UNCHANGED <<updatedAt, screen, lock, clock, behind>>

Assign(t) ==
  /\ At(t, "assign")
  /\ lock = Nobody
  /\ Touch(req[t].begun)
  /\ req' = [req EXCEPT ![t] = Rest]
  /\ UNCHANGED <<screen, lock, clock>>

\* Refused, an error, or a lost connection: a screen that was loading shows
\* nothing, and saves nothing before it is loaded anew (BeginLoad).
Fail(t) ==
  /\ req[t].pc \notin {"rest", "load"}
  /\ req' = [req EXCEPT ![t] = Rest]
  /\ lock' = IF lock = t THEN Nobody ELSE lock
  /\ UNCHANGED <<updatedAt, screen, clock, behind>>

-----------------------------------------------------------------------------
Tick ==
  /\ clock < MaxClock
  /\ clock' = clock + 1
  /\ UNCHANGED <<updatedAt, screen, req, lock, behind>>

Init ==
  /\ updatedAt = 0 /\ clock = 0
  /\ screen \in [Screens -> [section : Sections, latest : {TRUE}, stamp : {0}]]
  /\ req = [t \in Screens |-> Rest]
  /\ lock = Nobody
  /\ behind = FALSE

Loading(t) == (\E s \in Sections : BeginLoad(t, s)) \/ FinishLoad(t)

Saving(t) ==
  \/ BeginSave(t, "check") \/ BeginSave(t, "plain")
  \/ Check(t)
  \/ \E answered \in BOOLEAN : SaveGuarded(t, answered) \/ SaveUnguarded(t, answered)

Next ==
  \/ \E t \in Screens :
       Loading(t) \/ Saving(t) \/ BeginAssign(t) \/ Assign(t) \/ Fail(t)
  \/ Tick

Spec == Init /\ [][Next]_vars
-----------------------------------------------------------------------------
(* Properties *)

TypeOK ==
  /\ updatedAt \in Nat /\ clock \in Nat
  /\ screen \in [Screens -> [section : Sections, latest : BOOLEAN, stamp : Nat]]
  /\ req \in [Screens -> [pc : {"rest", "load", "check", "write", "plain", "assign"},
                          begun : Nat]]
  /\ lock \in Screens \cup {Nobody}
  /\ \A t \in Screens : lock = t <=> At(t, "write")
  /\ behind \in BOOLEAN

\* "Only commits if the stored timestamp is the same or older": a save that has
\* passed the check replaces what its screen shows and nothing newer, as long as
\* every commit so far has moved updated_at forward. Loads, other
\* sections' saves, saves without the header and lost answers may come between.
NoLostUpdate ==
  \A t \in Screens :
    At(t, "write") /\ ~behind => screen[t].latest

\* A save under the lock moves updated_at forward, though now() is the time of
\* its BEGIN and others may have begun later and committed before: only a
\* write without the header, or an assignment, leaves updated_at behind.
GuardedAdvances ==
  [][\A t \in Screens : lock = t /\ updatedAt' # updatedAt => updatedAt' > updatedAt]_vars

\* ---- what a comment says and the code does not keep ----

\* "Closing the read/check/write race": the same for every client that sends
\* the header, whatever others send.
GuardedSavesSeeAll ==
  \A t \in Screens : At(t, "write") => screen[t].latest
=============================================================================
