------------------------- MODULE TreatyEditingProofs -------------------------
(***************************************************************************)
(* What holds of the optimistic lock for every set of screens and          *)
(* sections: a save that has passed the comparison replaces nothing newer  *)
(* than what its screen shows, and moves updated_at forward.               *)
(***************************************************************************)
EXTENDS TreatyEditing, TLAPS

(* The inductive invariant *)

\* What the comparison established still holds when the save writes, because
\* the row is locked in between.
Passed == \A t \in Screens : At(t, "write") => updatedAt <= screen[t].stamp

\* A save began after its screen was given its updated_at.
Younger ==
  \A t \in Screens :
    req[t].pc \in {"check", "write", "plain"} => screen[t].stamp < req[t].begun

\* As long as updated_at only moved forward, no screen is ahead of the row, and
\* one that is level with it shows what is stored.
Reached ==
  ~behind =>
    \A t \in Screens :
      /\ screen[t].stamp <= updatedAt
      /\ screen[t].stamp = updatedAt /\ ~At(t, "load") => screen[t].latest

IInv == TypeOK /\ Passed /\ Younger /\ Reached

\* What a screen holds.
Screen == [section : Sections, latest : BOOLEAN, stamp : Nat]

\* The times that are compared are numbers.
LEMMA Times ==
  ASSUME TypeOK, NEW t \in Screens
  PROVE  updatedAt \in Nat /\ screen[t].stamp \in Nat /\ req[t].begun \in Nat
BY DEF TypeOK

\* A commit that leaves no mark behind moved updated_at forward.
LEMMA Forward ==
  ASSUME NEW begun, Touch(begun), ~behind'
  PROVE  ~behind /\ ~(begun <= updatedAt) /\ updatedAt' = begun
BY Zenon DEF Touch
-----------------------------------------------------------------------------
(* Loading *)

\* A load gives the screen the row's updated_at and leaves saves alone.
LEMMA LoadingKeeps ==
  ASSUME IInv, NEW t \in Screens, Loading(t)
  PROVE  IInv'
<1> USE DEF IInv, At
<1>1. CASE \E s \in Sections : BeginLoad(t, s)
  <2>1. PICK s \in Sections : BeginLoad(t, s)
    BY <1>1
  <2>2. [section |-> s, latest |-> FALSE, stamp |-> updatedAt] \in Screen
    BY DEF TypeOK, Screen
  <2>3. TypeOK'
    BY <2>1, <2>2 DEF BeginLoad, TypeOK, Screen
  <2>4. Passed' /\ Younger'
    BY <2>1 DEF BeginLoad, TypeOK, Passed, Younger
  <2>5. Reached'
    BY <2>1 DEF BeginLoad, TypeOK, Reached
  <2> QED BY <2>3, <2>4, <2>5
<1>2. CASE FinishLoad(t)
  <2>1. TypeOK'
    BY <1>2 DEF FinishLoad, TypeOK, Rest
  <2>2. Passed' /\ Younger'
    BY <1>2 DEF FinishLoad, TypeOK, Passed, Younger, Rest
  <2>3. Reached'
    BY <1>2 DEF FinishLoad, TypeOK, Reached, Rest
  <2> QED BY <2>1, <2>2, <2>3
<1> QED BY <1>1, <1>2 DEF Loading
-----------------------------------------------------------------------------
(* Saving *)

\* BEGIN of a save: the clock is past the screen's updated_at.
LEMMA BeginSaveKeeps ==
  ASSUME IInv, NEW t \in Screens, NEW pc \in {"check", "plain"}, BeginSave(t, pc)
  PROVE  IInv'
<1> USE DEF IInv, At, BeginSave
<1>1. TypeOK'
  BY DEF TypeOK
<1>2. Passed' /\ Younger'
  BY DEF TypeOK, Passed, Younger
<1>3. Reached'
  BY DEF TypeOK, Reached
<1> QED BY <1>1, <1>2, <1>3

\* The comparison takes the lock that nobody holds.
LEMMA CheckKeeps ==
  ASSUME IInv, NEW t \in Screens, Check(t)
  PROVE  IInv'
<1> USE DEF IInv, At, Check
<1>1. TypeOK'
  BY ScreenAssumption DEF TypeOK
<1>2. Passed' /\ Younger'
  BY DEF TypeOK, Passed, Younger
<1>3. Reached'
  BY DEF TypeOK, Reached
<1> QED BY <1>1, <1>2, <1>3

\* A commit of a save, with the row locked by itself or by nobody.
LEMMA SaveKeeps ==
  ASSUME IInv, NEW t \in Screens, NEW answered \in BOOLEAN,
         Save(t, answered), lock' = Nobody,
         req[t].pc \in {"write", "plain"},
         \A u \in Screens : At(u, "write") => u = t
  PROVE  IInv'
<1> USE DEF IInv, At, Save, Rest
<1>0. updatedAt' = req[t].begun /\ behind' \in BOOLEAN
  BY DEF Touch
<1>1. screen' \in [Screens -> Screen]
  BY DEF TypeOK, Screen
<1>2. TypeOK'
  BY <1>0, <1>1, ScreenAssumption DEF TypeOK, Screen
<1>3. \A u \in Screens \ {t} :
        screen'[u].stamp = screen[u].stamp /\ req'[u] = req[u]
  BY DEF TypeOK
<1>4. Passed' /\ Younger'
  BY <1>0, <1>3 DEF TypeOK, Passed, Younger
<1>5. ASSUME ~behind', NEW u \in Screens
      PROVE  /\ screen'[u].stamp <= updatedAt'
             /\ screen'[u].stamp = updatedAt' => screen'[u].latest
  <2>0. ~behind /\ ~(req[t].begun <= updatedAt) /\ updatedAt' = req[t].begun
    BY <1>5, Forward
  <2>1. screen[u].stamp <= updatedAt
    BY <2>0 DEF Reached
  <2>2. screen[u].stamp < updatedAt' /\ updatedAt' \in Nat
    BY <2>0, <2>1, Times
  <2>3. CASE u = t /\ answered
    <3>1. screen'[u] = [section |-> screen[t].section, latest |-> TRUE, stamp |-> req[t].begun]
      BY <2>3
    <3> QED BY <3>1, <2>0, <2>2
  <2>4. CASE ~(u = t /\ answered)
    <3>1. screen'[u].stamp = screen[u].stamp
      BY <2>4 DEF TypeOK
    <3> QED BY <3>1, <2>2, Times
  <2> QED BY <2>3, <2>4
<1>6. Reached'
  BY <1>5 DEF Reached
<1> QED BY <1>2, <1>4, <1>6

LEMMA SavingKeeps ==
  ASSUME IInv, NEW t \in Screens, Saving(t)
  PROVE  IInv'
<1>1. CASE BeginSave(t, "check") \/ BeginSave(t, "plain")
  BY <1>1, BeginSaveKeeps
<1>2. CASE Check(t)
  BY <1>2, CheckKeeps
<1>3. ASSUME NEW answered \in BOOLEAN, SaveGuarded(t, answered)
      PROVE  IInv'
  <2>1. lock = t /\ \A u \in Screens : At(u, "write") => u = t
    BY <1>3 DEF IInv, TypeOK, SaveGuarded
  <2> QED BY <1>3, <2>1, SaveKeeps DEF SaveGuarded, At
<1>4. ASSUME NEW answered \in BOOLEAN, SaveUnguarded(t, answered)
      PROVE  IInv'
  <2>1. \A u \in Screens : ~At(u, "write")
    BY <1>4, ScreenAssumption DEF IInv, TypeOK, SaveUnguarded
  <2> QED BY <1>4, <2>1, SaveKeeps DEF SaveUnguarded, At
<1> QED BY <1>1, <1>2, <1>3, <1>4 DEF Saving
-----------------------------------------------------------------------------
(* Assignments, failures and the clock *)

LEMMA AssigningKeeps ==
  ASSUME IInv, NEW t \in Screens, BeginAssign(t) \/ Assign(t)
  PROVE  IInv'
<1> USE DEF IInv, At
<1>1. CASE BeginAssign(t)
  <2>1. TypeOK'
    BY <1>1 DEF BeginAssign, TypeOK
  <2>2. Passed' /\ Younger'
    BY <1>1 DEF BeginAssign, TypeOK, Passed, Younger
  <2>3. Reached'
    BY <1>1 DEF BeginAssign, TypeOK, Reached
  <2> QED BY <2>1, <2>2, <2>3
<1>2. CASE Assign(t)
  <2>1. TypeOK'
    BY <1>2 DEF Assign, Touch, Rest, TypeOK
  <2>2. \A u \in Screens : ~At(u, "write")
    BY <1>2, ScreenAssumption DEF Assign, TypeOK
  <2>3. Passed' /\ Younger'
    BY <1>2, <2>2 DEF Assign, Touch, Rest, TypeOK, Passed, Younger
  <2>4. ASSUME ~behind', NEW u \in Screens
        PROVE  screen'[u].stamp <= updatedAt' /\ screen'[u].stamp # updatedAt'
    <3>1. ~behind /\ ~(req[t].begun <= updatedAt) /\ updatedAt' = req[t].begun
      BY <1>2, <2>4, Forward DEF Assign
    <3> QED BY <1>2, <3>1, Times DEF Assign, Reached
  <2>5. Reached'
    BY <2>4 DEF Reached
  <2> QED BY <2>1, <2>3, <2>5
<1> QED BY <1>1, <1>2

LEMMA FailKeeps ==
  ASSUME IInv, NEW t \in Screens, Fail(t)
  PROVE  IInv'
<1> USE DEF IInv, At, Fail, Rest
<1>1. TypeOK'
  BY ScreenAssumption DEF TypeOK
<1>2. Passed' /\ Younger'
  BY DEF TypeOK, Passed, Younger
<1>3. Reached'
  BY DEF TypeOK, Reached
<1> QED BY <1>1, <1>2, <1>3

LEMMA TickKeeps ==
  ASSUME IInv, Tick
  PROVE  IInv'
<1>1. TypeOK'
  BY DEF IInv, Tick, TypeOK, At
<1>2. Passed' /\ Younger' /\ Reached'
  BY DEF IInv, Tick, Passed, Younger, Reached, At
<1> QED BY <1>1, <1>2 DEF IInv
-----------------------------------------------------------------------------
(* The theorems *)

\* Screens of fewer values are screens of more.
LEMMA ScreensWiden ==
  ASSUME NEW A, NEW B, A \subseteq B, NEW C, NEW D, C \subseteq D,
         NEW f \in [Screens -> [section : Sections, latest : A, stamp : C]]
  PROVE  f \in [Screens -> [section : Sections, latest : B, stamp : D]]
OBVIOUS

LEMMA Initially == Init => IInv
<1> SUFFICES ASSUME Init
             PROVE  IInv
  OBVIOUS
<1>1. TypeOK
  <2>1. screen \in [Screens -> [section : Sections, latest : BOOLEAN, stamp : Nat]]
    <3>1. {TRUE} \subseteq BOOLEAN
      BY Zenon
    <3>2. {0} \subseteq Nat
      OBVIOUS
    <3> QED BY <3>1, <3>2, ScreensWiden DEF Init
  <2>2. behind \in BOOLEAN
    BY Zenon DEF Init
  <2> QED BY <2>1, <2>2, ScreenAssumption DEF Init, TypeOK, At, Rest
<1>2. Passed /\ Younger
  BY DEF Init, Passed, Younger, At, Rest
<1>3. Reached
  <2> SUFFICES ASSUME NEW t \in Screens
               PROVE  screen[t].stamp <= updatedAt /\ screen[t].latest
    BY DEF Reached
  <2>1. screen[t].stamp = updatedAt /\ updatedAt \in Nat
    BY DEF Init
  <2>2. screen[t].latest = TRUE
    BY DEF Init
  <2>3. screen[t].latest
    BY Zenon, <2>2
  <2> QED BY <2>1, <2>3
<1> QED BY <1>1, <1>2, <1>3 DEF IInv

LEMMA StepKeeps == IInv /\ [Next]_vars => IInv'
<1> SUFFICES ASSUME IInv, [Next]_vars
             PROVE  IInv'
  OBVIOUS
<1>1. ASSUME NEW t \in Screens,
             Loading(t) \/ Saving(t) \/ BeginAssign(t) \/ Assign(t) \/ Fail(t)
      PROVE  IInv'
  BY <1>1, LoadingKeeps, SavingKeeps, AssigningKeeps, FailKeeps
<1>2. CASE Tick
  BY <1>2, TickKeeps
<1>3. CASE UNCHANGED vars
  BY <1>3 DEF vars, IInv, TypeOK, Passed, Younger, Reached, At
<1> QED BY <1>1, <1>2, <1>3 DEF Next

LEMMA Inductive == Spec => []IInv
BY Initially, StepKeeps, PTL DEF Spec

\* Every state is well typed, and the contract row is held by the save that is
\* between its comparison and its commit, and by no other.
THEOREM TypeCorrect == Spec => []TypeOK
<1>1. IInv => TypeOK
  BY DEF IInv
<1> QED BY Inductive, <1>1, PTL

\* A guarded save replaces nothing newer than what its screen shows, for any
\* number of screens and whatever loads, saves and answers come between.
THEOREM LastSaveSeen == Spec => []NoLostUpdate
<1>1. IInv => NoLostUpdate
  <2> SUFFICES ASSUME IInv, NEW t \in Screens, At(t, "write"), ~behind
               PROVE  screen[t].latest
    BY DEF NoLostUpdate
  <2>1. updatedAt <= screen[t].stamp
    BY DEF IInv, Passed
  <2>2. screen[t].stamp <= updatedAt
    BY DEF IInv, Reached
  <2>3. screen[t].stamp = updatedAt
    BY <2>1, <2>2, Times DEF IInv
  <2>4. ~At(t, "load")
    BY DEF At
  <2> QED BY <2>3, <2>4 DEF IInv, Reached
<1> QED BY Inductive, <1>1, PTL

\* A save under the lock always moves updated_at forward.
THEOREM GuardedSavesAdvance == Spec => GuardedAdvances
<1>1. ASSUME IInv, Next, NEW t \in Screens, lock = t, updatedAt' # updatedAt
      PROVE  updatedAt' > updatedAt
  <2>1. \A u \in Screens : At(u, "write") => u = t
    BY <1>1 DEF IInv, TypeOK
  <2>2. lock # Nobody
    BY <1>1, ScreenAssumption
  <2>3. PICK answered \in BOOLEAN : SaveGuarded(t, answered)
    BY <1>1, <2>1, <2>2
       DEF Next, Loading, BeginLoad, FinishLoad, Saving, BeginSave, Check,
           SaveGuarded, SaveUnguarded, BeginAssign, Assign, Fail, Tick
  <2>4. updatedAt' = req[t].begun /\ At(t, "write")
    BY <2>3 DEF SaveGuarded, Save, Touch
  <2>5. updatedAt <= screen[t].stamp /\ screen[t].stamp < req[t].begun
    BY <1>1, <2>4 DEF IInv, Passed, Younger, At
  <2> QED BY <2>4, <2>5, <1>1 DEF IInv, TypeOK
<1>2. IInv /\ [Next]_vars =>
        [\A t \in Screens : lock = t /\ updatedAt' # updatedAt => updatedAt' > updatedAt]_vars
  BY <1>1
<1> QED BY Inductive, <1>2, PTL DEF Spec, GuardedAdvances
=============================================================================
