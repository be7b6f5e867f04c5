------------------------------ MODULE WakeupProofs ------------------------------
(***************************************************************************)
(* Theorems about WorkerWakeup for every number of processes and rows,     *)
(* every size of a batch, and both kinds of worker.                        *)
(***************************************************************************)
EXTENDS WorkerWakeup, TLAPS

\* A signal that reaches a process reaches it before its worker sleeps or is seen
\* when it does: nothing else is needed, the flag is memory enough.
IInv == TypeOK /\ NoMissedSignal

-------------------------------------------------------------------------------

LEMMA InitHolds == Init => IInv
BY BatchAssumption DEF Init, IInv, TypeOK, NoMissedSignal

-------------------------------------------------------------------------------
(* Producers and time *)

\* A row that has just been committed is unsent.
LEMMA CommitHolds ==
    ASSUME IInv, NEW w \in Workers, NEW i \in Items, Commit(w, i) PROVE IInv'
<1>1. TypeOK'
  BY DEF IInv, TypeOK, Commit, Ready
<1>2. NoMissedSignal'
  BY DEF IInv, TypeOK, NoMissedSignal, Commit
<1> QED BY <1>1, <1>2 DEF IInv

\* The flag that is raised is the one of the row's own process.
LEMMA SignalHolds ==
    ASSUME IInv, NEW i \in Items, Signal(i) PROVE IInv'
<1>1. TypeOK'
  BY DEF IInv, TypeOK, Signal
<1>2. NoMissedSignal'
  BY DEF IInv, TypeOK, NoMissedSignal, Signal
<1> QED BY <1>1, <1>2 DEF IInv

LEMMA BecomesDueHolds ==
    ASSUME IInv, NEW i \in Items, BecomesDue(i) PROVE IInv'
BY DEF IInv, TypeOK, NoMissedSignal, BecomesDue, Ready

-------------------------------------------------------------------------------
(* The worker *)

\* Whoever lowers the flag looks for rows afterwards.
LEMMA WaitHolds ==
    ASSUME IInv, NEW w \in Workers, WakeUp(w) \/ PollTimeout(w) \/ EnterWait(w) PROVE IInv'
<1>1. CASE WakeUp(w)
  BY <1>1 DEF IInv, TypeOK, NoMissedSignal, WakeUp
<1>2. CASE PollTimeout(w)
  BY <1>2 DEF IInv, TypeOK, NoMissedSignal, PollTimeout
<1>3. CASE EnterWait(w)
  BY <1>3 DEF IInv, TypeOK, NoMissedSignal, EnterWait
<1> QED BY <1>1, <1>2, <1>3

\* A tick that found nothing has seen that no row was ready; any other is not empty.
LEMMA TickHolds ==
    ASSUME IInv, NEW w \in Workers, TickBusy(w) \/ TickEmpty(w) \/ TickFails(w) PROVE IInv'
<1>1. CASE TickBusy(w)
  BY <1>1, BatchAssumption DEF IInv, TypeOK, NoMissedSignal, TickBusy, TickEnds
<1>2. CASE TickEmpty(w)
  BY <1>2, BatchAssumption DEF IInv, TypeOK, NoMissedSignal, TickEmpty, TickEnds, Ready
<1>3. CASE TickFails(w)
  <2>1. TypeOK'
    BY <1>3, BatchAssumption DEF IInv, TypeOK, TickFails, TickEnds
  <2>2. NoMissedSignal'
    BY <1>3 DEF IInv, TypeOK, NoMissedSignal, TickFails, TickEnds
  <2> QED BY <2>1, <2>2 DEF IInv
<1> QED BY <1>1, <1>2, <1>3

LEMMA TakeHolds ==
    ASSUME IInv, NEW w \in Workers, NEW i \in Items, Take(w, i) PROVE IInv'
<1>1. TypeOK'
  BY BatchAssumption DEF IInv, TypeOK, Take, TickEnds, Ready
<1>2. NoMissedSignal'
  BY NoneAssumption DEF IInv, TypeOK, NoMissedSignal, Take, TickEnds
<1> QED BY <1>1, <1>2 DEF IInv

LEMMA DoneHolds ==
    ASSUME IInv, NEW w \in Workers, NEW s \in Outcomes, Done(w, s) PROVE IInv'
<1>1. s \in {"done", "later"} /\ hand[w] \in Items
  BY DEF Outcomes, Done, IInv, TypeOK
<1>2. TypeOK'
  BY <1>1, BatchAssumption DEF IInv, TypeOK, Done, TickEnds
<1>3. NoMissedSignal'
  BY <1>1 DEF IInv, TypeOK, NoMissedSignal, Done, TickEnds
<1> QED BY <1>2, <1>3 DEF IInv

\* What dies with a process are its own signals, and its own sleep.
LEMMA DieHolds ==
    ASSUME IInv, NEW w \in Workers, Die(w) PROVE IInv'
<1>1. TypeOK'
  BY DEF IInv, TypeOK, Die
<1>2. NoMissedSignal'
  BY NoneAssumption DEF IInv, TypeOK, NoMissedSignal, Die
<1> QED BY <1>1, <1>2 DEF IInv

-------------------------------------------------------------------------------

\* The invariant of flags, waits and rows holds in every reachable state.
THEOREM WakeupInductive == Spec => []IInv
<1>1. IInv /\ [Next]_vars => IInv'
  <2> SUFFICES ASSUME IInv, [Next]_vars PROVE IInv'
    OBVIOUS
  <2>1. ASSUME NEW i \in Items, Signal(i) \/ BecomesDue(i) PROVE IInv'
    BY <2>1, SignalHolds, BecomesDueHolds
  <2>2. ASSUME NEW w \in Workers, Loop(w) PROVE IInv'
    BY <2>2, WaitHolds, TickHolds, TakeHolds, DoneHolds DEF Loop
  <2>3. ASSUME NEW w \in Workers, Die(w) PROVE IInv'
    BY <2>3, DieHolds
  <2>4. ASSUME NEW w \in Workers, NEW i \in Items, Commit(w, i) PROVE IInv'
    BY <2>4, CommitHolds
  <2>5. CASE UNCHANGED vars
    BY <2>5 DEF vars, IInv, TypeOK, NoMissedSignal
  <2> QED BY <2>1, <2>2, <2>3, <2>4, <2>5 DEF Next
<1> QED BY <1>1, InitHolds, PTL DEF Spec

\* Every variable of the wake-up keeps its type.
THEOREM WakeupTypes == Spec => []TypeOK
<1>1. IInv => TypeOK
  BY DEF IInv
<1> QED BY <1>1, WakeupInductive, PTL

\* A worker that sleeps because it found nothing, and whose flag is down, has missed
\* no row that was signalled in its process, however commits, signals, ticks, timeouts
\* and deaths of processes interleave.
THEOREM NoSignalIsMissed == Spec => []NoMissedSignal
<1>1. IInv => NoMissedSignal
  BY DEF IInv
<1> QED BY <1>1, WakeupInductive, PTL

=================================================================================
