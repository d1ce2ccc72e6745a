--------------------------- MODULE C_Timer_proofs ---------------------------
(***************************************************************************)
(* Proofs about C_Timer, for any timers, coroutines and deferrals.         *)
(***************************************************************************)
EXTENDS C_Timer, SequenceTheorems, TLAPS

(* The type invariant in parts, each for variables that change together.   *)
HandleType ==
    /\ handle \in [Timers -> {"unused", "active", "inactive", "closing"}]
    /\ repeats \subseteq Timers
    /\ closure \in [Timers -> Closures]
    /\ timerCallbacks \subseteq Timers

StackType ==
    onStack \in [kind : Closures \cup {"check"}, timer : Timers \cup {NoTimer}]

ThreadType ==
    /\ running \in Threads \cup {NoThread}
    /\ thread \in [Threads -> {"new", "running", "sleeping", "dead"}]
    /\ sleeper \in [Timers -> Threads \cup {NoThread}]

DeferType ==
    /\ deferredCallbacks \in Seq(Deferral)
    /\ processed \in Seq(Deferral)
    /\ deferrals \in 0..MaxDeferrals
    /\ deferred \in 0..MaxDeferrals

FlagType == checker \in BOOLEAN /\ fatal \in BOOLEAN

HistoryType ==
    /\ deferrers \subseteq Threads
    /\ fired \subseteq Timers
    /\ selfStopped \subseteq Timers

(* Resume finds a callback for every timer that it may start, which is why *)
(* no timer is ever armed with nil: the two facts are proved together.     *)
LEMMA HandleStep ==
    ASSUME HandleType, RegistryMatchesHandles, [Next]_vars
    PROVE  HandleType' /\ RegistryMatchesHandles'
<1> USE DEF HandleType, RegistryMatchesHandles, UserTimers, Closures
<1>1. ASSUME NEW t \in Timers, After(t) PROVE HandleType' /\ RegistryMatchesHandles'
  BY <1>1 DEF After, start, register
<1>2. ASSUME NEW t \in Timers, NewTicker(t) PROVE HandleType' /\ RegistryMatchesHandles'
  BY <1>2 DEF NewTicker, start, register
<1>3. ASSUME NEW t \in Timers, Stop(t) PROVE HandleType' /\ RegistryMatchesHandles'
  BY <1>3 DEF Stop, is_closing, close, closed, unregister
<1>4. ASSUME NEW t \in Timers, Pause(t) PROVE HandleType' /\ RegistryMatchesHandles'
  BY <1>4 DEF Pause
<1>5. ASSUME NEW t \in Timers, Resume(t) PROVE HandleType' /\ RegistryMatchesHandles'
  <2>1. t \in timerCallbacks
    BY <1>5 DEF Resume, is_closing
  <2> QED BY <1>5, <2>1 DEF Resume, start
<1>6. ASSUME NEW t \in Timers, ResumeAfter(t) PROVE HandleType' /\ RegistryMatchesHandles'
  BY <1>6 DEF ResumeAfter, start
<1>7. ASSUME NEW t \in Timers, TimerFires(t) PROVE HandleType' /\ RegistryMatchesHandles'
  BY <1>7 DEF TimerFires
<1>8. ASSUME NEW t \in Timers, WakeUp(t) PROVE HandleType' /\ RegistryMatchesHandles'
  BY <1>8 DEF WakeUp, InEventLoop, closed
<1>9. CASE CallbackReturns
  BY <1>9 DEF CallbackReturns, close, closed, unregister
<1>10. CASE UNCHANGED <<handleVars, timerCallbacks, fatal>>
  BY <1>10 DEF handleVars
<1> QED
  BY <1>1, <1>2, <1>3, <1>4, <1>5, <1>6, <1>7, <1>8, <1>9, <1>10
  DEF Next, vars, Spawn, Defer, DeferResumption, Finish, OnCheck, RunDeferred, OnCheckReturns

LEMMA StackStep ==
    ASSUME HandleType, StackType, [Next]_vars
    PROVE  StackType'
<1>1. CASE UNCHANGED onStack
  BY <1>1 DEF StackType
<1>2. CASE onStack' = NoCallback
  BY <1>2 DEF NoCallback, StackType, Closures
<1>3. ASSUME NEW t \in Timers, TimerFires(t) PROVE StackType'
  BY <1>3 DEF TimerFires, StackType, HandleType
<1>4. CASE OnCheck
  BY <1>4 DEF OnCheck, StackType
<1> QED
  BY <1>1, <1>2, <1>3, <1>4
  DEF Next, vars, stackVars, After, NewTicker, Stop, Pause, Resume, ResumeAfter, WakeUp, Spawn,
      Defer, DeferResumption, Finish, CallbackReturns, RunDeferred, OnCheckReturns

LEMMA ThreadStep ==
    ASSUME ThreadType, DeferType, [Next]_vars
    PROVE  ThreadType'
<1>1. CASE UNCHANGED threadVars
  BY <1>1 DEF threadVars, ThreadType
<1>2. ASSUME NEW t \in Timers, ResumeAfter(t) PROVE ThreadType'
  BY <1>2 DEF ResumeAfter, ThreadType
<1>3. ASSUME NEW t \in Timers, WakeUp(t) PROVE ThreadType'
  BY <1>3 DEF WakeUp, ThreadType
<1>4. ASSUME NEW th \in Threads, Spawn(th) PROVE ThreadType'
  BY <1>4 DEF Spawn, ThreadType
<1>5. CASE Finish
  BY <1>5 DEF Finish, ThreadType
<1>6. CASE RunDeferred
  <2> DEFINE th == Head(processed).resumes
  <2>1. Head(processed) \in Deferral
    BY <1>6 DEF RunDeferred, DeferType
  <2>2. th \in Threads \cup {NoThread}
    BY <2>1 DEF Deferral
  <2>3. /\ \/ th # NoThread /\ thread' = [thread EXCEPT ![th] = "running"] /\ running' = th
           \/ UNCHANGED <<thread, running>>
        /\ UNCHANGED sleeper
    BY <1>6 DEF RunDeferred
  <2> HIDE DEF th
  <2> QED BY <2>2, <2>3 DEF ThreadType
<1> QED
  BY <1>1, <1>2, <1>3, <1>4, <1>5, <1>6
  DEF Next, vars, After, NewTicker, Stop, Pause, Resume, TimerFires, Defer, DeferResumption,
      CallbackReturns, OnCheck, OnCheckReturns

LEMMA ScheduleType ==
    ASSUME DeferType, NEW th \in Threads \cup {NoThread}, schedule(th),
           UNCHANGED <<processed, deferred>>
    PROVE  DeferType'
<1>1. deferrals' = deferrals + 1 /\ deferrals' \in 1..MaxDeferrals
  BY DeferralsAssumption DEF schedule, DeferType
<1>2. [id |-> deferrals', resumes |-> th] \in Deferral
  BY <1>1 DEF Deferral
<1> QED BY <1>1, <1>2 DEF schedule, DeferType

LEMMA DeferStep ==
    ASSUME ThreadType, DeferType, [Next]_vars
    PROVE  DeferType'
<1>1. CASE UNCHANGED <<deferredCallbacks, processed, deferrals, deferred>>
  BY <1>1 DEF DeferType
<1>2. CASE Defer
  BY <1>2, ScheduleType DEF Defer, stackVars, historyVars
<1>3. CASE DeferResumption
  BY <1>3, ScheduleType DEF DeferResumption, stackVars, ThreadType
<1>4. CASE OnCheck
  BY <1>4 DEF OnCheck, DeferType, historyVars
<1>5. CASE RunDeferred
  <2>1. Head(processed) \in Deferral /\ Tail(processed) \in Seq(Deferral)
    BY <1>5 DEF RunDeferred, DeferType
  <2>2. Head(processed).id \in 0..MaxDeferrals
    BY <2>1 DEF Deferral
  <2> QED BY <1>5, <2>1, <2>2 DEF RunDeferred, DeferType, deferVars
<1> QED
  BY <1>1, <1>2, <1>3, <1>4, <1>5
  DEF Next, vars, deferVars, stackVars, historyVars, After, NewTicker, Stop, Pause, Resume,
      ResumeAfter, TimerFires, WakeUp, Spawn, Finish, CallbackReturns, OnCheckReturns

LEMMA FlagStep ==
    ASSUME FlagType, [Next]_vars
    PROVE  FlagType'
<1>1. checker' \in BOOLEAN
  BY DEF FlagType, Next, vars, deferVars, After, NewTicker, Stop, Pause, Resume, ResumeAfter,
         TimerFires, WakeUp, Spawn, Finish, CallbackReturns, OnCheckReturns, Defer,
         DeferResumption, schedule, OnCheck, RunDeferred
<1>2. fatal' \in BOOLEAN
  BY DEF FlagType, Next, vars, After, NewTicker, Stop, close, Pause, Resume, ResumeAfter,
         TimerFires, WakeUp, Spawn, Finish, CallbackReturns, OnCheckReturns, Defer,
         DeferResumption, OnCheck, RunDeferred
<1> QED BY <1>1, <1>2 DEF FlagType

LEMMA HistoryStep ==
    ASSUME ThreadType, HistoryType, [Next]_vars
    PROVE  HistoryType'
<1>1. CASE UNCHANGED <<deferrers, fired, selfStopped>>
  BY <1>1 DEF HistoryType
<1>2. ASSUME NEW t \in Timers, Stop(t) PROVE HistoryType'
  BY <1>2 DEF Stop, HistoryType
<1>3. CASE DeferResumption
  BY <1>3 DEF DeferResumption, HistoryType, ThreadType
<1>4. ASSUME NEW t \in Timers, TimerFires(t) PROVE HistoryType'
  BY <1>4 DEF TimerFires, HistoryType
<1> QED
  BY <1>1, <1>2, <1>3, <1>4
  DEF Next, vars, historyVars, After, NewTicker, Pause, Resume, ResumeAfter, WakeUp, Spawn,
      Finish, Defer, CallbackReturns, OnCheck, RunDeferred, OnCheckReturns

(* The type invariant, with the fact about timerCallbacks that it needs to *)
(* be inductive.                                                           *)
TypeInv ==
    /\ HandleType /\ StackType /\ ThreadType /\ DeferType /\ FlagType /\ HistoryType
    /\ RegistryMatchesHandles

LEMMA TypeInit == Init => TypeInv
<1>1. Init => HandleType /\ RegistryMatchesHandles
  BY DEF Init, HandleType, RegistryMatchesHandles, UserTimers, Closures
<1>2. Init => StackType
  BY DEF Init, NoCallback, StackType, Closures
<1>3. Init => ThreadType /\ HistoryType
  BY DEF Init, ThreadType, HistoryType
<1>4. Init => DeferType
  BY DeferralsAssumption DEF Init, DeferType
<1>5. Init => FlagType
  BY DEF Init, FlagType
<1> QED BY <1>1, <1>2, <1>3, <1>4, <1>5 DEF TypeInv

LEMMA TypeStep == TypeInv /\ [Next]_vars => TypeInv'
BY HandleStep, StackStep, ThreadStep, DeferStep, FlagStep, HistoryStep DEF TypeInv

(* No timer is ever armed with nil, and no handle, coroutine or list       *)
(* leaves its type, whichever functions callbacks call.                    *)
THEOREM TypeCorrect == Spec => []TypeOK
<1>1. TypeInv => TypeOK
  BY DEF TypeInv, TypeOK, HandleType, StackType, ThreadType, DeferType, FlagType, HistoryType
<1> QED
  BY <1>1, TypeInit, TypeStep, PTL DEF Spec

(* timerCallbacks knows exactly the timers that are not closed: Resume     *)
(* never misses a callback, and closed timers are not kept alive.          *)
THEOREM RegistryIsAccurate == Spec => []RegistryMatchesHandles
<1>1. TypeInv => RegistryMatchesHandles
  BY DEF TypeInv
<1> QED
  BY <1>1, TypeInit, TypeStep, PTL DEF Spec

-----------------------------------------------------------------------------
(* The check handle.                                                       *)

LEMMA CheckerStep ==
    ASSUME TypeInv, CheckerStartedIffNeeded, [Next]_vars
    PROVE  CheckerStartedIffNeeded'
<1> USE DEF CheckerStartedIffNeeded
<1>1. ASSUME NEW th, schedule(th), UNCHANGED onStack
      PROVE  CheckerStartedIffNeeded'
  <2>1. deferredCallbacks \in Seq(Deferral)
    BY DEF TypeInv, DeferType
  <2>2. deferredCallbacks' # <<>>
    BY <1>1, <2>1 DEF schedule
  <2>3. checker' = TRUE
    BY <1>1 DEF schedule, hasProcessedDeferredCallbacks
  <2> QED BY <2>2, <2>3
<1>2. CASE Defer
  BY <1>1, <1>2 DEF Defer, stackVars
<1>3. CASE DeferResumption
  BY <1>1, <1>3 DEF DeferResumption, stackVars
<1>4. ASSUME NEW t \in Timers, TimerFires(t) PROVE CheckerStartedIffNeeded'
  <2>1. closure[t] \in Closures
    BY DEF TypeInv, HandleType
  <2>2. onStack.kind # "check" /\ onStack'.kind # "check"
    BY <1>4, <2>1 DEF TimerFires, InEventLoop, NoCallback, Closures
  <2> QED BY <1>4, <2>2 DEF TimerFires, deferVars
<1>5. CASE CallbackReturns
  BY <1>5 DEF CallbackReturns, NoCallback, deferVars
<1>6. CASE OnCheck
  BY <1>6 DEF OnCheck
<1>7. CASE RunDeferred
  BY <1>7 DEF RunDeferred, deferVars
<1>8. CASE OnCheckReturns
  BY <1>8 DEF OnCheckReturns, NoCallback, hasProcessedDeferredCallbacks
<1>9. CASE UNCHANGED <<deferVars, onStack>>
  BY <1>9 DEF deferVars
<1> QED
  BY <1>2, <1>3, <1>4, <1>5, <1>6, <1>7, <1>8, <1>9
  DEF Next, vars, stackVars, After, NewTicker, Stop, Pause, Resume, ResumeAfter, WakeUp, Spawn,
      Finish

(* Nothing that is deferred is stranded, however calls of Defer and check  *)
(* phases interleave, and the check handle does not spin without work.     *)
THEOREM CheckerIsStarted == Spec => []CheckerStartedIffNeeded
<1>1. Init => CheckerStartedIffNeeded
  BY DEF Init, NoCallback, CheckerStartedIffNeeded
<1>2. TypeInv /\ CheckerStartedIffNeeded /\ [Next]_vars => CheckerStartedIffNeeded'
  BY CheckerStep
<1> QED
  BY <1>1, <1>2, TypeInit, TypeStep, PTL DEF Spec

-----------------------------------------------------------------------------
(* The order of deferred callbacks.                                        *)

(* DeferredInOrder, stated for each list on its own, and the fact that     *)
(* makes it inductive: outside of onCheck its list is used up, so that the *)
(* next check phase discards nothing.                                      *)
OrderInv ==
    /\ onStack.kind # "check" => processed = <<>>
    /\ deferrals = deferred + Len(processed) + Len(deferredCallbacks)
    /\ \A i \in 1..Len(processed) : processed[i].id = deferred + i
    /\ \A i \in 1..Len(deferredCallbacks) :
           deferredCallbacks[i].id = deferred + Len(processed) + i

LEMMA OrderSchedule ==
    ASSUME DeferType, OrderInv, NEW th, schedule(th),
           UNCHANGED <<processed, onStack, deferred>>
    PROVE  OrderInv'
<1> DEFINE d == [id |-> deferrals + 1, resumes |-> th]
<1>1. /\ deferrals' = deferrals + 1
      /\ deferredCallbacks' = Append(deferredCallbacks, d)
  BY DEF schedule
<1>2. /\ Len(processed) \in Nat /\ Len(deferredCallbacks) \in Nat
      /\ deferrals \in Nat /\ deferred \in Nat
  BY DEF DeferType
<1>3. Len(deferredCallbacks') = Len(deferredCallbacks) + 1
  BY <1>1 DEF DeferType
<1>4. deferrals' = deferred' + Len(processed') + Len(deferredCallbacks')
  BY <1>1, <1>2, <1>3 DEF OrderInv
<1>5. ASSUME NEW i \in 1..Len(deferredCallbacks')
      PROVE  deferredCallbacks'[i].id = deferred' + Len(processed') + i
  <2>1. CASE i = Len(deferredCallbacks) + 1
    <3>1. deferredCallbacks'[i] = d
      BY <1>1, <2>1 DEF DeferType
    <3>2. d.id = deferrals + 1
      OBVIOUS
    <3> QED BY <1>2, <2>1, <3>1, <3>2 DEF OrderInv
  <2>2. CASE i \in 1..Len(deferredCallbacks)
    <3>1. deferredCallbacks'[i] = deferredCallbacks[i]
      BY <1>1, <2>2 DEF DeferType
    <3> QED BY <2>2, <3>1 DEF OrderInv
  <2> QED BY <1>2, <1>3, <2>1, <2>2
<1> QED BY <1>4, <1>5 DEF OrderInv

LEMMA OrderStep ==
    ASSUME TypeInv, OrderInv, [Next]_vars
    PROVE  OrderInv'
<1>0. DeferType
  BY DEF TypeInv
<1>1. CASE UNCHANGED <<stackVars, deferVars, deferred>>
  BY <1>1 DEF stackVars, deferVars, OrderInv
<1>2. CASE Defer
  BY <1>0, <1>2, OrderSchedule DEF Defer, stackVars, historyVars
<1>3. CASE DeferResumption
  BY <1>0, <1>3, OrderSchedule DEF DeferResumption, stackVars
<1>4. ASSUME NEW t \in Timers, TimerFires(t) PROVE OrderInv'
  BY <1>4 DEF TimerFires, InEventLoop, NoCallback, deferVars, OrderInv
<1>5. CASE CallbackReturns
  BY <1>5 DEF CallbackReturns, NoCallback, deferVars, historyVars, OrderInv
<1>6. CASE OnCheck
  <2>1. processed = <<>>
    BY <1>6 DEF OnCheck, InEventLoop, NoCallback, OrderInv
  <2>2. Len(processed) = 0 /\ Len(deferredCallbacks') = 0 /\ processed' = deferredCallbacks
    BY <1>6, <2>1 DEF OnCheck
  <2>3. deferred' = deferred /\ deferrals' = deferrals /\ onStack'.kind = "check"
    BY <1>6 DEF OnCheck, historyVars
  <2>4. Len(deferredCallbacks) \in Nat /\ deferred \in Nat
    BY <1>0 DEF DeferType
  <2> QED BY <2>2, <2>3, <2>4 DEF OrderInv
<1>7. CASE RunDeferred
  <2>1. /\ processed # <<>> /\ processed' = Tail(processed)
        /\ deferred' = Head(processed).id
        /\ UNCHANGED <<deferredCallbacks, deferrals, onStack>>
    BY <1>7 DEF RunDeferred, deferVars
  <2>2. onStack.kind = "check"
    BY <1>7 DEF RunDeferred
  <2>3. /\ Len(processed) \in Nat \ {0} /\ Len(processed') = Len(processed) - 1
        /\ \A i \in 1..Len(processed') : processed'[i] = processed[i + 1]
        /\ Head(processed) = processed[1]
    BY <1>0, <2>1 DEF DeferType
  <2>4. deferred \in Nat /\ deferrals \in Nat /\ Len(deferredCallbacks) \in Nat
    BY <1>0 DEF DeferType
  <2>5. deferred' = deferred + 1
    BY <2>1, <2>3 DEF OrderInv
  <2>6. deferrals' = deferred' + Len(processed') + Len(deferredCallbacks')
    BY <2>1, <2>3, <2>4, <2>5 DEF OrderInv
  <2>7. ASSUME NEW i \in 1..Len(processed') PROVE processed'[i].id = deferred' + i
    <3>1. i + 1 \in 1..Len(processed) /\ processed'[i] = processed[i + 1]
      BY <2>3
    <3> QED BY <2>4, <2>5, <3>1 DEF OrderInv
  <2>8. ASSUME NEW i \in 1..Len(deferredCallbacks')
        PROVE  deferredCallbacks'[i].id = deferred' + Len(processed') + i
    <3>1. deferredCallbacks'[i].id = deferred + Len(processed) + i
      BY <2>1 DEF OrderInv
    <3> QED BY <2>3, <2>4, <2>5, <3>1
  <2> QED BY <2>1, <2>2, <2>6, <2>7, <2>8 DEF OrderInv
<1>8. CASE OnCheckReturns
  BY <1>8 DEF OnCheckReturns, NoCallback, historyVars, OrderInv
<1> QED
  BY <1>1, <1>2, <1>3, <1>4, <1>5, <1>6, <1>7, <1>8
  DEF Next, vars, historyVars, After, NewTicker, Stop, Pause, Resume, ResumeAfter, WakeUp, Spawn,
      Finish

LEMMA OrderImplies ==
    ASSUME DeferType, OrderInv
    PROVE  DeferredInOrder
<1> DEFINE pending == processed \o deferredCallbacks
<1>1. /\ Len(processed) \in Nat /\ Len(deferredCallbacks) \in Nat
      /\ deferrals \in Nat /\ deferred \in Nat
  BY DEF DeferType
<1>2. Len(pending) = Len(processed) + Len(deferredCallbacks)
      /\ DOMAIN pending = 1..Len(pending)
  BY DEF DeferType
<1>3. Len(pending) = deferrals - deferred
  BY <1>1, <1>2 DEF OrderInv
<1>4. ASSUME NEW i \in DOMAIN pending PROVE pending[i].id = deferred + i
  <2>1. CASE i \in 1..Len(processed)
    <3>1. pending[i] = processed[i]
      BY <2>1 DEF DeferType
    <3> QED BY <2>1, <3>1 DEF OrderInv
  <2>2. CASE i \in (Len(processed) + 1)..Len(pending)
    <3>1. pending[i] = deferredCallbacks[i - Len(processed)]
      BY <1>1, <1>2, <2>2 DEF DeferType
    <3>2. i - Len(processed) \in 1..Len(deferredCallbacks)
      BY <1>1, <1>2, <2>2
    <3>3. deferredCallbacks[i - Len(processed)].id
             = deferred + Len(processed) + (i - Len(processed))
      BY <3>2 DEF OrderInv
    <3> QED BY <1>1, <2>2, <3>1, <3>3
  <2> QED BY <1>1, <1>2, <2>1, <2>2
<1> QED BY <1>3, <1>4 DEF DeferredInOrder

(* Deferred callbacks run in the order they were deferred, each once, also *)
(* those that are deferred while onCheck runs.                             *)
THEOREM DeferralsRunInOrder == Spec => []DeferredInOrder
<1>1. Init => OrderInv
  BY DEF Init, NoCallback, OrderInv
<1>2. TypeInv /\ OrderInv /\ [Next]_vars => OrderInv'
  BY OrderStep
<1>3. TypeInv /\ OrderInv => DeferredInOrder
  BY OrderImplies DEF TypeInv
<1> QED
  BY <1>1, <1>2, <1>3, TypeInit, TypeStep, PTL DEF Spec

-----------------------------------------------------------------------------
(* One-shot timers.                                                        *)

(* A one-shot timer that has fired is closed, or its callback is running   *)
(* and will close it when it returns; it is only closed while it runs if   *)
(* it stopped itself.                                                      *)
OneshotInv ==
    /\ \A t \in fired : handle[t] = "closing" \/ onStack = [kind |-> "oneshot", timer |-> t]
    /\ \A t \in Timers :
          onStack = [kind |-> "oneshot", timer |-> t] /\ handle[t] = "closing"
              => t \in selfStopped

LEMMA OneshotStep ==
    ASSUME TypeInv, OneshotInv, [Next]_vars
    PROVE  OneshotInv'
<1>0. HandleType /\ StackType /\ HistoryType
  BY DEF TypeInv
<1> USE <1>0 DEF HandleType, StackType, HistoryType, OneshotInv
<1>1. ASSUME NEW t \in Timers, After(t) PROVE OneshotInv'
  BY <1>1 DEF After, start, stackVars, historyVars
<1>2. ASSUME NEW t \in Timers, NewTicker(t) PROVE OneshotInv'
  BY <1>2 DEF NewTicker, start, stackVars, historyVars
<1>3. ASSUME NEW t \in Timers, Stop(t) PROVE OneshotInv'
  BY <1>3 DEF Stop, close, closed, stackVars
<1>4. ASSUME NEW t \in Timers, Pause(t) PROVE OneshotInv'
  BY <1>4 DEF Pause, stackVars, historyVars
<1>5. ASSUME NEW t \in Timers, Resume(t) PROVE OneshotInv'
  BY <1>5 DEF Resume, is_closing, start, stackVars, historyVars
<1>6. ASSUME NEW t \in Timers, ResumeAfter(t) PROVE OneshotInv'
  BY <1>6 DEF ResumeAfter, start, stackVars, historyVars
<1>7. ASSUME NEW t \in Timers, TimerFires(t) PROVE OneshotInv'
  BY <1>7 DEF TimerFires, InEventLoop, NoCallback
<1>8. ASSUME NEW t \in Timers, WakeUp(t) PROVE OneshotInv'
  BY <1>8 DEF WakeUp, InEventLoop, NoCallback, closed, stackVars, historyVars
<1>9. CASE CallbackReturns
  BY <1>9 DEF CallbackReturns, NoCallback, close, closed, historyVars
<1>10. CASE OnCheck
  BY <1>10 DEF OnCheck, InEventLoop, NoCallback, handleVars, historyVars
<1>11. CASE OnCheckReturns
  BY <1>11 DEF OnCheckReturns, NoCallback, handleVars, historyVars
<1>12. CASE UNCHANGED <<handle, onStack, fired, selfStopped>>
  BY <1>12
<1> QED
  BY <1>1, <1>2, <1>3, <1>4, <1>5, <1>6, <1>7, <1>8, <1>9, <1>10, <1>11, <1>12
  DEF Next, vars, handleVars, stackVars, historyVars, Spawn, Defer, DeferResumption, Finish,
      RunDeferred

LEMMA OneshotInit == Init => OneshotInv
BY DEF Init, NoCallback, OneshotInv

(* A one-shot timer that has fired is closed once its callback returned,   *)
(* whatever the callback did with it: stop, pause or resume.               *)
THEOREM OneshotsAreClosed == Spec => []FiredOneshotsAreClosed
<1>1. TypeInv /\ OneshotInv => FiredOneshotsAreClosed
  BY DEF OneshotInv, FiredOneshotsAreClosed
<1>2. TypeInv /\ OneshotInv /\ [Next]_vars => OneshotInv'
  BY OneshotStep
<1> QED
  BY <1>1, <1>2, OneshotInit, TypeInit, TypeStep, PTL DEF Spec

-----------------------------------------------------------------------------
(* Sleeping coroutines.                                                    *)

(* The timers of ResumeAfter are private: they are never unused once they  *)
(* have a coroutine to wake, never paused, and never the timer of a user's *)
(* callback, which CallbackReturns may close.                              *)
AlarmInv ==
    /\ \A t \in Timers :
          /\ closure[t] = "wake" <=> sleeper[t] # NoThread
          /\ closure[t] = "wake" => handle[t] \in {"active", "closing"}
          /\ handle[t] = "unused" => closure[t] = "none"
    /\ onStack.kind \in {"oneshot", "raw", "tick"} =>
          /\ onStack.timer \in Timers
          /\ handle[onStack.timer] # "unused"
          /\ closure[onStack.timer] # "wake"

LEMMA AlarmStep ==
    ASSUME TypeInv, AlarmInv, [Next]_vars
    PROVE  AlarmInv'
<1>0. HandleType /\ StackType /\ sleeper \in [Timers -> Threads \cup {NoThread}]
  BY DEF TypeInv, ThreadType
<1> USE <1>0, NoneAssumption DEF HandleType, StackType, AlarmInv, Closures
<1>1. ASSUME NEW t \in Timers, After(t) PROVE AlarmInv'
  BY <1>1 DEF After, start, stackVars, threadVars
<1>2. ASSUME NEW t \in Timers, NewTicker(t) PROVE AlarmInv'
  BY <1>2 DEF NewTicker, start, stackVars, threadVars
<1>3. ASSUME NEW t \in Timers, Stop(t) PROVE AlarmInv'
  BY <1>3 DEF Stop, UserTimers, close, closed, stackVars, threadVars
<1>4. ASSUME NEW t \in Timers, Pause(t) PROVE AlarmInv'
  BY <1>4 DEF Pause, UserTimers, stackVars, threadVars
<1>5. ASSUME NEW t \in Timers, Resume(t) PROVE AlarmInv'
  BY <1>5 DEF Resume, UserTimers, start, stackVars, threadVars
<1>6. ASSUME NEW t \in Timers, ResumeAfter(t) PROVE AlarmInv'
  BY <1>6 DEF ResumeAfter, start, stackVars
<1>7. ASSUME NEW t \in Timers, TimerFires(t) PROVE AlarmInv'
  BY <1>7 DEF TimerFires, threadVars
<1>8. ASSUME NEW t \in Timers, WakeUp(t) PROVE AlarmInv'
  BY <1>8 DEF WakeUp, closed, stackVars
<1>9. CASE CallbackReturns
  BY <1>9 DEF CallbackReturns, NoCallback, close, closed, threadVars
<1>10. CASE OnCheck
  BY <1>10 DEF OnCheck, handleVars, threadVars
<1>11. CASE OnCheckReturns
  BY <1>11 DEF OnCheckReturns, NoCallback, handleVars, threadVars
<1>12. CASE UNCHANGED <<handle, closure, onStack, sleeper>>
  BY <1>12
<1> QED
  BY <1>1, <1>2, <1>3, <1>4, <1>5, <1>6, <1>7, <1>8, <1>9, <1>10, <1>11, <1>12
  DEF Next, vars, handleVars, stackVars, threadVars, Spawn, Defer, DeferResumption, Finish,
      RunDeferred

(* Only coroutines that called Defer() are resumed by the check handle. *)
ResumesInv ==
    /\ \A i \in 1..Len(deferredCallbacks) :
          deferredCallbacks[i].resumes \in deferrers \cup {NoThread}
    /\ \A i \in 1..Len(processed) :
          processed[i].resumes \in deferrers \cup {NoThread}

LEMMA ResumesStep ==
    ASSUME TypeInv, ResumesInv, [Next]_vars
    PROVE  ResumesInv'
<1>0. DeferType /\ ThreadType
  BY DEF TypeInv
<1>1. ASSUME NEW th, schedule(th), deferrers \subseteq deferrers',
             th \in deferrers' \cup {NoThread}, UNCHANGED processed
      PROVE  ResumesInv'
  <2> DEFINE d == [id |-> deferrals + 1, resumes |-> th]
  <2>1. deferredCallbacks' = Append(deferredCallbacks, d)
    BY <1>1 DEF schedule
  <2>2. ASSUME NEW i \in 1..Len(deferredCallbacks')
        PROVE  deferredCallbacks'[i].resumes \in deferrers' \cup {NoThread}
    <3>1. CASE i = Len(deferredCallbacks) + 1
      <4>1. deferredCallbacks'[i] = d
        BY <1>0, <2>1, <3>1 DEF DeferType
      <4> QED BY <1>1, <4>1
    <3>2. CASE i \in 1..Len(deferredCallbacks)
      <4>1. deferredCallbacks'[i] = deferredCallbacks[i]
        BY <1>0, <2>1, <3>2 DEF DeferType
      <4> QED BY <1>1, <3>2, <4>1 DEF ResumesInv
    <3> QED BY <1>0, <2>1, <3>1, <3>2 DEF DeferType
  <2> QED BY <1>1, <2>2 DEF ResumesInv
<1>2. CASE Defer
  BY <1>1, <1>2 DEF Defer, stackVars, historyVars
<1>3. CASE DeferResumption
  BY <1>1, <1>3 DEF DeferResumption, stackVars
<1>4. CASE OnCheck
  BY <1>0, <1>4 DEF OnCheck, ResumesInv, DeferType, historyVars
<1>5. CASE RunDeferred
  <2>1. \A i \in 1..Len(processed') : i + 1 \in 1..Len(processed) /\ processed'[i] = processed[i + 1]
    BY <1>0, <1>5 DEF RunDeferred, DeferType
  <2> QED BY <1>5, <2>1 DEF RunDeferred, ResumesInv, deferVars
<1>6. CASE UNCHANGED <<deferredCallbacks, processed, deferrers>>
  BY <1>6 DEF ResumesInv
<1> QED
  BY <1>2, <1>3, <1>4, <1>5, <1>6
  DEF Next, vars, deferVars, stackVars, historyVars, After, NewTicker, Stop, Pause, Resume,
      ResumeAfter, TimerFires, WakeUp, Spawn, Finish, CallbackReturns, OnCheckReturns

(* The coroutine that runs is the one that is marked as running, and of    *)
(* the coroutines that never used Defer(), exactly those that sleep have   *)
(* an alarm, one each.                                                     *)
SleepInv ==
    /\ \A th \in Threads : thread[th] = "running" <=> running = th
    /\ \A t \in Timers :
          sleeper[t] \in Threads \ deferrers /\ handle[t] # "closing"
              => thread[sleeper[t]] = "sleeping"
    /\ \A t, u \in Timers :
          /\ sleeper[t] \in Threads \ deferrers /\ sleeper[u] = sleeper[t]
          /\ handle[t] # "closing" /\ handle[u] # "closing"
          => t = u
    /\ \A th \in Threads \ deferrers : thread[th] = "sleeping" =>
          \E t \in Timers : sleeper[t] = th /\ handle[t] = "active"

LEMMA SleepStep ==
    ASSUME TypeInv, AlarmInv, ResumesInv, SleepInv, [Next]_vars
    PROVE  SleepInv'
<1>0. HandleType /\ StackType /\ ThreadType /\ DeferType
  BY DEF TypeInv
<1> USE NoneAssumption
<1>a. ASSUME NEW t \in Timers, closure[t] # "wake",
             UNCHANGED <<threadVars, deferrers>>,
             \A u \in Timers \ {t} : handle'[u] = handle[u]
      PROVE  SleepInv'
  <2>1. sleeper[t] = NoThread
    BY <1>a DEF AlarmInv
  <2> QED BY <1>0, <1>a, <2>1 DEF SleepInv, threadVars
<1>b. CASE UNCHANGED <<handle, threadVars, deferrers>>
  BY <1>b DEF SleepInv, threadVars
<1>1. ASSUME NEW t \in Timers, After(t) PROVE SleepInv'
  BY <1>0, <1>1, <1>a DEF After, start, AlarmInv, HandleType, historyVars
<1>2. ASSUME NEW t \in Timers, NewTicker(t) PROVE SleepInv'
  BY <1>0, <1>2, <1>a DEF NewTicker, start, AlarmInv, HandleType, historyVars
<1>3. ASSUME NEW t \in Timers, Stop(t) PROVE SleepInv'
  BY <1>0, <1>3, <1>a DEF Stop, close, closed, UserTimers, HandleType
<1>4. ASSUME NEW t \in Timers, Pause(t) PROVE SleepInv'
  BY <1>0, <1>4, <1>a DEF Pause, UserTimers, HandleType, historyVars
<1>5. ASSUME NEW t \in Timers, Resume(t) PROVE SleepInv'
  BY <1>0, <1>5, <1>a DEF Resume, start, UserTimers, HandleType, historyVars
<1>6. ASSUME NEW t \in Timers, ResumeAfter(t) PROVE SleepInv'
  <2>1. running \in Threads /\ thread[running] = "running"
    BY <1>0, <1>6 DEF ResumeAfter, ThreadType, SleepInv
  <2>2. sleeper[t] = NoThread /\ handle[t] = "unused"
    BY <1>6 DEF ResumeAfter, AlarmInv
  <2>3. /\ handle' = [handle EXCEPT ![t] = "active"]
        /\ sleeper' = [sleeper EXCEPT ![t] = running]
        /\ thread' = [thread EXCEPT ![running] = "sleeping"]
        /\ running' = NoThread /\ deferrers' = deferrers
    BY <1>6 DEF ResumeAfter, start, historyVars
  <2> QED BY <1>0, <2>1, <2>2, <2>3 DEF HandleType, ThreadType, SleepInv
<1>7. ASSUME NEW t \in Timers, TimerFires(t) PROVE SleepInv'
  BY <1>0, <1>7, <1>a DEF TimerFires, HandleType
<1>8. ASSUME NEW t \in Timers, WakeUp(t) PROVE SleepInv'
  <2> DEFINE th == sleeper[t]
  <2>1. th \in Threads /\ handle[t] = "active"
    BY <1>0, <1>8 DEF WakeUp, AlarmInv, ThreadType
  <2>2. /\ handle' = [handle EXCEPT ![t] = "closing"]
        /\ UNCHANGED <<sleeper, deferrers>> /\ running = NoThread
    BY <1>8 DEF WakeUp, closed, historyVars, InEventLoop
  <2>3. CASE thread[th] = "dead"
    <3>1. th \in deferrers
      BY <2>1, <2>3 DEF SleepInv
    <3>2. UNCHANGED <<thread, running>>
      BY <1>8, <2>3 DEF WakeUp
    <3> QED BY <1>0, <2>1, <2>2, <3>1, <3>2 DEF HandleType, ThreadType, SleepInv
  <2>4. CASE thread[th] # "dead"
    <3>1. thread' = [thread EXCEPT ![th] = "running"] /\ running' = th
      BY <1>8, <2>4 DEF WakeUp
    <3> QED BY <1>0, <2>1, <2>2, <3>1 DEF HandleType, ThreadType, SleepInv
  <2> QED BY <2>3, <2>4
<1>9. CASE CallbackReturns
  <2>1. CASE onStack.kind = "oneshot"
    <3>1. onStack.timer \in Timers /\ closure[onStack.timer] # "wake"
      BY <2>1 DEF AlarmInv
    <3>2. handle' = [handle EXCEPT ![onStack.timer] = "closing"]
      BY <1>9, <2>1 DEF CallbackReturns, close, closed
    <3> QED BY <1>0, <1>9, <1>a, <3>1, <3>2 DEF CallbackReturns, HandleType, historyVars
  <2>2. CASE onStack.kind # "oneshot"
    BY <1>9, <1>b, <2>2 DEF CallbackReturns, historyVars
  <2> QED BY <2>1, <2>2
<1>10. ASSUME NEW th \in Threads, Spawn(th) PROVE SleepInv'
  BY <1>0, <1>10 DEF Spawn, ThreadType, SleepInv, handleVars, historyVars
<1>11. CASE DeferResumption
  BY <1>11 DEF DeferResumption, SleepInv, handleVars, threadVars
<1>12. CASE Finish
  BY <1>0, <1>12 DEF Finish, ThreadType, SleepInv, handleVars, historyVars
<1>13. CASE RunDeferred
  <2> DEFINE th == Head(processed).resumes
  <2>1. /\ \/ /\ th # NoThread /\ thread[th] = "sleeping"
              /\ thread' = [thread EXCEPT ![th] = "running"] /\ running' = th
           \/ UNCHANGED <<thread, running>>
        /\ UNCHANGED <<handle, sleeper, deferrers>> /\ running = NoThread
    BY <1>13 DEF RunDeferred, handleVars
  <2>2. Head(processed) = processed[1] /\ 1 \in 1..Len(processed) /\ processed[1] \in Deferral
    BY <1>0, <1>13 DEF RunDeferred, DeferType
  <2>3. th \in deferrers \cup {NoThread} /\ th \in Threads \cup {NoThread}
    BY <2>2 DEF ResumesInv, Deferral
  <2> HIDE DEF th
  <2> QED BY <1>0, <2>1, <2>3 DEF ThreadType, SleepInv
<1> QED
  BY <1>1, <1>2, <1>3, <1>4, <1>5, <1>6, <1>7, <1>8, <1>9, <1>10, <1>11, <1>12, <1>13, <1>b
  DEF Next, vars, handleVars, historyVars, Defer, OnCheck, OnCheckReturns

(* Everything about timers and coroutines that holds in every state. *)
TimerInv == TypeInv /\ OneshotInv /\ AlarmInv /\ ResumesInv /\ SleepInv

LEMMA TimerInvariant == Spec => []TimerInv
<1>1. Init => AlarmInv /\ ResumesInv
  BY DEF Init, NoCallback, AlarmInv, ResumesInv
<1>2. Init => SleepInv
  BY NoneAssumption DEF Init, SleepInv
<1>3. TimerInv /\ [Next]_vars => TimerInv'
  BY TypeStep, OneshotStep, AlarmStep, ResumesStep, SleepStep DEF TimerInv
<1>4. Init => TimerInv
  BY <1>1, <1>2, TypeInit, OneshotInit DEF TimerInv
<1> QED
  BY <1>3, <1>4, PTL DEF Spec

(* A coroutine that sleeps in ResumeAfter, and never used Defer(), has     *)
(* exactly one timer armed to wake it, whatever else is started, stopped,  *)
(* paused or deferred meanwhile; every other such coroutine has none.      *)
THEOREM SleepersHaveAnAlarm == Spec => []SleepersHaveOneAlarm
<1>1. ASSUME TimerInv, NEW th \in Threads \ deferrers
      PROVE  LET alarms == {t \in Timers : sleeper[t] = th /\ handle[t] # "closing"} IN
             IF thread[th] = "sleeping"
             THEN \E t \in alarms : alarms = {t} /\ handle[t] = "active"
             ELSE alarms = {}
  <2>1. SleepInv
    BY <1>1 DEF TimerInv
  <2>2. CASE thread[th] = "sleeping"
    <3>1. PICK t \in Timers : sleeper[t] = th /\ handle[t] = "active"
      BY <2>1, <2>2 DEF SleepInv
    <3>2. {u \in Timers : sleeper[u] = th /\ handle[u] # "closing"} = {t}
      BY <2>1, <3>1 DEF SleepInv
    <3> QED BY <2>2, <3>1, <3>2
  <2>3. CASE thread[th] # "sleeping"
    BY <2>1, <2>3 DEF SleepInv
  <2> QED BY <2>2, <2>3
<1>2. TimerInv => SleepersHaveOneAlarm
  BY <1>1 DEF SleepersHaveOneAlarm
<1> QED
  BY <1>2, TimerInvariant, PTL

(* No order of calls closes a handle twice or wakes a dead coroutine,      *)
(* except a one-shot timer stopped from its own callback and a coroutine   *)
(* that used Defer(): only these bring the process down.                   *)
THEOREM OtherCallsAreNotFatal == Spec => []FatalOnlyBySelfStopOrDefer
<1>1. Init => FatalOnlyBySelfStopOrDefer
  BY DEF Init, FatalOnlyBySelfStopOrDefer
<1>2. ASSUME TimerInv, FatalOnlyBySelfStopOrDefer, [Next]_vars
      PROVE  FatalOnlyBySelfStopOrDefer'
  <2> USE DEF FatalOnlyBySelfStopOrDefer
  <2>1. CASE UNCHANGED fatal /\ selfStopped \subseteq selfStopped' /\ deferrers \subseteq deferrers'
    BY <1>2, <2>1
  <2>2. ASSUME NEW t \in Timers, Stop(t) PROVE FatalOnlyBySelfStopOrDefer'
    BY <2>2 DEF Stop, is_closing, close
  <2>3. CASE CallbackReturns
    <3>1. CASE onStack.kind = "oneshot" /\ handle[onStack.timer] = "closing"
      <4>1. onStack = [kind |-> "oneshot", timer |-> onStack.timer]
        BY <1>2, <3>1 DEF TimerInv, TypeInv, StackType
      <4>2. onStack.timer \in Timers
        BY <1>2, <3>1 DEF TimerInv, AlarmInv
      <4>3. onStack.timer \in selfStopped
        BY <1>2, <3>1, <4>1, <4>2 DEF TimerInv, OneshotInv
      <4> QED BY <2>3, <4>3 DEF CallbackReturns, historyVars
    <3>2. CASE ~(onStack.kind = "oneshot" /\ handle[onStack.timer] = "closing")
      BY <2>3, <3>2 DEF CallbackReturns, close
    <3> QED BY <3>1, <3>2
  <2>4. ASSUME NEW t \in Timers, WakeUp(t) PROVE FatalOnlyBySelfStopOrDefer'
    <3>1. CASE thread[sleeper[t]] = "dead"
      <4>1. sleeper[t] \in Threads
        BY <1>2, <2>4 DEF WakeUp, TimerInv, TypeInv, ThreadType, AlarmInv
      <4>2. sleeper[t] \in deferrers
        BY <1>2, <2>4, <3>1, <4>1 DEF WakeUp, TimerInv, SleepInv
      <4> QED BY <2>4, <4>2 DEF WakeUp, historyVars
    <3>2. CASE thread[sleeper[t]] # "dead"
      BY <2>4, <3>2 DEF WakeUp, InEventLoop
    <3> QED BY <3>1, <3>2
  <2> QED
    BY <1>2, <2>1, <2>2, <2>3, <2>4
    DEF Next, vars, historyVars, After, NewTicker, Pause, Resume, ResumeAfter, TimerFires, Spawn,
        Defer, DeferResumption, Finish, OnCheck, RunDeferred, OnCheckReturns
<1> QED
  BY <1>1, <1>2, TimerInvariant, PTL DEF Spec
=============================================================================
