------------------------------- MODULE C_Timer -------------------------------
(***************************************************************************)
(* The C_Timer namespace (C_Timer.lua): one-shot timers, tickers, sleeping *)
(* coroutines, and callbacks deferred to the check phase of the libuv      *)
(* event loop.                                                             *)
(*                                                                         *)
(* Time itself is left out: any active timer may be the next to fire.      *)
(* libuv stops a one-shot timer before it calls its callback and re-arms a *)
(* repeating one.  A callback runs to its end before the next one starts,  *)
(* and is arbitrary user code: it may call any function of C_Timer, also   *)
(* on the timer that is firing, and start coroutines, which then run until *)
(* they sleep or end.  An error raised in a callback, such as closing a    *)
(* handle twice or waking a dead coroutine, ends the process (fatal).      *)
(***************************************************************************)
EXTENDS Naturals, Sequences

CONSTANTS
    Timers,         \* timer handles, each created at most once
    Threads,        \* coroutines
    NoTimer,
    NoThread,
    MaxDeferrals    \* bound: calls of Defer

ASSUME NoneAssumption == NoTimer \notin Timers /\ NoThread \notin Threads
ASSUME DeferralsAssumption == MaxDeferrals \in Nat

VARIABLES
    handle,             \* external: state of each uv_timer_t
    repeats,            \* external: timers with a repeat interval
    closure,            \* external: the function each timer is armed with
    timerCallbacks,     \* timers with an entry in timerCallbacks/timerStartTimes
    deferredCallbacks,  \* what the next check phase will run
    checker,            \* is deferredCallbackChecker started?
    processed,          \* the rest of the list that onCheck iterates over
    onStack,            \* the callback that is running, if any
    running,            \* the coroutine that is running, if any
    thread,             \* state of each coroutine
    sleeper,            \* the coroutine that each ResumeAfter timer wakes
    fatal,              \* has an error ended the process?
    deferrals,          \* history: calls of Defer
    deferred,           \* history: the last deferred callback that was run
    deferrers,          \* history: coroutines that called Defer()
    fired,              \* history: one-shot timers that have fired as such
    selfStopped         \* history: one-shot timers stopped by their own callback

handleVars  == <<handle, repeats, closure>>
deferVars   == <<deferredCallbacks, checker, deferrals>>
stackVars   == <<processed, onStack>>
threadVars  == <<running, thread, sleeper>>
historyVars == <<deferred, deferrers, fired, selfStopped>>
vars == <<handleVars, timerCallbacks, deferVars, stackVars, threadVars, fatal,
          historyVars>>

NoCallback == [kind |-> "none", timer |-> NoTimer]

Init ==
    /\ handle = [t \in Timers |-> "unused"]
    /\ repeats = {}
    /\ closure = [t \in Timers |-> "none"]
    /\ timerCallbacks = {}
    /\ deferredCallbacks = <<>>
    /\ checker = FALSE
    /\ processed = <<>>
    /\ onStack = NoCallback
    /\ running = NoThread
    /\ thread = [th \in Threads |-> "new"]
    /\ sleeper = [t \in Timers |-> NoThread]
    /\ fatal = FALSE
    /\ deferrals = 0
    /\ deferred = 0
    /\ deferrers = {}
    /\ fired = {}
    /\ selfStopped = {}

Closures == {"none", "oneshot", "raw", "tick", "wake"}

Deferral == [id : 1..MaxDeferrals, resumes : Threads \cup {NoThread}]

TypeOK ==
    /\ handle \in [Timers -> {"unused", "active", "inactive", "closing"}]
    /\ repeats \subseteq Timers
    /\ closure \in [Timers -> Closures]
    /\ timerCallbacks \subseteq Timers
    /\ deferredCallbacks \in Seq(Deferral)
    /\ checker \in BOOLEAN
    /\ processed \in Seq(Deferral)
    /\ onStack \in [kind : Closures \cup {"check"}, timer : Timers \cup {NoTimer}]
    /\ running \in Threads \cup {NoThread}
    /\ thread \in [Threads -> {"new", "running", "sleeping", "dead"}]
    /\ sleeper \in [Timers -> Threads \cup {NoThread}]
    /\ fatal \in BOOLEAN
    /\ deferrals \in 0..MaxDeferrals
    /\ deferred \in 0..MaxDeferrals
    /\ deferrers \subseteq Threads
    /\ fired \subseteq Timers
    /\ selfStopped \subseteq Timers

-----------------------------------------------------------------------------
(* The libuv and luv functions that C_Timer is built on.                   *)

(* Mutant of start: the handle is created, but not started. *)
start_forgotten(t, function, repeating) ==
    /\ handle' = [handle EXCEPT ![t] = "inactive"]
    /\ closure' = [closure EXCEPT ![t] = function]
    /\ repeats' = IF repeating THEN repeats \cup {t} ELSE repeats

(* timer:start(delay, interval, function) *)
start(t, function, repeating) ==
    /\ handle' = [handle EXCEPT ![t] = "active"]
    /\ closure' = [closure EXCEPT ![t] = function]
    /\ repeats' = IF repeating THEN repeats \cup {t} ELSE repeats

(* Mutant of is_closing: the question is never asked. *)
is_closing_unasked(t) == FALSE

(* timer:is_closing() *)
is_closing(t) == handle[t] = "closing"

(* Mutant of closed: the timer is only stopped. *)
closed_stopOnly(t) == [handle EXCEPT ![t] = "inactive"]

(* The handle after timer:stop() and timer:close(). *)
closed(t) == [handle EXCEPT ![t] = "closing"]

(* timer:close() raises an error if the handle is closing already. *)
close(t) ==
    /\ handle' = closed(t)
    /\ fatal' = (handle[t] = "closing")

-----------------------------------------------------------------------------
(* User code: it runs in any callback, also in those of other handles.     *)

(* The timers of After and NewTicker; those of ResumeAfter stay private.   *)
UserTimers == {t \in Timers : handle[t] # "unused" /\ closure[t] # "wake"}

register(t) == timerCallbacks' = timerCallbacks \cup {t}

(* Mutant of unregister: the entry is kept. *)
unregister_kept(t) == UNCHANGED timerCallbacks

unregister(t) == timerCallbacks' = timerCallbacks \ {t}

After(t) ==
    /\ ~fatal
    /\ handle[t] = "unused"
    /\ start(t, "oneshot", FALSE)
    /\ register(t)
    /\ UNCHANGED <<deferVars, stackVars, threadVars, fatal, historyVars>>

(* A delay of zero makes a ticker that does not repeat. *)
NewTicker(t) ==
    /\ ~fatal
    /\ handle[t] = "unused"
    /\ \E repeating \in BOOLEAN : start(t, "tick", repeating)
    /\ register(t)
    /\ UNCHANGED <<deferVars, stackVars, threadVars, fatal, historyVars>>

Stop(t) ==
    /\ ~fatal
    /\ t \in UserTimers
    /\ ~is_closing(t)
    /\ close(t)
    /\ unregister(t)
    /\ selfStopped' = IF onStack = [kind |-> "oneshot", timer |-> t]
                      THEN selfStopped \cup {t} ELSE selfStopped
    /\ UNCHANGED <<repeats, closure, deferVars, stackVars, threadVars,
                   deferred, deferrers, fired>>

Pause(t) ==
    /\ ~fatal
    /\ t \in UserTimers
    /\ handle[t] = "active"
    /\ handle' = [handle EXCEPT ![t] = "inactive"]
    /\ UNCHANGED <<repeats, closure, timerCallbacks, deferVars, stackVars,
                   threadVars, fatal, historyVars>>

(* Resume arms the timer with what timerCallbacks holds: for a one-shot    *)
(* timer that is the user's callback itself, not the function that closes  *)
(* the handle afterwards.                                                  *)
Resume(t) ==
    /\ ~fatal
    /\ t \in UserTimers
    /\ ~is_closing(t)
    /\ start(t, IF t \notin timerCallbacks THEN "nil"
                ELSE IF closure[t] = "oneshot" THEN "raw" ELSE closure[t],
             t \in repeats)
    /\ UNCHANGED <<timerCallbacks, deferVars, stackVars, threadVars, fatal,
                   historyVars>>

(* Mutant of hasProcessedDeferredCallbacks: a stale answer. *)
hasProcessedDeferredCallbacks_stale == TRUE

hasProcessedDeferredCallbacks == deferredCallbacks = <<>>

(* Mutant of schedule: the newest callback goes first. *)
schedule_front(th) ==
    /\ deferrals < MaxDeferrals
    /\ deferrals' = deferrals + 1
    /\ checker' = (checker \/ hasProcessedDeferredCallbacks)
    /\ deferredCallbacks' = <<[id |-> deferrals', resumes |-> th]>> \o deferredCallbacks

(* The check handle is started for the first entry of the list. *)
schedule(th) ==
    /\ deferrals < MaxDeferrals
    /\ deferrals' = deferrals + 1
    /\ checker' = (checker \/ hasProcessedDeferredCallbacks)
    /\ deferredCallbacks' =
          Append(deferredCallbacks, [id |-> deferrals', resumes |-> th])

(* Defer(callback) *)
Defer ==
    /\ ~fatal
    /\ schedule(NoThread)
    /\ UNCHANGED <<handleVars, timerCallbacks, stackVars, threadVars, fatal,
                   historyVars>>

(* Defer() in a coroutine: its resumption is scheduled, but it runs on. *)
DeferResumption ==
    /\ ~fatal
    /\ running # NoThread
    /\ schedule(running)
    /\ deferrers' = deferrers \cup {running}
    /\ UNCHANGED <<handleVars, timerCallbacks, stackVars, threadVars, fatal,
                   deferred, fired, selfStopped>>

(* External: coroutine.create and the first coroutine.resume. *)
Spawn(th) ==
    /\ ~fatal
    /\ running = NoThread
    /\ thread[th] = "new"
    /\ thread' = [thread EXCEPT ![th] = "running"]
    /\ running' = th
    /\ UNCHANGED <<handleVars, timerCallbacks, deferVars, stackVars, sleeper,
                   fatal, historyVars>>

(* A timer is started, and the coroutine yields. *)
ResumeAfter(t) ==
    /\ ~fatal
    /\ running # NoThread
    /\ handle[t] = "unused"
    /\ start(t, "wake", FALSE)
    /\ sleeper' = [sleeper EXCEPT ![t] = running]
    /\ thread' = [thread EXCEPT ![running] = "sleeping"]
    /\ running' = NoThread
    /\ UNCHANGED <<timerCallbacks, deferVars, stackVars, fatal, historyVars>>

(* External: the function of the coroutine returns. *)
Finish ==
    /\ ~fatal
    /\ running # NoThread
    /\ thread' = [thread EXCEPT ![running] = "dead"]
    /\ running' = NoThread
    /\ UNCHANGED <<handleVars, timerCallbacks, deferVars, stackVars, sleeper,
                   fatal, historyVars>>

-----------------------------------------------------------------------------
(* The event loop.                                                         *)

InEventLoop == ~fatal /\ onStack = NoCallback /\ running = NoThread

(* A timer created by After or NewTicker fires. *)
TimerFires(t) ==
    /\ InEventLoop
    /\ handle[t] = "active"
    /\ closure[t] # "wake"
    /\ onStack' = [kind |-> closure[t], timer |-> t]
    /\ handle' = IF t \in repeats THEN handle
                 ELSE [handle EXCEPT ![t] = "inactive"]
    /\ fired' = IF closure[t] = "oneshot" THEN fired \cup {t} ELSE fired
    /\ UNCHANGED <<repeats, closure, timerCallbacks, deferVars, processed,
                   threadVars, fatal, deferred, deferrers, selfStopped>>

(* The user's callback returns; After's function then closes the timer. *)
CallbackReturns ==
    /\ ~fatal
    /\ running = NoThread
    /\ onStack.kind \in {"oneshot", "raw", "tick"}
    /\ IF onStack.kind = "oneshot"
       THEN close(onStack.timer) /\ unregister(onStack.timer)
       ELSE UNCHANGED <<handle, timerCallbacks, fatal>>
    /\ onStack' = NoCallback
    /\ UNCHANGED <<repeats, closure, deferVars, processed, threadVars, historyVars>>

(* The timer of a sleeping coroutine fires: the handle is closed and the   *)
(* coroutine resumed, which is an error if the coroutine is dead.          *)
WakeUp(t) ==
    /\ InEventLoop
    /\ handle[t] = "active"
    /\ closure[t] = "wake"
    /\ handle' = closed(t)
    /\ IF thread[sleeper[t]] = "dead"
       THEN fatal' = TRUE /\ UNCHANGED <<thread, running>>
       ELSE /\ thread' = [thread EXCEPT ![sleeper[t]] = "running"]
            /\ running' = sleeper[t]
            /\ UNCHANGED fatal
    /\ UNCHANGED <<repeats, closure, timerCallbacks, deferVars, stackVars, sleeper,
                   historyVars>>

(* onCheck takes the list and starts with an empty one. *)
OnCheck ==
    /\ InEventLoop
    /\ checker
    /\ onStack' = [kind |-> "check", timer |-> NoTimer]
    /\ processed' = deferredCallbacks
    /\ deferredCallbacks' = <<>>
    /\ UNCHANGED <<handleVars, timerCallbacks, checker, deferrals, threadVars,
                   fatal, historyVars>>

(* onCheck runs the next callback of its list.  The result of resuming a   *)
(* coroutine is ignored: nothing happens if it is dead.                    *)
RunDeferred ==
    /\ ~fatal
    /\ onStack.kind = "check"
    /\ running = NoThread
    /\ processed # <<>>
    /\ LET th == Head(processed).resumes IN
       IF th # NoThread /\ thread[th] = "sleeping"
       THEN thread' = [thread EXCEPT ![th] = "running"] /\ running' = th
       ELSE UNCHANGED <<thread, running>>
    /\ deferred' = Head(processed).id
    /\ processed' = Tail(processed)
    /\ UNCHANGED <<handleVars, timerCallbacks, deferVars, onStack, sleeper, fatal,
                   deferrers, fired, selfStopped>>

(* The check handle is stopped unless more has been deferred meanwhile. *)
OnCheckReturns ==
    /\ ~fatal
    /\ onStack.kind = "check"
    /\ running = NoThread
    /\ processed = <<>>
    /\ onStack' = NoCallback
    /\ checker' = (checker /\ ~hasProcessedDeferredCallbacks)
    /\ UNCHANGED <<handleVars, timerCallbacks, deferredCallbacks, deferrals,
                   processed, threadVars, fatal, historyVars>>

-----------------------------------------------------------------------------
Next ==
    \/ \E t \in Timers :
          \/ After(t) \/ NewTicker(t) \/ Stop(t) \/ Pause(t) \/ Resume(t)
          \/ ResumeAfter(t)
          \/ TimerFires(t) \/ WakeUp(t)
    \/ \E th \in Threads : Spawn(th)
    \/ Defer \/ DeferResumption \/ Finish
    \/ CallbackReturns
    \/ OnCheck \/ RunDeferred \/ OnCheckReturns

(* The loop keeps iterating and fires timers that are due, callbacks       *)
(* return, and coroutines reach their next yield or their end.             *)
Fairness ==
    /\ \A t \in Timers : SF_vars(WakeUp(t))
    /\ WF_vars(CallbackReturns)
    /\ SF_vars(OnCheck) /\ WF_vars(RunDeferred) /\ WF_vars(OnCheckReturns)
    /\ WF_vars(Finish)

Spec == Init /\ [][Next]_vars
FairSpec == Spec /\ Fairness

-----------------------------------------------------------------------------
(* Properties.                                                             *)

(* The check handle is started exactly while there is something to check   *)
(* for: a deferred callback is never stranded, whatever is deferred while  *)
(* onCheck runs, and the handle does not keep the loop alive for nothing.  *)
CheckerStartedIffNeeded ==
    checker <=> deferredCallbacks # <<>> \/ onStack.kind = "check"

(* Deferred callbacks run in the order they were deferred, each once: what *)
(* onCheck still has to run, followed by what the next check phase will    *)
(* run, are the deferrals that have not been run, in order.                *)
DeferredInOrder ==
    LET pending == processed \o deferredCallbacks IN
    /\ Len(pending) = deferrals - deferred
    /\ \A i \in DOMAIN pending : pending[i].id = deferred + i

(* timerCallbacks (and timerStartTimes) know exactly the timers of After   *)
(* and NewTicker that are not closed: Resume always finds a callback, and  *)
(* the tables do not keep closed timers alive.                             *)
RegistryMatchesHandles ==
    ~fatal => timerCallbacks = {t \in UserTimers : handle[t] # "closing"}

(* A one-shot timer that has fired is closed once its callback returned,   *)
(* whatever the callback did with it.  (One that was paused and resumed is *)
(* armed with the bare callback and does not count as one.)                *)
FiredOneshotsAreClosed ==
    \A t \in fired : onStack.timer # t => handle[t] = "closing"

(* The process is only brought down by a one-shot timer stopped from its   *)
(* own callback, or by a coroutine that used Defer(): no other order of    *)
(* calls closes a handle twice or wakes a dead coroutine.                  *)
FatalOnlyBySelfStopOrDefer == fatal => selfStopped # {} \/ deferrers # {}

(* A coroutine that sleeps in ResumeAfter, and never used Defer(), sleeps  *)
(* until its timer fires: exactly one timer is armed for it.               *)
SleepersHaveOneAlarm ==
    \A th \in Threads \ deferrers :
        LET alarms == {t \in Timers : sleeper[t] = th /\ handle[t] # "closing"} IN
        IF thread[th] = "sleeping"
        THEN \E t \in alarms : alarms = {t} /\ handle[t] = "active"
        ELSE alarms = {}

(* Whatever is deferred is eventually run, and every sleeping coroutine    *)
(* is eventually woken, unless an error ends the process.                  *)
DeferredEventuallyRun ==
    \A n \in 1..MaxDeferrals : deferrals >= n ~> (deferred >= n \/ fatal)

SleepersEventuallyWake ==
    \A th \in Threads : thread[th] = "sleeping" ~> (thread[th] # "sleeping" \/ fatal)

(* "should yield and resume the coroutine immediately after polling for    *)
(* I/O when no callback is provided" (timer-namespace.spec.lua:175): a     *)
(* coroutine that awaits its deferred resumption has yielded to it, so it  *)
(* is neither running nor asleep in ResumeAfter nor dead.                  *)
DeferYields ==
    \A i \in DOMAIN deferredCallbacks :
        LET th == deferredCallbacks[i].resumes IN
        th # NoThread => thread[th] \notin {"running", "sleeping", "dead"}
=============================================================================
