-------------------------- MODULE IntentProcedure --------------------------
(***************************************************************************)
(* The inside of Service.handleIntent, which PaymentLedger takes as one    *)
(* step: intents of concurrent requests run their pre-intent workers in    *)
(* goroutines and wait for the first error, the timeout or the end of the  *)
(* context; they run the post-intent workers, and leave a goroutine behind *)
(* that runs the commit-intent workers, with another one that collects     *)
(* their answers and never ends.  The worker lists are guarded by the      *)
(* RWMutex mIntent; Register*IntentWorker may add a worker meanwhile.      *)
(***************************************************************************)
EXTENDS Integers, FiniteSets

CONSTANTS Intent,        \* calls of handleIntent
          PreWorker,     \* registered PreIntentWorkers
          Notify,        \* the commit worker NewService registers
          Latecomer,     \* commit workers registered while intents run
          Deadline       \* does the service's context have a deadline?

CommitWorker == {Notify} \cup Latecomer

ASSUME IntentAssumption == Notify \notin Latecomer /\ Deadline \in BOOLEAN

VARIABLES
    at,             \* at[i]: where handleIntent is
    worker,         \* worker[i][w]: the goroutine of pre-intent worker w
    c,              \* c[i]: errors in the result channel
    done,           \* done[i]: is the done channel closed?
    timer,          \* timer[i]: has time.After(timeout) fired?
    goroutine,      \* goroutine[i]: the commit goroutine
    due,            \* due[i]: history, the commit workers registered when the
                    \* CommitIntentFunc was called, {} before
    running,        \* running[i]: commit workers whose answer is not received
    collecting,     \* collecting[i]: is there the goroutine that receives answers?
    invoked,        \* invoked[i]: commit workers that were started
    commitIntents,  \* the list guarded by mIntent
    readers,        \* calls that hold mIntent for reading
    register,       \* register[w]: RegisterCommitIntentWorker(w)
    ctxDone         \* is the service's context cancelled?

lock == <<commitIntents, readers, register>>
call == <<at, worker, c, done, timer>>
commit == <<goroutine, due, running, collecting, invoked>>
intentVars == <<call, commit, lock, ctxDone>>

IntentInit ==
    /\ at = [i \in Intent |-> "start"]
    /\ worker = [i \in Intent |-> [w \in PreWorker |-> "off"]]
    /\ c = [i \in Intent |-> 0]
    /\ done = [i \in Intent |-> FALSE]
    /\ timer = [i \in Intent |-> FALSE]
    /\ goroutine = [i \in Intent |-> "none"]
    /\ due = [i \in Intent |-> {}]
    /\ running = [i \in Intent |-> {}]
    /\ collecting = [i \in Intent |-> FALSE]
    /\ invoked = [i \in Intent |-> {}]
    /\ commitIntents = {Notify}
    /\ readers = {}
    /\ register = [w \in Latecomer |-> "idle"]
    /\ ctxDone = FALSE

----------------------------------------------------------------------------
(* sync.RWMutex: a waiting writer keeps new readers out.                   *)

CanRLock == \A w \in Latecomer : register[w] # "waiting"
RLock(i) == CanRLock /\ readers' = readers \cup {i}
RUnlock(i) == readers' = readers \ {i}

RegisterCommitIntentWorker(w) ==
    /\ \/ /\ register[w] = "idle"
          /\ register' = [register EXCEPT ![w] = "waiting"]
          /\ UNCHANGED commitIntents
       \/ /\ register[w] = "waiting"
          /\ readers = {}
          /\ commitIntents' = commitIntents \cup {w}
          /\ register' = [register EXCEPT ![w] = "returned"]
    /\ UNCHANGED <<call, commit, readers, ctxDone>>

----------------------------------------------------------------------------
(* The call.                                                               *)

\* The deadline of the context lies before the timeout: ErrIntentTimeout.
TooLate(i) ==
    /\ Deadline
    /\ at[i] = "start"
    /\ at' = [at EXCEPT ![i] = "refused"]
    /\ UNCHANGED <<worker, c, done, timer, commit, lock, ctxDone>>

\* The lock is taken and every pre-intent worker started.
Start(i) ==
    /\ at[i] = "start"
    /\ RLock(i)
    /\ at' = [at EXCEPT ![i] = IF PreWorker = {} THEN "post" ELSE "pre"]
    /\ worker' = [worker EXCEPT ![i] = [w \in PreWorker |-> "busy"]]
    /\ UNCHANGED <<c, done, timer, commit, commitIntents, register, ctxDone>>

\* A pre-intent worker finds an error, also one it finds just as the done
\* channel is closed, or goes: it has nothing to say, or it sees it closed.
WorkerDecides(i, w) ==
    /\ worker[i][w] = "busy"
    /\ \E next \in {"sending", "gone"} : worker' = [worker EXCEPT ![i][w] = next]
    /\ UNCHANGED <<at, c, done, timer, commit, lock, ctxDone>>

\* The error is in the channel, or in the hands of the select.
Sends(i, w) ==
    /\ worker[i][w] = "sending"
    /\ c[i] = 0
    /\ c' = [c EXCEPT ![i] = 1]
    /\ worker' = [worker EXCEPT ![i][w] = "gone"]
    /\ UNCHANGED <<at, done, timer, commit, lock, ctxDone>>
\* Mutant: the channel has no buffer, a worker has to meet the select.
WorkerSendsUnbuffered(i, w) == at[i] = "pre" /\ Sends(i, w)
\* res <- err: blocks while the channel, of capacity 1, is full.
WorkerSends(i, w) == Sends(i, w)

TimerFires(i) ==
    /\ at[i] = "pre"
    /\ ~timer[i]
    /\ timer' = [timer EXCEPT ![i] = TRUE]
    /\ UNCHANGED <<at, worker, c, done, commit, lock, ctxDone>>

\* An error in the channel, or a cancelled context: done is closed.
Refuse(i) ==
    /\ at[i] = "pre"
    /\ \/ c[i] = 1 /\ c' = [c EXCEPT ![i] = 0]
       \/ ctxDone /\ UNCHANGED c
    /\ done' = [done EXCEPT ![i] = TRUE]
    /\ at' = [at EXCEPT ![i] = "refused"]
    /\ UNCHANGED <<worker, timer, commit, commitIntents, register, ctxDone>>
\* The select takes any of its cases that is ready.
SelectRefuse(i) == Refuse(i) /\ RUnlock(i)

\* The timeout is the good case.
SelectContinue(i) ==
    /\ at[i] = "pre"
    /\ timer[i]
    /\ done' = [done EXCEPT ![i] = TRUE]
    /\ at' = [at EXCEPT ![i] = "post"]
    /\ UNCHANGED <<worker, c, timer, commit, lock, ctxDone>>

\* The post-intent workers are run (their answers are only logged), the commit
\* goroutine is started, the lock released and the intent returned.
Grant(i) ==
    /\ at[i] = "post"
    /\ goroutine' = [goroutine EXCEPT ![i] = "waiting"]
    /\ RUnlock(i)
    /\ at' = [at EXCEPT ![i] = "granted"]
    /\ UNCHANGED <<worker, c, done, timer, due, running, collecting, invoked,
                   commitIntents, register, ctxDone>>

\* The service's context is cancelled: the server shuts down.
CancelContext ==
    /\ ~ctxDone
    /\ ctxDone' = TRUE
    /\ UNCHANGED <<call, commit, lock>>

----------------------------------------------------------------------------
(* The commit goroutine.                                                   *)

\* The caller has committed its transaction and calls the CommitIntentFunc,
\* once.  The goroutine may have given up by then.
CallCommitIntent(i) ==
    /\ at[i] = "granted"
    /\ due[i] = {}
    /\ due' = [due EXCEPT ![i] = commitIntents]
    /\ UNCHANGED <<goroutine, running, collecting, invoked, call, lock, ctxDone>>

\* case <-commit, then s.mIntent.RLock(): it is inside the first case.
CommitReceived(i) ==
    /\ goroutine[i] = "waiting"
    /\ due[i] # {}
    /\ goroutine' = [goroutine EXCEPT ![i] = "locking"]
    /\ UNCHANGED <<due, running, collecting, invoked, call, lock, ctxDone>>

CommitRuns(i, workers) ==
    /\ goroutine[i] = "locking"
    /\ CanRLock
    /\ goroutine' = [goroutine EXCEPT ![i] = "running"]
    /\ running' = [running EXCEPT ![i] = workers]
    /\ collecting' = [collecting EXCEPT ![i] = TRUE]
    /\ invoked' = [invoked EXCEPT ![i] = workers]
    /\ UNCHANGED <<due, call, lock, ctxDone>>
\* Mutant: the goroutine runs the list handleIntent saw, without latecomers.
CommitStartStale(i) == CommitRuns(i, {Notify})
\* Every worker on the list is started, the lock held for that long, and the
\* goroutine that collects their answers.
CommitStart(i) == CommitRuns(i, commitIntents)

Answered(i, w) ==
    /\ goroutine[i] = "running"
    /\ collecting[i]
    /\ w \in running[i]
    /\ running' = [running EXCEPT ![i] = @ \ {w}]
    /\ goroutine' = [goroutine EXCEPT ![i] = IF running'[i] = {} THEN "ended" ELSE "running"]
    /\ UNCHANGED <<due, invoked, call, lock, ctxDone>>
\* Mutant: the goroutine that collects returns with an error it receives.
CommitAnswerOnce(i, w) ==
    /\ Answered(i, w)
    /\ \E goesOn \in BOOLEAN : collecting' = [collecting EXCEPT ![i] = goesOn]
\* A worker's answer meets the collecting goroutine on errC, which has no buffer;
\* the last one releases wg.Wait().  Nobody closes errC: the collecting goroutine
\* receives again, from nobody, for as long as the process runs.
CommitAnswer(i, w) == Answered(i, w) /\ UNCHANGED collecting

\* case <-time.After(commitIntentTimeout).
CommitTimeout(i) ==
    /\ goroutine[i] = "waiting"
    /\ goroutine' = [goroutine EXCEPT ![i] = "expired"]
    /\ UNCHANGED <<due, running, collecting, invoked, call, lock, ctxDone>>

----------------------------------------------------------------------------
CallStep(i) == \/ TooLate(i) \/ Start(i) \/ TimerFires(i)
               \/ SelectRefuse(i) \/ SelectContinue(i) \/ Grant(i)

GoroutineStep(i) == \/ CommitReceived(i) \/ CommitStart(i) \/ CommitTimeout(i)
                    \/ \E w \in CommitWorker : CommitAnswer(i, w)

IntentNext ==
    \/ CancelContext
    \/ \E w \in Latecomer : RegisterCommitIntentWorker(w)
    \/ \E i \in Intent :
          \/ CallStep(i) \/ GoroutineStep(i) \/ CallCommitIntent(i)
          \/ \E w \in PreWorker : WorkerDecides(i, w) \/ WorkerSends(i, w)

IntentSpec == IntentInit /\ [][IntentNext]_intentVars

\* Timers fire, runnable goroutines are scheduled, a select with a ready case
\* proceeds, a lock that stays free is taken.  A pre-intent worker owes nothing
\* until done is closed, which it has to watch; a commit worker answers, since
\* its queries and its POST return or fail.
IntentFairness ==
    /\ \A i \in Intent :
          /\ WF_intentVars(CallStep(i))
          /\ WF_intentVars(GoroutineStep(i))
          /\ \A w \in PreWorker : WF_intentVars(done[i] /\ WorkerDecides(i, w)) /\ WF_intentVars(WorkerSends(i, w))
    /\ \A w \in Latecomer : WF_intentVars(RegisterCommitIntentWorker(w))
IntentFairSpec == IntentSpec /\ IntentFairness

----------------------------------------------------------------------------
(* Properties.                                                             *)

IntentTypeOK ==
    /\ at \in [Intent -> {"start", "pre", "post", "granted", "refused"}]
    /\ worker \in [Intent -> [PreWorker -> {"off", "busy", "sending", "gone"}]]
    /\ c \in [Intent -> 0..1]
    /\ done \in [Intent -> BOOLEAN]
    /\ timer \in [Intent -> BOOLEAN]
    /\ goroutine \in [Intent -> {"none", "waiting", "locking", "running", "ended", "expired"}]
    /\ due \in [Intent -> SUBSET CommitWorker]
    /\ running \in [Intent -> SUBSET CommitWorker]
    /\ collecting \in [Intent -> BOOLEAN]
    /\ invoked \in [Intent -> SUBSET CommitWorker]
    /\ commitIntents \subseteq CommitWorker
    /\ readers \subseteq Intent
    /\ register \in [Latecomer -> {"idle", "waiting", "returned"}]
    /\ ctxDone \in BOOLEAN

\* Every commit worker that was registered when the CommitIntentFunc was called
\* is run, unless the goroutine gave up: one registered after the intent was
\* granted too (handleIntent reads the list again, under the lock).
RegisteredAreRun ==
    \A i \in Intent : goroutine[i] \in {"running", "ended"} => due[i] \subseteq invoked[i]

\* Nobody but the collecting goroutine, which every committed intent leaves behind
\* for good, is left waiting.  handleIntent returns once it has started its
\* workers, also when none of them answers and a writer waits for the lock; a worker
\* can be registered at any time, since no path through handleIntent, refused or
\* granted, keeps the lock; no pre-intent worker whose error loses against the
\* timeout or the context stays on the result channel, unless another one's late
\* error fills it; the commit goroutine ends, called or not, and with it every
\* commit worker has got rid of its answer (service.go:418-441, 482-501).
OnlyCollectorsLeft ==
    /\ \A i \in Intent : at[i] = "pre" ~> at[i] \in {"granted", "refused"}
    /\ \A w \in Latecomer : register[w] = "waiting" ~> register[w] = "returned"
    /\ \A i \in Intent, w \in PreWorker :
          worker[i][w] = "busy" ~> (worker[i][w] = "gone" \/ c[i] = 1)
    /\ \A i \in Intent : goroutine[i] = "waiting" ~>
          (goroutine[i] \in {"ended", "expired"} /\ running[i] = {})
=============================================================================
