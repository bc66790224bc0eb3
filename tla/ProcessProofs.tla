---------------------------- MODULE ProcessProofs ----------------------------
(***************************************************************************)
(* Proofs about the goroutines of the daemon's processes: of the graceful  *)
(* restart and shutdown (GracefulServer), for any number of connections,   *)
(* restarts, signals and failures, and of the intent procedure             *)
(* (IntentProcedure), for any number of intents, pre-intent workers and    *)
(* late registrations, with and without a deadline.                        *)
(***************************************************************************)
EXTENDS GracefulServer, IntentProcedure, FiniteSetTheorems, TLAPS

-----------------------------------------------------------------------------
(* The graceful server *)


\* Until a process waits for signals none has reached it; a process that has not
\* begun to serve has no listener and no background task.
PlaceInv == \A p \in Procs :
    /\ main[p] \in {"none", "starting", "serving", "handover", "ready"} =>
           grace[p] = "none" /\ shut[p] = "none" /\ ch[p] = << >> /\ ~sigs[p]
    /\ main[p] \in {"none", "starting"} => acc[p] = "off" /\ ~closed[p] /\ background[p] = "none"
    /\ main[p] \in {"serving", "handover", "ready"} \/ shut[p] # "none" => background[p] # "none"
    /\ sigs[p] => shut[p] = "armed"
FirstInv == parent[1] = Init1 /\ main[1] \notin {"none", "handover"}

\* Before the first process serves there is no other, and no connection.
BeforeInv == background[1] = "none" =>
    /\ \A p \in Procs : ~fd[p] /\ (p # 1 => main[p] = "none")
    /\ \A k \in Conns : conn[k].st # "queued"

\* The signals in a channel are all SIGUSR2.
OnlyRestarts(signals) == \A i \in DOMAIN signals : signals[i] = "USR2"

Accepting(p) == acc[p] \in {"checked", "accepted"} /\ ~closed[p] /\ fd[p]

\* A process that is through with the hand-over and has not been sent SIGTERM.
Untold(p) == /\ main[p] \in {"ready", "waiting", "returned"}
             /\ Accepting(p)
             /\ grace[p] \in {"none", "loop", "failed"} /\ shut[p] \in {"none", "armed"} /\ ~sigs[p]
             /\ OnlyRestarts(ch[p])

\* Whoever has been sent SIGTERM was sent it by a child that came through.
ServingInv == undisturbed =>
    /\ \A p \in Procs : main[p] \in {"serving", "handover", "ready"} => Accepting(p)
    /\ background[1] # "none" => main[1] = "serving" \/ \E p \in Procs : Untold(p)

\* The Accept loop has one connection at most in its hands; a process that has
\* drained has none and takes none.
Served(p) == {k \in Conns : conn[k] = Of(p, "served")}
ConnInv ==
    /\ \A p \in Procs, k \in Conns : conn[k] = Of(p, "accepted") => acc[p] = "accepted"
    /\ \A p \in Procs, j, k \in Conns : conn[j] = Of(p, "accepted") /\ conn[k] = Of(p, "accepted") => j = k
    /\ \A p \in Procs, k \in Conns : conn[k] = Of(p, "dropped") => main[p] = "exited"
    /\ \A p \in Procs : IsFiniteSet(Served(p))
DrainedInv == \A p \in Procs : grace[p] = "done" =>
    /\ acc[p] \notin {"checked", "accepted"}
    /\ \A k \in Conns : conn[k] # Of(p, "served") /\ conn[k] # Of(p, "dropped")
BackgroundInv == \A p \in Procs : shut[p] = "closed" => background[p] # "added"

\* No connection that waited in the queue was reset.
NothingRefused == undisturbed => \A k \in Conns : conn[k].st # "refused"

ServerInv == /\ PlaceInv /\ FirstInv /\ BeforeInv /\ ServingInv
             /\ ConnInv /\ DrainedInv /\ BackgroundInv /\ NothingRefused

-----------------------------------------------------------------------------
\* What a process's end and the close of its socket do to the types.
LEMMA DieTypes ==
    ASSUME TypeOK, NEW p \in Procs
    PROVE  /\ Released(p) \in [Conns -> ConnState]
           /\ Die(p) => main' \in [Procs -> {"none", "starting", "serving", "handover", "ready",
                                             "waiting", "returned", "exited"}]
                        /\ parent' \in [Procs -> Procs \cup {Init1}]
                        /\ ch' \in [Procs -> Seq({"TERM", "USR2"})]
                        /\ (\A q \in Procs : Len(ch'[q]) <= 2)
                        /\ sigs' \in [Procs -> BOOLEAN] /\ closed' \in [Procs -> BOOLEAN]
                        /\ fd' \in [Procs -> BOOLEAN]
                        /\ acc' \in [Procs -> {"off", "checked", "accepted", "stopped", "failing",
                                               "failed"}]
                        /\ conn' \in [Conns -> ConnState]
<1>1. Unowned("refused") \in ConnState /\ Of(p, "dropped") \in ConnState
  BY DEF Unowned, Of, ConnState, Nobody
<1>2. Released(p) \in [Conns -> ConnState]
  BY <1>1 DEF TypeOK, Released
<1>3. ASSUME Die(p) PROVE main' \in [Procs -> {"none", "starting", "serving", "handover", "ready",
                                               "waiting", "returned", "exited"}]
  BY <1>3 DEF TypeOK, Die
<1>4. ASSUME Die(p) PROVE parent' \in [Procs -> Procs \cup {Init1}]
  BY <1>4 DEF TypeOK, Die
<1>5. ASSUME Die(p) PROVE /\ ch' \in [Procs -> Seq({"TERM", "USR2"})]
                          /\ \A q \in Procs : Len(ch'[q]) <= 2
  BY <1>5 DEF TypeOK, Die
<1>6. ASSUME Die(p) PROVE /\ sigs' \in [Procs -> BOOLEAN] /\ closed' \in [Procs -> BOOLEAN]
                          /\ fd' \in [Procs -> BOOLEAN]
  BY <1>6 DEF TypeOK, Die
<1>7. ASSUME Die(p) PROVE acc' \in [Procs -> {"off", "checked", "accepted", "stopped", "failing",
                                              "failed"}]
  BY <1>7 DEF TypeOK, Die
<1>8. ASSUME Die(p) PROVE conn' \in [Conns -> ConnState]
  BY <1>1, <1>2, <1>8 DEF TypeOK, Die
<1> QED
  BY <1>2, <1>3, <1>4, <1>5, <1>6, <1>7, <1>8

\* The channels grace.Wait and Server.wait read, when SIGTERM reaches q.
LEMMA NotifiedTypes ==
    ASSUME TypeOK, NEW q \in Procs \cup {Init1}, Notified(q)
    PROVE  /\ ch' \in [Procs -> Seq({"TERM", "USR2"})] /\ \A p \in Procs : Len(ch'[p]) <= 2
           /\ sigs' \in [Procs -> BOOLEAN]
<1>1. CASE q \in Procs
  <2> DEFINE n == IF grace[q] = "loop" /\ Len(ch[q]) < 2 THEN Append(ch[q], "TERM") ELSE ch[q]
  <2>1. ch' = [ch EXCEPT ![q] = n] /\ sigs' = [sigs EXCEPT ![q] = shut[q] = "armed"]
    BY DEF Notified
  <2>2. ch[q] \in Seq({"TERM", "USR2"}) /\ Len(ch[q]) <= 2
    BY <1>1 DEF TypeOK
  <2>3. n \in Seq({"TERM", "USR2"}) /\ Len(n) <= 2
    BY <2>2
  <2>4. (shut[q] = "armed") \in BOOLEAN
    OBVIOUS
  <2> HIDE DEF n
  <2>5. sigs' \in [Procs -> BOOLEAN]
    BY <2>1, <2>4, Zenon DEF TypeOK
  <2> QED
    BY <2>1, <2>3, <2>5 DEF TypeOK
<1>2. CASE q \notin Procs
  <2>1. ch' = ch /\ sigs' = sigs
    BY <1>2 DEF Notified, TypeOK
  <2> QED
    BY <2>1 DEF TypeOK
<1> QED
  BY <1>1, <1>2

\* Every step keeps the types.
LEMMA ServerTypeStep == TypeOK /\ [Next]_vars => TypeOK'
<1> SUFFICES ASSUME TypeOK, [Next]_vars PROVE TypeOK'
  OBVIOUS
<1>0. events < MaxEvents => events + 1 \in 0..MaxEvents
  BY ServerAssumption DEF TypeOK
<1>1. CASE UNCHANGED vars
  BY <1>1 DEF vars, procVars, listenVars, TypeOK
<1>2. ASSUME NEW p \in Procs, ProcessStep(p) PROVE TypeOK'
  <2>1. CASE Startup(p)
    BY <2>1 DEF Startup, TypeOK
  <2>2. CASE StartFail(p) \/ Exit(p)
    <3>1. Die(p) /\ UNCHANGED <<events, undisturbed>>
      BY <2>2 DEF StartFail, Exit
    <3>2. UNCHANGED <<grace, shut, background>>
      BY <3>1 DEF Die
    <3> QED
      BY <3>1, <3>2, DieTypes DEF TypeOK
  <2>3. CASE Handover(p) \/ Arm(p) \/ WaitReturns(p)
    <3>1. PICK place \in {"ready", "handover", "waiting", "returned"} : main' = [main EXCEPT ![p] = place]
      BY <2>3 DEF Handover, Arm, WaitReturns
    <3>2. main' \in [Procs -> {"none", "starting", "serving", "handover", "ready",
                               "waiting", "returned", "exited"}]
      BY <3>1 DEF TypeOK
    <3>3. shut' \in [Procs -> {"none", "armed", "cancelled", "closed", "timedout"}]
      BY <2>3 DEF Handover, Arm, WaitReturns, TypeOK
    <3> QED
      BY <2>3, <3>2, <3>3 DEF Handover, Arm, WaitReturns, listenVars, TypeOK
  <2>4. CASE CloseParent(p)
    <3>1. parent[p] \in Procs \cup {Init1} /\ Notified(parent[p])
      BY <2>4 DEF CloseParent, TypeOK
    <3> QED
      BY <2>4, <3>1, NotifiedTypes DEF CloseParent, listenVars, TypeOK
  <2>5. CASE CloseParentGone(p)
    <3>1. CASE Die(p)
      BY <2>5, <3>1, DieTypes DEF CloseParentGone, Die, TypeOK
    <3> QED
      BY <2>5, <3>1 DEF CloseParentGone, listenVars, TypeOK
  <2> QED
    BY <1>2, <2>1, <2>2, <2>3, <2>4, <2>5 DEF ProcessStep
<1>3. ASSUME NEW p \in Procs, GraceStep(p) PROVE TypeOK'
  <2>1. ASSUME NEW s \in {"TERM", "USR2"}, Reads(p, s)
        PROVE  ch' \in [Procs -> Seq({"TERM", "USR2"})] /\ \A q \in Procs : Len(ch'[q]) <= 2
    <3>1. ch[p] \in Seq({"TERM", "USR2"}) /\ Len(ch[p]) <= 2 /\ ch[p] # << >>
      BY <2>1 DEF Reads, TypeOK
    <3>2. Tail(ch[p]) \in Seq({"TERM", "USR2"}) /\ Len(Tail(ch[p])) <= 2
      BY <3>1
    <3> QED
      BY <2>1, <3>2 DEF Reads, TypeOK
  <2>2. CASE GraceNotify(p) \/ Drained(p)
    BY <2>2 DEF GraceNotify, Drained, listenVars, TypeOK
  <2>3. CASE Restart(p)
    <3>1. PICK n \in Procs : /\ main' = [main EXCEPT ![n] = "starting"]
                             /\ parent' = [parent EXCEPT ![n] = p]
                             /\ fd' = [fd EXCEPT ![n] = TRUE]
      BY <2>3 DEF Restart
    <3>2. main' \in [Procs -> {"none", "starting", "serving", "handover", "ready",
                               "waiting", "returned", "exited"}]
      BY <3>1 DEF TypeOK
    <3>3. parent' \in [Procs -> Procs \cup {Init1}] /\ fd' \in [Procs -> BOOLEAN]
      BY <3>1 DEF TypeOK
    <3> QED
      BY <2>1, <2>3, <3>2, <3>3 DEF Restart, TypeOK
  <2>4. CASE RestartFail(p)
    BY <2>1, <2>4 DEF RestartFail, listenVars, TypeOK
  <2>5. CASE Term(p)
    BY <2>1, <2>5 DEF Term, TypeOK
  <2>6. CASE CloseSocket(p)
    BY <2>6, DieTypes DEF CloseSocket, TypeOK
  <2> QED
    BY <1>3, <2>2, <2>3, <2>4, <2>5, <2>6 DEF GraceStep
<1>4. ASSUME NEW p \in Procs, ShutdownStep(p) \/ BackgroundStep(p) PROVE TypeOK'
  <2>1. CASE Shutdown(p)
    BY <2>1 DEF Shutdown, listenVars, TypeOK
  <2>2. CASE WaitDone(p) \/ WaitTimeout(p)
    <3>1. shut' = [shut EXCEPT ![p] = "closed"] \/ shut' = [shut EXCEPT ![p] = "timedout"]
      BY <2>2 DEF WaitDone, WaitTimeout
    <3>2. shut' \in [Procs -> {"none", "armed", "cancelled", "closed", "timedout"}]
      BY <3>1 DEF TypeOK
    <3> QED
      BY <2>2, <3>2 DEF WaitDone, WaitTimeout, listenVars, TypeOK
  <2>3. CASE BackgroundAdd(p) \/ BackgroundDone(p)
    <3>1. background' = [background EXCEPT ![p] = "late"]
          \/ background' = [background EXCEPT ![p] = "done"]
      BY <2>3 DEF BackgroundAdd, BackgroundDone
    <3>2. background' \in [Procs -> {"none", "spawned", "added", "late", "done"}]
      BY <3>1 DEF TypeOK
    <3> QED
      BY <2>3, <3>2 DEF BackgroundAdd, BackgroundDone, listenVars, TypeOK
  <2> QED
    BY <1>4, <2>1, <2>2, <2>3 DEF ShutdownStep, BackgroundStep
<1>5. ASSUME NEW p \in Procs, AcceptStep(p) PROVE TypeOK'
  <2>1. CASE AcceptClosed(p) \/ AcceptErrorSent(p)
    <3>1. acc' = [acc EXCEPT ![p] = "stopped"] \/ acc' = [acc EXCEPT ![p] = "failed"]
      BY <2>1 DEF AcceptClosed, AcceptErrorSent
    <3>2. acc' \in [Procs -> {"off", "checked", "accepted", "stopped", "failing", "failed"}]
      BY <3>1 DEF TypeOK
    <3> QED
      BY <2>1, <3>2 DEF AcceptClosed, AcceptErrorSent, procVars, TypeOK
  <2>2. ASSUME NEW k \in Conns, Accept(p, k) PROVE TypeOK'
    BY <2>2 DEF Accept, procVars, TypeOK, Of, ConnState
  <2>3. ASSUME NEW k \in Conns, AcceptReturn(p, k) PROVE TypeOK'
    <3>1. conn' \in [Conns -> ConnState]
      BY <2>3, DieTypes DEF AcceptReturn, TypeOK, Of, ConnState
    <3>2. acc' \in [Procs -> {"off", "checked", "accepted", "stopped", "failing", "failed"}]
      BY <2>3 DEF AcceptReturn, TypeOK
    <3>3. fd' \in [Procs -> BOOLEAN]
      BY <2>3 DEF AcceptReturn, TypeOK
    <3> QED
      BY <2>3, <3>1, <3>2, <3>3 DEF AcceptReturn, procVars, TypeOK
  <2> QED
    BY <1>5, <2>1, <2>2, <2>3 DEF AcceptStep
<1>6. ASSUME NEW p \in Procs, AcceptError(p) PROVE TypeOK'
  <2>1. events' \in 0..MaxEvents
    BY <1>0, <1>6 DEF AcceptError
  <2> QED
    BY <1>6, <2>1, DieTypes DEF AcceptError, procVars, TypeOK
<1>7. ASSUME NEW p \in Procs, SendTerm(p) PROVE TypeOK'
  <2>1. events' \in 0..MaxEvents /\ undisturbed' \in BOOLEAN
    BY <1>0, <1>7 DEF SendTerm
  <2>2. CASE shut[p] = "none"
    BY <1>7, <2>1, <2>2, DieTypes DEF SendTerm, Die, TypeOK
  <2>3. CASE shut[p] # "none"
    BY <1>7, <2>1, <2>3, NotifiedTypes DEF SendTerm, listenVars, TypeOK
  <2> QED
    BY <2>2, <2>3
<1>8. ASSUME NEW p \in Procs, SendUsr2(p) PROVE TypeOK'
  <2>1. ch[p] \in Seq({"TERM", "USR2"}) /\ Len(ch[p]) <= 1
    BY <1>8 DEF SendUsr2, TypeOK
  <2>2. Append(ch[p], "USR2") \in Seq({"TERM", "USR2"}) /\ Len(Append(ch[p], "USR2")) <= 2
    BY <2>1
  <2>3. ch' \in [Procs -> Seq({"TERM", "USR2"})] /\ \A q \in Procs : Len(ch'[q]) <= 2
    BY <1>8, <2>2 DEF SendUsr2, TypeOK
  <2>4. events' \in 0..MaxEvents
    BY <1>0, <1>8 DEF SendUsr2
  <2> QED
    BY <1>8, <2>3, <2>4 DEF SendUsr2, listenVars, TypeOK
<1>9. ASSUME NEW k \in Conns, Connect(k) \/ CloseConn(k) PROVE TypeOK'
  <2>1. Unowned("queued") \in ConnState /\ Unowned("none") \in ConnState
    BY DEF Unowned, Of, ConnState, Nobody
  <2> QED
    BY <1>9, <2>1 DEF Connect, CloseConn, procVars, TypeOK
<1> QED
  BY <1>1, <1>2, <1>3, <1>4, <1>5, <1>6, <1>7, <1>8, <1>9 DEF Next

\* The variables have their types in the first state.
LEMMA ServerTypeInit == Init => TypeOK
<1> SUFFICES ASSUME Init PROVE TypeOK
  OBVIOUS
<1>1. ch \in [Procs -> Seq({"TERM", "USR2"})] /\ \A p \in Procs : Len(ch[p]) <= 2
  BY DEF Init
<1>2. events \in 0..MaxEvents /\ undisturbed \in BOOLEAN
  BY ServerAssumption DEF Init
<1>3. conn \in [Conns -> ConnState]
  BY DEF Init, Unowned, Of, ConnState, Nobody
<1> QED
  BY <1>1, <1>2, <1>3 DEF Init, TypeOK

\* Processes, connections and channels have their types, whatever the number of
\* connections and of events.
THEOREM ServerTypeCorrect == Spec => []TypeOK
<1> QED
  BY ServerTypeInit, ServerTypeStep, PTL DEF Spec

\* The first process is one of Procs.
LEMMA FirstIsProcess == 1 \in Procs /\ Init1 \notin Procs
BY ServerAssumption DEF Procs, Init1

\* Every step keeps PlaceInv.
LEMMA PlaceStep == TypeOK /\ PlaceInv /\ [Next]_vars => PlaceInv'
<1> SUFFICES ASSUME TypeOK, PlaceInv, [Next]_vars PROVE PlaceInv'
  OBVIOUS
<1> USE DEF PlaceInv
<1>1. CASE UNCHANGED vars
  BY <1>1 DEF vars, procVars, listenVars
<1>2. ASSUME NEW p \in Procs, ProcessStep(p) PROVE PlaceInv'
  <2>1. CASE Startup(p) \/ Handover(p) \/ Arm(p) \/ WaitReturns(p)
    BY <2>1 DEF Startup, Handover, Arm, WaitReturns, listenVars, TypeOK
  <2>2. CASE StartFail(p) \/ Exit(p)
    BY <2>2 DEF StartFail, Exit, Die, TypeOK
  <2>3. CASE CloseParent(p)
    BY <2>3 DEF CloseParent, Notified, listenVars, TypeOK
  <2>4. CASE CloseParentGone(p)
    BY <2>4 DEF CloseParentGone, Die, listenVars, TypeOK
  <2> QED
    BY <1>2, <2>1, <2>2, <2>3, <2>4 DEF ProcessStep
<1>3. ASSUME NEW p \in Procs, GraceStep(p) PROVE PlaceInv'
  <2>1. CASE GraceNotify(p) \/ Drained(p) \/ CloseSocket(p)
    BY <2>1 DEF GraceNotify, Drained, CloseSocket, listenVars, TypeOK
  <2>2. CASE Restart(p)
    BY <2>2 DEF Restart, Reads, TypeOK
  <2>3. CASE RestartFail(p) \/ Term(p)
    BY <2>3 DEF RestartFail, Term, Reads, listenVars, TypeOK
  <2> QED
    BY <1>3, <2>1, <2>2, <2>3 DEF GraceStep
<1>4. ASSUME NEW p \in Procs, ShutdownStep(p) \/ BackgroundStep(p) PROVE PlaceInv'
  BY <1>4 DEF ShutdownStep, BackgroundStep, Shutdown, WaitDone, WaitTimeout, BackgroundAdd,
              BackgroundDone, listenVars, TypeOK
<1>5. ASSUME NEW p \in Procs, AcceptStep(p) \/ AcceptError(p) PROVE PlaceInv'
  BY <1>5 DEF AcceptStep, AcceptClosed, AcceptErrorSent, Accept, AcceptReturn, AcceptError, Running,
              procVars, TypeOK
<1>6. ASSUME NEW p \in Procs, SendTerm(p) PROVE PlaceInv'
  <2>1. CASE shut[p] = "none"
    BY <1>6, <2>1 DEF SendTerm, Die, TypeOK
  <2>2. CASE shut[p] # "none"
    BY <1>6, <2>2 DEF SendTerm, Notified, listenVars, TypeOK
  <2> QED
    BY <2>1, <2>2
<1>7. ASSUME NEW p \in Procs, SendUsr2(p) PROVE PlaceInv'
  BY <1>7 DEF SendUsr2, listenVars, TypeOK
<1>8. ASSUME NEW k \in Conns, Connect(k) \/ CloseConn(k) PROVE PlaceInv'
  BY <1>8 DEF Connect, CloseConn, procVars
<1> QED
  BY <1>1, <1>2, <1>3, <1>4, <1>5, <1>6, <1>7, <1>8 DEF Next

\* The first process never has another for its parent.
LEMMA FirstStep == TypeOK /\ FirstInv /\ [Next]_vars => FirstInv'
<1> SUFFICES ASSUME TypeOK, FirstInv, [Next]_vars PROVE FirstInv'
  OBVIOUS
<1>0. 1 \in Procs
  BY FirstIsProcess
<1>d. ASSUME NEW p \in Procs, Die(p) PROVE FirstInv'
  BY <1>0, <1>d DEF Die, FirstInv, TypeOK
<1>1. CASE UNCHANGED <<main, parent>>
  BY <1>1 DEF FirstInv
<1>2. ASSUME NEW p \in Procs, ProcessStep(p) PROVE FirstInv'
  <2>1. CASE Startup(p) \/ Handover(p) \/ Arm(p) \/ WaitReturns(p) \/ CloseParent(p)
    BY <1>0, <2>1 DEF Startup, Handover, Orphan, Arm, WaitReturns, CloseParent, FirstInv, TypeOK
  <2>2. CASE CloseParentGone(p) /\ ~Die(p)
    BY <1>0, <2>2 DEF CloseParentGone, FirstInv, TypeOK
  <2> QED
    BY <1>2, <1>d, <2>1, <2>2 DEF ProcessStep, StartFail, Exit
<1>3. ASSUME NEW p \in Procs, Restart(p) PROVE FirstInv'
  BY <1>0, <1>3 DEF Restart, FirstInv, TypeOK
<1>4. ASSUME NEW p \in Procs, SendTerm(p) PROVE FirstInv'
  BY <1>d, <1>1, <1>4 DEF SendTerm
<1>5. ASSUME NEW p \in Procs, GraceStep(p), ~Restart(p) PROVE UNCHANGED <<main, parent>>
  BY <1>5 DEF GraceStep, GraceNotify, RestartFail, Term, CloseSocket, Drained
<1>6. ASSUME NEW p \in Procs, ShutdownStep(p) \/ BackgroundStep(p) \/ AcceptStep(p)
                              \/ AcceptError(p) \/ SendUsr2(p)
      PROVE UNCHANGED <<main, parent>>
  BY <1>6 DEF ShutdownStep, BackgroundStep, Shutdown, WaitDone, WaitTimeout, BackgroundAdd,
              BackgroundDone, AcceptStep, AcceptClosed, AcceptErrorSent, Accept, AcceptReturn,
              AcceptError, SendUsr2, procVars
<1>7. ASSUME NEW k \in Conns, Connect(k) \/ CloseConn(k) PROVE UNCHANGED <<main, parent>>
  BY <1>7 DEF Connect, CloseConn, procVars
<1> QED
  BY <1>1, <1>2, <1>3, <1>4, <1>5, <1>6, <1>7 DEF Next, vars, procVars

\* A background task once started is never forgotten.
LEMMA BackgroundStays ==
    TypeOK /\ PlaceInv /\ [Next]_vars =>
        \A p \in Procs : background'[p] = "none" => background[p] = "none"
<1> SUFFICES ASSUME TypeOK, PlaceInv, [Next]_vars
             PROVE  \A p \in Procs : background'[p] = "none" => background[p] = "none"
  OBVIOUS
<1>1. CASE UNCHANGED background
  BY <1>1
<1>2. ASSUME NEW q \in Procs, Startup(q) \/ Shutdown(q) \/ BackgroundStep(q)
      PROVE  \A p \in Procs : background'[p] = "none" => background[p] = "none"
  BY <1>2 DEF Startup, Shutdown, BackgroundStep, BackgroundAdd, BackgroundDone, TypeOK
<1>3. ASSUME NEW q \in Procs, ProcessStep(q), ~Startup(q) PROVE UNCHANGED background
  BY <1>3 DEF ProcessStep, StartFail, Handover, CloseParent, CloseParentGone, Arm, WaitReturns, Exit, Die
<1>4. ASSUME NEW q \in Procs, GraceStep(q) PROVE UNCHANGED background
  BY <1>4 DEF GraceStep, GraceNotify, Restart, RestartFail, Term, CloseSocket, Drained
<1>5. ASSUME NEW q \in Procs, ShutdownStep(q), ~Shutdown(q) PROVE UNCHANGED background
  BY <1>5 DEF ShutdownStep, WaitDone, WaitTimeout
<1>6. ASSUME NEW q \in Procs, AcceptStep(q) \/ AcceptError(q) \/ SendTerm(q) \/ SendUsr2(q)
      PROVE  UNCHANGED background
  BY <1>6 DEF AcceptStep, AcceptClosed, AcceptErrorSent, Accept, AcceptReturn, AcceptError, SendTerm,
              Die, SendUsr2, procVars
<1>7. ASSUME NEW k \in Conns, Connect(k) \/ CloseConn(k) PROVE UNCHANGED background
  BY <1>7 DEF Connect, CloseConn, procVars
<1> QED
  BY <1>1, <1>2, <1>3, <1>4, <1>5, <1>6, <1>7 DEF Next, vars, procVars

\* Before the first process serves, nothing begins anything.
LEMMA BeforeStep == TypeOK /\ PlaceInv /\ BeforeInv /\ [Next]_vars => BeforeInv'
<1> SUFFICES ASSUME TypeOK, PlaceInv, BeforeInv, [Next]_vars, background'[1] = "none"
             PROVE  /\ \A p \in Procs : ~fd'[p] /\ (p # 1 => main'[p] = "none")
                    /\ \A k \in Conns : conn'[k].st # "queued"
  BY DEF BeforeInv
<1> DEFINE Goal == /\ \A p \in Procs : ~fd'[p] /\ (p # 1 => main'[p] = "none")
                   /\ \A k \in Conns : conn'[k].st # "queued"
<1>0. /\ \A p \in Procs : ~fd[p] /\ (p # 1 => main[p] = "none")
      /\ \A k \in Conns : conn[k].st # "queued"
  BY BackgroundStays, FirstIsProcess DEF BeforeInv
<1>r. ASSUME NEW p \in Procs PROVE Released(p) = conn
  BY <1>0 DEF Released, TypeOK
<1>d. ASSUME NEW p \in Procs, Die(p), Running(p) PROVE Goal
  BY <1>0, <1>r, <1>d DEF Die, Running, Of, TypeOK
<1>1. CASE UNCHANGED <<main, fd, conn>>
  BY <1>0, <1>1
<1>2. ASSUME NEW p \in Procs, ProcessStep(p) PROVE Goal
  <2>0. Running(p) /\ p = 1
    BY <1>0, <1>2 DEF ProcessStep, Startup, StartFail, Handover, CloseParent, CloseParentGone, Arm,
                      WaitReturns, Exit, Running
  <2>1. ~Startup(p)
    BY <2>0 DEF Startup, TypeOK
  <2>2. CASE Handover(p) \/ CloseParent(p) \/ Arm(p) \/ WaitReturns(p)
    BY <1>0, <2>0, <2>2 DEF Handover, CloseParent, Arm, WaitReturns, listenVars, TypeOK
  <2>3. CASE CloseParentGone(p) /\ ~Die(p)
    BY <1>0, <2>0, <2>3 DEF CloseParentGone, listenVars, TypeOK
  <2> QED
    BY <1>2, <1>d, <2>0, <2>1, <2>2, <2>3 DEF ProcessStep, StartFail, Exit
<1>3. ASSUME NEW p \in Procs, GraceStep(p) PROVE Goal
  <2>1. ~Restart(p)
    BY <1>0 DEF Restart
  <2>2. CASE CloseSocket(p)
    BY <1>0, <1>r, <2>2 DEF CloseSocket, TypeOK
  <2> QED
    BY <1>1, <1>3, <2>1, <2>2 DEF GraceStep, GraceNotify, RestartFail, Term, Drained, listenVars
<1>4. ASSUME NEW p \in Procs, ShutdownStep(p) \/ BackgroundStep(p) \/ SendUsr2(p)
      PROVE UNCHANGED <<main, fd, conn>>
  BY <1>4 DEF ShutdownStep, BackgroundStep, Shutdown, WaitDone, WaitTimeout, BackgroundAdd,
              BackgroundDone, SendUsr2, listenVars
<1>5. ASSUME NEW p \in Procs, AcceptStep(p) \/ AcceptError(p) PROVE Goal
  <2>1. ~AcceptError(p) /\ \A k \in Conns : ~Accept(p, k)
    BY <1>0 DEF AcceptError, Accept
  <2>2. ASSUME NEW k \in Conns, AcceptReturn(p, k) PROVE Goal
    BY <1>0, <1>r, <2>2 DEF AcceptReturn, Of, procVars, TypeOK
  <2> QED
    BY <1>1, <1>5, <2>1, <2>2 DEF AcceptStep, AcceptClosed, AcceptErrorSent, procVars
<1>6. ASSUME NEW p \in Procs, SendTerm(p) PROVE Goal
  BY <1>1, <1>6, <1>d DEF SendTerm, listenVars
<1>7. ASSUME NEW k \in Conns, Connect(k) \/ CloseConn(k) PROVE Goal
  <2>1. ~Connect(k)
    BY <1>0 DEF Connect
  <2>2. conn' = [conn EXCEPT ![k] = Unowned("none")] /\ main' = main /\ fd' = fd
    BY <1>7, <2>1 DEF CloseConn, procVars
  <2>3. Unowned("none").st # "queued"
    BY DEF Unowned, Of
  <2> QED
    BY <1>0, <2>2, <2>3 DEF TypeOK
<1> QED
  BY <1>1, <1>2, <1>3, <1>4, <1>5, <1>6, <1>7 DEF Next, vars, procVars, listenVars

\* Shutdown's wait ends only without a counted background task.
LEMMA BackgroundInvStep == TypeOK /\ BackgroundInv /\ [Next]_vars => BackgroundInv'
<1> SUFFICES ASSUME TypeOK, BackgroundInv, [Next]_vars PROVE BackgroundInv'
  OBVIOUS
<1>1. CASE UNCHANGED <<shut, background>>
  BY <1>1 DEF BackgroundInv
<1>2. ASSUME NEW q \in Procs, Startup(q) \/ Arm(q) \/ ShutdownStep(q) \/ BackgroundStep(q)
      PROVE  BackgroundInv'
  BY <1>2 DEF Startup, Arm, ShutdownStep, Shutdown, WaitDone, WaitTimeout, BackgroundStep,
              BackgroundAdd, BackgroundDone, BackgroundInv, TypeOK
<1>3. ASSUME NEW q \in Procs, ProcessStep(q), ~Startup(q), ~Arm(q) PROVE UNCHANGED <<shut, background>>
  BY <1>3 DEF ProcessStep, StartFail, Handover, CloseParent, CloseParentGone, WaitReturns, Exit, Die
<1>4. ASSUME NEW q \in Procs, GraceStep(q) PROVE UNCHANGED <<shut, background>>
  BY <1>4 DEF GraceStep, GraceNotify, Restart, RestartFail, Term, CloseSocket, Drained
<1>5. ASSUME NEW q \in Procs, AcceptStep(q) \/ AcceptError(q) \/ SendTerm(q) \/ SendUsr2(q)
      PROVE  UNCHANGED <<shut, background>>
  BY <1>5 DEF AcceptStep, AcceptClosed, AcceptErrorSent, Accept, AcceptReturn, AcceptError, SendTerm,
              Die, SendUsr2, procVars
<1>6. ASSUME NEW k \in Conns, Connect(k) \/ CloseConn(k) PROVE UNCHANGED <<shut, background>>
  BY <1>6 DEF Connect, CloseConn, procVars
<1> QED
  BY <1>1, <1>2, <1>3, <1>4, <1>5, <1>6 DEF Next, vars, procVars

\* Every step keeps ConnInv.
LEMMA ConnStep == TypeOK /\ PlaceInv /\ ConnInv /\ [Next]_vars => ConnInv'
<1> SUFFICES ASSUME TypeOK, PlaceInv, ConnInv, [Next]_vars PROVE ConnInv'
  OBVIOUS
\* what a step leaves alone
<1> DEFINE Fewer ==
      /\ \A p \in Procs : main[p] = "exited" => main'[p] = "exited"
      /\ \A p \in Procs, k \in Conns :
           /\ conn'[k] = Of(p, "accepted") => conn[k] = Of(p, "accepted") /\ acc'[p] = acc[p]
           /\ conn'[k] = Of(p, "dropped") => conn[k] = Of(p, "dropped") \/ main'[p] = "exited"
           /\ conn'[k] = Of(p, "served") => conn[k] = Of(p, "served")
<1>0. ASSUME Fewer PROVE ConnInv'
  <2>1. \A p \in Procs : Served(p)' \in SUBSET Served(p)
    BY <1>0 DEF Served
  <2>2. \A p \in Procs : IsFiniteSet(Served(p)')
    BY <2>1, FS_Subset DEF ConnInv
  <2>3. \A p \in Procs, k \in Conns : conn'[k] = Of(p, "accepted") => acc'[p] = "accepted"
    BY <1>0 DEF ConnInv
  <2>4. \A p \in Procs, k \in Conns : conn'[k] = Of(p, "dropped") => main'[p] = "exited"
    BY <1>0 DEF ConnInv
  <2>5. \A p \in Procs, j, k \in Conns :
           conn'[j] = Of(p, "accepted") /\ conn'[k] = Of(p, "accepted") => j = k
    BY <1>0 DEF ConnInv
  <2> QED
    BY <2>2, <2>3, <2>4, <2>5 DEF ConnInv
<1>d. ASSUME NEW p \in Procs, Die(p) PROVE Fewer
  <2>1. \A q \in Procs : /\ main[q] = "exited" => main'[q] = "exited"
                         /\ main'[p] = "exited" /\ (q # p => acc'[q] = acc[q])
    BY <1>d DEF Die, TypeOK
  <2>2. \A k \in Conns : \/ conn[k] \in {Of(p, "accepted"), Of(p, "served")}
                            /\ conn'[k] = Of(p, "dropped")
                         \/ conn[k] \notin {Of(p, "accepted"), Of(p, "served")}
                            /\ conn'[k] \in {conn[k], Unowned("refused")}
    BY <1>d DEF Die, Released
  <2>3. \A q \in Procs : Of(p, "dropped") = Of(q, "dropped") => p = q
    BY DEF Of
  <2>4. \A q \in Procs, st \in {"accepted", "served", "dropped"} :
           /\ Unowned("refused") # Of(q, st)
           /\ st # "dropped" => Of(q, st) # Of(p, "dropped")
    BY DEF Unowned, Of
  <2> QED
    BY <2>1, <2>2, <2>3, <2>4, Zenon
<1>r. ASSUME NEW p \in Procs, NEW k \in Conns, NEW q \in Procs,
             NEW st \in {"accepted", "served", "dropped"}, Released(p)[k] = Of(q, st)
      PROVE  conn[k] = Of(q, st)
  BY <1>r DEF Released, Unowned, Of
<1>1. CASE UNCHANGED <<main, acc, conn>>
  BY <1>0, <1>1
<1>2. ASSUME NEW p \in Procs, ProcessStep(p) PROVE ConnInv'
  <2>1. CASE Startup(p)
    <3>1. Fewer
      BY <2>1 DEF Startup, ConnInv, PlaceInv, TypeOK
    <3> QED
      BY <1>0, <3>1
  <2>2. CASE Handover(p) \/ CloseParent(p) \/ Arm(p) \/ WaitReturns(p)
    <3>1. Fewer
      BY <2>2 DEF Handover, CloseParent, Arm, WaitReturns, listenVars, TypeOK
    <3> QED
      BY <1>0, <3>1
  <2>3. CASE CloseParentGone(p) /\ ~Die(p)
    <3>1. Fewer
      BY <2>3 DEF CloseParentGone, listenVars, TypeOK
    <3> QED
      BY <1>0, <3>1
  <2> QED
    BY <1>0, <1>2, <1>d, <2>1, <2>2, <2>3 DEF ProcessStep, StartFail, Exit
<1>3. ASSUME NEW p \in Procs, GraceStep(p) PROVE ConnInv'
  <2>1. CASE Restart(p)
    <3>1. Fewer
      BY <2>1 DEF Restart, TypeOK
    <3> QED
      BY <1>0, <3>1
  <2>2. CASE CloseSocket(p)
    <3>1. Fewer
      BY <1>r, <2>2 DEF CloseSocket
    <3> QED
      BY <1>0, <3>1
  <2> QED
    BY <1>1, <1>3, <2>1, <2>2 DEF GraceStep, GraceNotify, RestartFail, Term, Drained, listenVars
<1>4. ASSUME NEW p \in Procs, ShutdownStep(p) \/ BackgroundStep(p) \/ SendUsr2(p)
      PROVE UNCHANGED <<main, acc, conn>>
  BY <1>4 DEF ShutdownStep, BackgroundStep, Shutdown, WaitDone, WaitTimeout, BackgroundAdd,
              BackgroundDone, SendUsr2, listenVars
<1>5. ASSUME NEW p \in Procs, AcceptStep(p) PROVE ConnInv'
  <2>1. CASE AcceptClosed(p) \/ AcceptErrorSent(p)
    <3>1. Fewer
      BY <2>1 DEF AcceptClosed, AcceptErrorSent, ConnInv, procVars, TypeOK
    <3> QED
      BY <1>0, <3>1
  <2>2. ASSUME NEW k \in Conns, Accept(p, k) PROVE ConnInv'
    <3>1. /\ conn' = [conn EXCEPT ![k] = Of(p, "accepted")] /\ main' = main
          /\ acc[p] = "checked" /\ acc' = [acc EXCEPT ![p] = "accepted"]
      BY <2>2 DEF Accept, procVars
    <3>2. /\ \A q \in Procs : Of(p, "accepted") # Of(q, "dropped") /\ Of(p, "accepted") # Of(q, "served")
          /\ \A q \in Procs : Of(p, "accepted") = Of(q, "accepted") => p = q
      BY DEF Of
    <3>3. \A j \in Conns : conn[j] # Of(p, "accepted")
      BY <3>1 DEF ConnInv
    <3>4. \A q \in Procs : Served(q)' \in SUBSET Served(q)
      BY <3>1, <3>2 DEF Served, TypeOK
    <3>5. \A q \in Procs : IsFiniteSet(Served(q)')
      BY <3>4, FS_Subset DEF ConnInv
    <3>6. \A q \in Procs, j \in Conns : conn'[j] = Of(q, "accepted") =>
             acc'[q] = "accepted" /\ (q = p => j = k) /\ (q # p => conn[j] = Of(q, "accepted"))
      BY <3>1, <3>2, <3>3 DEF ConnInv, TypeOK
    <3>7. \A q \in Procs, j \in Conns : conn'[j] = Of(q, "dropped") => main'[q] = "exited"
      BY <3>1, <3>2 DEF ConnInv, TypeOK
    <3>8. \A q \in Procs, i, j \in Conns :
             conn'[i] = Of(q, "accepted") /\ conn'[j] = Of(q, "accepted") => i = j
      BY <3>6 DEF ConnInv
    <3> QED
      BY <3>5, <3>6, <3>7, <3>8 DEF ConnInv
  <2>3. ASSUME NEW k \in Conns, AcceptReturn(p, k) PROVE ConnInv'
    <3>1. /\ conn[k] = Of(p, "accepted") /\ main' = main /\ \A q \in Procs : q # p => acc'[q] = acc[q]
          /\ conn'[k] = Of(p, "served")
          /\ \A j \in Conns : j # k => conn'[j] \in {conn[j], Released(p)[j]}
      BY <2>3, DieTypes DEF AcceptReturn, procVars, TypeOK
    <3>2. \A q \in Procs : /\ Of(p, "served") # Of(q, "dropped") /\ Of(p, "served") # Of(q, "accepted")
                           /\ Of(p, "served") = Of(q, "served") => p = q
      BY DEF Of
    <3>3. \A q \in Procs, j \in Conns, st \in {"accepted", "dropped"} :
             conn'[j] = Of(q, st) => j # k /\ conn[j] = Of(q, st)
      BY <1>r, <3>1, <3>2
    <3>4. \A q \in Procs : Served(q)' \in SUBSET (Served(q) \cup {k})
      BY <1>r, <3>1 DEF Served
    <3>5. \A q \in Procs : IsFiniteSet(Served(q)')
      <4>1. \A q \in Procs : IsFiniteSet(Served(q) \cup {k})
        BY FS_AddElement DEF ConnInv
      <4> QED
        BY <3>4, <4>1, FS_Subset
    <3>6. \A q \in Procs, j \in Conns : conn'[j] = Of(q, "accepted") => acc'[q] = "accepted"
      <4>1. \A j \in Conns : conn'[j] # Of(p, "accepted")
        BY <3>1, <3>3 DEF ConnInv
      <4> QED
        BY <3>1, <3>3, <4>1 DEF ConnInv
    <3> QED
      BY <3>1, <3>3, <3>5, <3>6 DEF ConnInv
  <2> QED
    BY <1>5, <2>1, <2>2, <2>3 DEF AcceptStep
<1>6. ASSUME NEW p \in Procs, AcceptError(p) PROVE ConnInv'
  <2>1. Fewer
    BY <1>r, <1>6 DEF AcceptError, ConnInv, procVars, TypeOK
  <2> QED
    BY <1>0, <2>1
<1>7. ASSUME NEW p \in Procs, SendTerm(p) PROVE ConnInv'
  BY <1>0, <1>1, <1>d, <1>7 DEF SendTerm, listenVars
<1>8. ASSUME NEW k \in Conns, Connect(k) \/ CloseConn(k) PROVE ConnInv'
  <2>1. PICK st \in {"queued", "none"} : conn' = [conn EXCEPT ![k] = Unowned(st)]
                                         /\ main' = main /\ acc' = acc
    BY <1>8 DEF Connect, CloseConn, procVars
  <2>2. \A p \in Procs, t \in {"accepted", "served", "dropped"} : Unowned(st) # Of(p, t)
    BY DEF Unowned, Of
  <2>3. Fewer
    BY <2>1, <2>2 DEF TypeOK
  <2> QED
    BY <1>0, <2>3
<1> QED
  BY <1>1, <1>2, <1>3, <1>4, <1>5, <1>6, <1>7, <1>8 DEF Next, vars, procVars, listenVars

\* The WaitGroup at zero: nothing is served and nothing comes in.
LEMMA NothingCounted ==
    ASSUME ConnInv, NEW p \in Procs, wg(p) = 0
    PROVE  acc[p] \notin {"checked", "accepted"} /\ \A k \in Conns : conn[k] # Of(p, "served")
<1> DEFINE n == Cardinality(Served(p))
           i == IF acc[p] \in {"checked", "accepted"} THEN 1 ELSE 0
<1>1. IsFiniteSet(Served(p))
  BY DEF ConnInv
<1>2. n \in Nat
  BY <1>1, FS_CardinalityType
<1>3. n + i = 0
  BY DEF wg, Served
<1>4. n = 0 /\ i = 0
  <2> HIDE DEF n
  <2> QED
    BY <1>2, <1>3
<1>5. Served(p) = {}
  BY <1>1, <1>4, FS_EmptySet
<1> QED
  BY <1>4, <1>5 DEF Served

\* A process that drained takes no connection and loses none.
LEMMA DrainedStep == TypeOK /\ PlaceInv /\ ConnInv /\ DrainedInv /\ [Next]_vars => DrainedInv'
<1> SUFFICES ASSUME TypeOK, PlaceInv, ConnInv, DrainedInv, [Next]_vars,
                    NEW p \in Procs, grace'[p] = "done"
             PROVE  /\ acc'[p] \notin {"checked", "accepted"}
                    /\ \A k \in Conns : conn'[k] # Of(p, "served") /\ conn'[k] # Of(p, "dropped")
  BY DEF DrainedInv
<1> DEFINE Goal == /\ acc'[p] \notin {"checked", "accepted"}
                   /\ \A k \in Conns : conn'[k] # Of(p, "served") /\ conn'[k] # Of(p, "dropped")
<1>1. CASE Drained(p)
  <2>1. acc[p] \notin {"checked", "accepted"} /\ \A k \in Conns : conn[k] # Of(p, "served")
    BY <1>1, NothingCounted DEF Drained
  <2>2. \A k \in Conns : conn[k] # Of(p, "dropped")
    BY <1>1 DEF Drained, Running, ConnInv
  <2> QED
    BY <1>1, <2>1, <2>2 DEF Drained, listenVars
<1>2. CASE grace[p] = "done"
  <2>0. /\ acc[p] \notin {"checked", "accepted"}
        /\ \A k \in Conns : conn[k] # Of(p, "accepted") /\ conn[k] # Of(p, "served")
                            /\ conn[k] # Of(p, "dropped")
    BY <1>2 DEF DrainedInv, ConnInv
  <2>r. ASSUME NEW q \in Procs, NEW k \in Conns
        PROVE  \/ Released(q)[k] = conn[k]
               \/ Released(q)[k] # Of(p, "served") /\ Released(q)[k] # Of(p, "dropped")
    <3>1. Released(q)[k] = conn[k] \/ Released(q)[k] = Unowned("refused")
      BY DEF Released
    <3>2. Unowned("refused") # Of(p, "served") /\ Unowned("refused") # Of(p, "dropped")
      BY DEF Unowned, Of
    <3> QED
      BY <3>1, <3>2
  <2>d. ASSUME NEW q \in Procs, Die(q) PROVE Goal
    <3>1. acc'[p] \notin {"checked", "accepted"}
      BY <2>0, <2>d DEF Die, TypeOK
    <3>2. \A k \in Conns : \/ conn[k] \in {Of(q, "accepted"), Of(q, "served")}
                              /\ conn'[k] = Of(q, "dropped")
                           \/ conn'[k] = Released(q)[k]
      BY <2>d DEF Die
    <3>3. q # p => Of(q, "dropped") # Of(p, "served") /\ Of(q, "dropped") # Of(p, "dropped")
      BY DEF Of
    <3> QED
      BY <2>0, <2>r, <3>1, <3>2, <3>3
  <2>1. CASE UNCHANGED <<acc, conn>>
    BY <2>0, <2>1
  <2>2. ASSUME NEW q \in Procs, ProcessStep(q) PROVE Goal
    <3>1. CASE Startup(q)
      BY <1>2, <2>0, <3>1 DEF Startup, PlaceInv, TypeOK
    <3> QED
      BY <2>1, <2>2, <2>d, <3>1 DEF ProcessStep, StartFail, Handover, CloseParent, CloseParentGone,
                                    Arm, WaitReturns, Exit, listenVars
  <2>3. ASSUME NEW q \in Procs, GraceStep(q) PROVE Goal
    <3>1. CASE CloseSocket(q)
      BY <2>0, <2>r, <3>1 DEF CloseSocket
    <3> QED
      BY <2>1, <2>3, <3>1 DEF GraceStep, GraceNotify, Restart, RestartFail, Term, Drained, listenVars
  <2>4. ASSUME NEW q \in Procs, ShutdownStep(q) \/ BackgroundStep(q) \/ SendUsr2(q)
        PROVE  UNCHANGED <<acc, conn>>
    BY <2>4 DEF ShutdownStep, BackgroundStep, Shutdown, WaitDone, WaitTimeout, BackgroundAdd,
                BackgroundDone, SendUsr2, listenVars
  <2>5. ASSUME NEW q \in Procs, AcceptStep(q) PROVE Goal
    <3>1. CASE AcceptClosed(q) \/ AcceptErrorSent(q)
      BY <2>0, <3>1 DEF AcceptClosed, AcceptErrorSent, TypeOK
    <3>2. ASSUME NEW k \in Conns, Accept(q, k) PROVE Goal
      <4>1. q # p /\ Of(q, "accepted") # Of(p, "served") /\ Of(q, "accepted") # Of(p, "dropped")
        BY <2>0, <3>2 DEF Accept, Of
      <4> QED
        BY <2>0, <3>2, <4>1 DEF Accept, TypeOK
    <3>3. ASSUME NEW k \in Conns, AcceptReturn(q, k) PROVE Goal
      <4>1. q # p /\ Of(q, "served") # Of(p, "served") /\ Of(q, "served") # Of(p, "dropped")
        BY <2>0, <3>3 DEF AcceptReturn, Of
      <4>2. /\ acc'[p] = acc[p] /\ conn'[k] = Of(q, "served")
            /\ \A j \in Conns : j # k => conn'[j] \in {conn[j], Released(q)[j]}
        BY <3>3, <4>1, DieTypes DEF AcceptReturn, TypeOK
      <4> QED
        BY <2>0, <2>r, <4>1, <4>2
    <3> QED
      BY <2>5, <3>1, <3>2, <3>3 DEF AcceptStep
  <2>6. ASSUME NEW q \in Procs, AcceptError(q) PROVE Goal
    BY <2>0, <2>r, <2>6 DEF AcceptError, TypeOK
  <2>7. ASSUME NEW q \in Procs, SendTerm(q) PROVE Goal
    BY <2>1, <2>7, <2>d DEF SendTerm, listenVars
  <2>8. ASSUME NEW k \in Conns, Connect(k) \/ CloseConn(k) PROVE Goal
    <3>1. PICK st \in {"queued", "none"} : conn' = [conn EXCEPT ![k] = Unowned(st)] /\ acc' = acc
      BY <2>8 DEF Connect, CloseConn
    <3>2. Unowned(st) # Of(p, "served") /\ Unowned(st) # Of(p, "dropped")
      BY DEF Unowned, Of
    <3> QED
      BY <2>0, <3>1, <3>2 DEF TypeOK
  <2> QED
    BY <2>1, <2>2, <2>3, <2>4, <2>5, <2>6, <2>7, <2>8 DEF Next, vars, listenVars
<1>3. grace[p] = "done" \/ Drained(p)
  <2>1. CASE UNCHANGED grace
    BY <2>1
  <2>2. ASSUME NEW q \in Procs, GraceStep(q), q # p \/ ~Drained(p) PROVE grace[p] = "done"
    BY <2>2 DEF GraceStep, GraceNotify, Restart, RestartFail, Term, CloseSocket, Drained, TypeOK
  <2>3. ASSUME NEW q \in Procs, ProcessStep(q) PROVE UNCHANGED grace
    BY <2>3 DEF ProcessStep, Startup, StartFail, Handover, CloseParent, CloseParentGone, Arm,
                WaitReturns, Exit, Die
  <2>4. ASSUME NEW q \in Procs, ShutdownStep(q) \/ BackgroundStep(q) PROVE UNCHANGED grace
    BY <2>4 DEF ShutdownStep, BackgroundStep, Shutdown, WaitDone, WaitTimeout, BackgroundAdd,
                BackgroundDone
  <2>5. ASSUME NEW q \in Procs, AcceptStep(q) \/ AcceptError(q) \/ SendTerm(q) \/ SendUsr2(q)
        PROVE  UNCHANGED grace
    BY <2>5 DEF AcceptStep, AcceptClosed, AcceptErrorSent, Accept, AcceptReturn, AcceptError, SendTerm,
                Die, SendUsr2, procVars
  <2>6. ASSUME NEW k \in Conns, Connect(k) \/ CloseConn(k) PROVE UNCHANGED grace
    BY <2>6 DEF Connect, CloseConn, procVars
  <2> QED
    BY <2>1, <2>2, <2>3, <2>4, <2>5, <2>6 DEF Next, vars, procVars
<1> QED
  BY <1>1, <1>2, <1>3

\* A step that leaves undisturbed TRUE found it TRUE and is neither SIGTERM from
\* an operator nor a failure of Accept.
LEMMA StaysUndisturbed ==
    ASSUME [Next]_vars, undisturbed'
    PROVE  undisturbed /\ \A p \in Procs : ~SendTerm(p) /\ ~AcceptError(p)
<1>1. \A p \in Procs : ~SendTerm(p) /\ ~AcceptError(p)
  BY DEF SendTerm, AcceptError
<1>2. ASSUME NEW p \in Procs, ProcessStep(p) PROVE UNCHANGED undisturbed
  BY <1>2 DEF ProcessStep, Startup, StartFail, Handover, CloseParent, CloseParentGone, Arm,
              WaitReturns, Exit
<1>3. ASSUME NEW p \in Procs, GraceStep(p) PROVE UNCHANGED undisturbed
  BY <1>3 DEF GraceStep, GraceNotify, Restart, RestartFail, Term, CloseSocket, Drained
<1>4. ASSUME NEW p \in Procs, ShutdownStep(p) \/ BackgroundStep(p) PROVE UNCHANGED undisturbed
  BY <1>4 DEF ShutdownStep, BackgroundStep, Shutdown, WaitDone, WaitTimeout, BackgroundAdd,
              BackgroundDone
<1>5. ASSUME NEW p \in Procs, AcceptStep(p) \/ SendUsr2(p) PROVE UNCHANGED undisturbed
  BY <1>5 DEF AcceptStep, AcceptClosed, AcceptErrorSent, Accept, AcceptReturn, SendUsr2
<1>6. ASSUME NEW k \in Conns, Connect(k) \/ CloseConn(k) PROVE UNCHANGED undisturbed
  BY <1>6 DEF Connect, CloseConn
<1> QED
  BY <1>1, <1>2, <1>3, <1>4, <1>5, <1>6 DEF Next, vars

\* An accepting process goes on accepting unless it ends, or runs grace.Wait's
\* SIGTERM branch.
LEMMA AcceptingStays ==
    ASSUME TypeOK, [Next]_vars, undisturbed', NEW p \in Procs, Accepting(p),
           ~Die(p), ~Term(p), grace[p] # "closing"
    PROVE  Accepting(p)'
<1>0. \A q \in Procs : ~SendTerm(q) /\ ~AcceptError(q)
  BY StaysUndisturbed
<1>1. CASE UNCHANGED <<acc, closed, fd>>
  BY <1>1 DEF Accepting
<1>2. ASSUME NEW q \in Procs, Die(q) PROVE Accepting(p)'
  <2>1. q # p
    BY <1>2
  <2>2. acc'[p] = acc[p] /\ closed'[p] = closed[p] /\ fd'[p] = fd[p]
    BY <1>2, <2>1 DEF Die, TypeOK
  <2> QED
    BY <2>2 DEF Accepting
<1>3. ASSUME NEW q \in Procs, ProcessStep(q) PROVE Accepting(p)'
  <2>1. CASE Startup(q)
    BY <2>1 DEF Startup, Accepting, TypeOK
  <2> QED
    BY <1>1, <1>2, <1>3, <2>1 DEF ProcessStep, StartFail, Handover, CloseParent, CloseParentGone, Arm,
                                  WaitReturns, Exit, listenVars
<1>4. ASSUME NEW q \in Procs, GraceStep(q) PROVE Accepting(p)'
  <2>1. CASE Restart(q)
    BY <2>1 DEF Restart, Accepting, TypeOK
  <2>2. CASE Term(q) \/ CloseSocket(q)
    <3>1. q # p
      BY <2>2 DEF CloseSocket
    <3>2. acc' = acc /\ (closed' = closed \/ closed' = [closed EXCEPT ![q] = TRUE])
          /\ (fd' = fd \/ fd' = [fd EXCEPT ![q] = FALSE])
      BY <2>2 DEF Term, CloseSocket
    <3>3. closed'[p] = closed[p] /\ fd'[p] = fd[p]
      BY <3>1, <3>2 DEF TypeOK
    <3> QED
      BY <3>2, <3>3 DEF Accepting
  <2> QED
    BY <1>1, <1>4, <2>1, <2>2 DEF GraceStep, GraceNotify, RestartFail, Drained, listenVars
<1>5. ASSUME NEW q \in Procs, ShutdownStep(q) \/ BackgroundStep(q) \/ SendUsr2(q)
      PROVE  UNCHANGED <<acc, closed, fd>>
  BY <1>5 DEF ShutdownStep, BackgroundStep, Shutdown, WaitDone, WaitTimeout, BackgroundAdd,
              BackgroundDone, SendUsr2, listenVars
<1>6. ASSUME NEW q \in Procs, AcceptStep(q) PROVE Accepting(p)'
  <2>1. CASE AcceptClosed(q) \/ AcceptErrorSent(q)
    <3>1. q # p
      BY <2>1 DEF AcceptClosed, AcceptErrorSent, Accepting
    <3>2. PICK a : acc' = [acc EXCEPT ![q] = a]
      BY <2>1 DEF AcceptClosed, AcceptErrorSent
    <3>3. closed' = closed /\ fd' = fd
      BY <2>1 DEF AcceptClosed, AcceptErrorSent
    <3> QED
      BY <3>1, <3>2, <3>3 DEF Accepting, TypeOK
  <2>2. ASSUME NEW k \in Conns, Accept(q, k) PROVE Accepting(p)'
    BY <2>2 DEF Accept, Accepting, TypeOK
  <2>3. ASSUME NEW k \in Conns, AcceptReturn(q, k) PROVE Accepting(p)'
    BY <2>3 DEF AcceptReturn, Accepting, TypeOK
  <2> QED
    BY <1>6, <2>1, <2>2, <2>3 DEF AcceptStep
<1>7. ASSUME NEW k \in Conns, Connect(k) \/ CloseConn(k) PROVE UNCHANGED <<acc, closed, fd>>
  BY <1>7 DEF Connect, CloseConn
<1> QED
  BY <1>0, <1>1, <1>3, <1>4, <1>5, <1>6, <1>7 DEF Next, vars, listenVars

\* Reading a signal and sending SIGUSR2 keep a channel free of SIGTERM.
LEMMA RestartsKept ==
    ASSUME NEW s \in Seq({"TERM", "USR2"}), OnlyRestarts(s)
    PROVE  OnlyRestarts(Append(s, "USR2")) /\ (s # << >> => OnlyRestarts(Tail(s)))
<1>1. OnlyRestarts(Append(s, "USR2"))
  BY DEF OnlyRestarts
<1>2. ASSUME s # << >> PROVE OnlyRestarts(Tail(s))
  BY <1>2 DEF OnlyRestarts
<1> QED
  BY <1>1, <1>2

\* Nothing but a child that came through tells an Untold process to stop.
LEMMA UntoldStays ==
    ASSUME TypeOK, PlaceInv, [Next]_vars, undisturbed', NEW p \in Procs, Untold(p),
           \A q \in Procs : CloseParent(q) => parent[q] # p
    PROVE  Untold(p)'
<1>0. \A q \in Procs : ~SendTerm(q) /\ ~AcceptError(q)
  BY StaysUndisturbed
<1>1. /\ main[p] \in {"ready", "waiting", "returned"} /\ Accepting(p)
      /\ grace[p] \in {"none", "loop", "failed"} /\ shut[p] \in {"none", "armed"} /\ ~sigs[p]
      /\ ch[p] \in Seq({"TERM", "USR2"}) /\ OnlyRestarts(ch[p])
  BY DEF Untold, TypeOK
<1>2. ch[p] # << >> => Head(ch[p]) = "USR2"
  BY <1>1 DEF OnlyRestarts
<1>3. ~Term(p) /\ ~Shutdown(p) /\ ~Startup(p) /\ ~StartFail(p) /\ ~CloseParentGone(p) /\ ~Exit(p)
  BY <1>1, <1>2 DEF Term, Reads, Shutdown, Startup, StartFail, CloseParentGone, Exit
\* what the step may do to p
<1> DEFINE Keeps == /\ main'[p] \in {"ready", "waiting", "returned"}
                    /\ grace'[p] \in {"none", "loop", "failed"} /\ shut'[p] \in {"none", "armed"}
                    /\ ~sigs'[p] /\ OnlyRestarts(ch'[p])
<1>4. ASSUME UNCHANGED procVars PROVE Keeps
  BY <1>1, <1>4 DEF procVars
<1>5. ASSUME NEW q \in Procs, q # p, Die(q) PROVE Keeps
  BY <1>1, <1>5 DEF Die, Untold, TypeOK
<1>6. ASSUME NEW q \in Procs, ProcessStep(q) PROVE Keeps
  <2>1. CASE Startup(q) \/ Handover(q) \/ Arm(q) \/ WaitReturns(q)
    BY <1>1, <1>3, <2>1 DEF Startup, Handover, Arm, WaitReturns, Untold, TypeOK
  <2>2. CASE CloseParent(q)
    <3>1. parent[q] # p /\ q # p
      BY <1>1, <2>2 DEF CloseParent, PlaceInv
    <3> QED
      BY <1>1, <2>2, <3>1 DEF CloseParent, Notified, Untold, TypeOK
  <2>3. CASE CloseParentGone(q) /\ ~Die(q)
    BY <1>1, <1>3, <2>3 DEF CloseParentGone, Untold, TypeOK
  <2> QED
    BY <1>3, <1>5, <1>6, <2>1, <2>2, <2>3 DEF ProcessStep, StartFail, CloseParentGone, Exit
<1>7. ASSUME NEW q \in Procs, GraceStep(q) PROVE Keeps
  <2>1. CASE GraceNotify(q) \/ CloseSocket(q) \/ Drained(q)
    BY <1>1, <2>1 DEF GraceNotify, CloseSocket, Drained, Untold, TypeOK
  <2>2. CASE Restart(q) \/ RestartFail(q) \/ Term(q)
    <3>1. OnlyRestarts(ch'[p])
      <4>1. Reads(q, "TERM") \/ Reads(q, "USR2")
        BY <2>2 DEF Restart, RestartFail, Term
      <4>2. ch'[p] = ch[p] \/ (ch[p] # << >> /\ ch'[p] = Tail(ch[p]))
        BY <4>1 DEF Reads, TypeOK
      <4> QED
        BY <1>1, <4>2, RestartsKept
    <3>2. main'[p] = main[p] \/ (main[p] = "none" /\ main'[p] = "starting")
      BY <2>2 DEF Restart, RestartFail, Term, TypeOK
    <3>3. grace'[p] = grace[p] \/ grace'[p] = "failed"
      BY <1>3, <2>2 DEF Restart, RestartFail, Term, TypeOK
    <3>4. shut' = shut /\ sigs' = sigs
      BY <2>2 DEF Restart, RestartFail, Term
    <3> QED
      BY <1>1, <3>1, <3>2, <3>3, <3>4
  <2> QED
    BY <1>7, <2>1, <2>2 DEF GraceStep
<1>8. ASSUME NEW q \in Procs, ShutdownStep(q) \/ BackgroundStep(q) PROVE Keeps
  BY <1>1, <1>3, <1>8 DEF ShutdownStep, Shutdown, WaitDone, WaitTimeout, BackgroundStep,
                          BackgroundAdd, BackgroundDone, Untold, TypeOK
<1>9. ASSUME NEW q \in Procs, SendUsr2(q) PROVE Keeps
  <2>1. ch'[p] = ch[p] \/ ch'[p] = Append(ch[p], "USR2")
    BY <1>9 DEF SendUsr2, TypeOK
  <2>2. OnlyRestarts(ch'[p])
    BY <1>1, <2>1, RestartsKept
  <2> QED
    BY <1>1, <1>9, <2>2 DEF SendUsr2
<1>10. ASSUME NEW q \in Procs, AcceptStep(q) PROVE UNCHANGED procVars
  BY <1>10 DEF AcceptStep, AcceptClosed, AcceptErrorSent, Accept, AcceptReturn
<1>11. ASSUME NEW k \in Conns, Connect(k) \/ CloseConn(k) PROVE UNCHANGED procVars
  BY <1>11 DEF Connect, CloseConn
<1>12. Keeps
  <2> HIDE DEF Keeps
  <2>1. UNCHANGED vars => UNCHANGED procVars
    BY DEF vars
  <2> QED
    BY <1>0, <1>4, <1>6, <1>7, <1>8, <1>9, <1>10, <1>11, <2>1 DEF Next
<1>13. ~Die(p)
  BY <1>12 DEF Die, TypeOK
<1>14. Accepting(p)'
  BY <1>1, <1>3, <1>13, AcceptingStays
<1> QED
  BY <1>12, <1>14 DEF Untold

\* A child that tells its parent to stop is itself told nothing yet.
LEMMA NewlyUntold ==
    ASSUME TypeOK, PlaceInv, ServingInv, [Next]_vars, undisturbed', NEW q \in Procs, CloseParent(q)
    PROVE  Untold(q)'
<1>0. undisturbed
  BY StaysUndisturbed
<1>1. /\ main[q] = "handover" /\ main'[q] = "ready" /\ Accepting(q)
      /\ grace[q] = "none" /\ shut[q] = "none" /\ ch[q] = << >> /\ ~sigs[q]
  BY <1>0 DEF CloseParent, PlaceInv, ServingInv, TypeOK
<1>2. grace'[q] = "none" /\ shut'[q] = "none" /\ ch'[q] = << >> /\ ~sigs'[q]
  BY <1>1 DEF CloseParent, Notified, TypeOK
<1>3. Accepting(q)'
  BY <1>1 DEF CloseParent, listenVars, Accepting
<1>4. OnlyRestarts(ch'[q])
  BY <1>2 DEF OnlyRestarts
<1> QED
  BY <1>1, <1>2, <1>3, <1>4 DEF Untold

\* As long as nobody disturbs, some process goes on accepting.
LEMMA ServingStep ==
    TypeOK /\ PlaceInv /\ FirstInv /\ ServingInv /\ [Next]_vars => ServingInv'
<1> SUFFICES ASSUME TypeOK, PlaceInv, FirstInv, ServingInv, [Next]_vars, undisturbed'
             PROVE  /\ \A p \in Procs : main'[p] \in {"serving", "handover", "ready"} => Accepting(p)'
                    /\ background'[1] # "none" =>
                           main'[1] = "serving" \/ \E p \in Procs : Untold(p)'
  BY DEF ServingInv
<1>0. undisturbed /\ \A q \in Procs : ~SendTerm(q) /\ ~AcceptError(q)
  BY StaysUndisturbed
\* how a process gets to Serve's first half
<1>1. ASSUME NEW p \in Procs, main'[p] \in {"serving", "handover", "ready"}
      PROVE  Startup(p) \/ (main[p] \in {"serving", "handover", "ready"} /\ main'[p] # "exited")
  <2>1. CASE UNCHANGED main
    BY <1>1, <2>1
  <2>2. ASSUME NEW q \in Procs, ProcessStep(q)
        PROVE  Startup(p) \/ main[p] \in {"serving", "handover", "ready"}
    <3>1. CASE Startup(q) \/ Handover(q) \/ CloseParent(q) \/ Arm(q) \/ WaitReturns(q)
      BY <1>1, <3>1 DEF Startup, Handover, CloseParent, Arm, WaitReturns, TypeOK
    <3>2. CASE Die(q)
      BY <1>1, <3>2 DEF Die, TypeOK
    <3>3. CASE CloseParentGone(q) /\ ~Die(q)
      BY <1>1, <3>3 DEF CloseParentGone, TypeOK
    <3> QED
      BY <2>2, <3>1, <3>2, <3>3 DEF ProcessStep, StartFail, Exit
  <2>3. ASSUME NEW q \in Procs, GraceStep(q) PROVE main[p] \in {"serving", "handover", "ready"}
    <3>1. CASE Restart(q)
      BY <1>1, <3>1 DEF Restart, TypeOK
    <3> QED
      BY <1>1, <2>1, <2>3, <3>1 DEF GraceStep, GraceNotify, RestartFail, Term, CloseSocket, Drained
  <2>4. ASSUME NEW q \in Procs,
               ShutdownStep(q) \/ BackgroundStep(q) \/ AcceptStep(q) \/ SendUsr2(q)
        PROVE  UNCHANGED main
    BY <2>4 DEF ShutdownStep, BackgroundStep, Shutdown, WaitDone, WaitTimeout, BackgroundAdd,
                BackgroundDone, AcceptStep, AcceptClosed, AcceptErrorSent, Accept, AcceptReturn,
                SendUsr2, procVars
  <2>5. ASSUME NEW k \in Conns, Connect(k) \/ CloseConn(k) PROVE UNCHANGED main
    BY <2>5 DEF Connect, CloseConn, procVars
  <2> QED
    BY <1>0, <1>1, <2>1, <2>2, <2>3, <2>4, <2>5 DEF Next, vars, procVars
<1>2. ASSUME NEW p \in Procs, main'[p] \in {"serving", "handover", "ready"} PROVE Accepting(p)'
  <2>1. CASE Startup(p)
    BY <2>1 DEF Startup, Accepting, PlaceInv, TypeOK
  <2>2. CASE main[p] \in {"serving", "handover", "ready"} /\ main'[p] # "exited"
    <3>1. Accepting(p) /\ grace[p] = "none"
      BY <1>0, <2>2 DEF ServingInv, PlaceInv
    <3>2. ~Die(p) /\ ~Term(p)
      BY <2>2, <3>1 DEF Die, Term, Reads, TypeOK
    <3> QED
      BY <3>1, <3>2, AcceptingStays
  <2> QED
    BY <1>1, <1>2, <2>1, <2>2
\* the first process: from serving straight to ready
<1>3. ASSUME main[1] = "serving" PROVE main'[1] = "serving" \/ Untold(1)'
  <2>0. 1 \in Procs /\ parent[1] = Init1
    BY FirstIsProcess DEF FirstInv
  <2>1. CASE Handover(1)
    <3>1. main'[1] = "ready" /\ grace[1] = "none" /\ shut[1] = "none" /\ ch[1] = << >> /\ ~sigs[1]
      BY <1>3, <2>0, <2>1 DEF Handover, Orphan, PlaceInv, TypeOK
    <3>2. OnlyRestarts(ch'[1])
      BY <2>1, <3>1 DEF Handover, OnlyRestarts
    <3> QED
      BY <1>2, <2>0, <2>1, <3>1, <3>2 DEF Handover, Untold
  <2>2. CASE UNCHANGED main
    BY <1>3, <2>2
  <2>3. ASSUME NEW q \in Procs, ProcessStep(q), ~Handover(1) PROVE main'[1] = "serving"
    <3>1. q # 1
      BY <1>3, <2>3 DEF ProcessStep, Startup, StartFail, CloseParent, CloseParentGone, Arm,
                        WaitReturns, Exit
    <3>2. CASE Die(q)
      BY <1>3, <2>0, <3>1, <3>2 DEF Die, TypeOK
    <3>3. CASE Startup(q) \/ Handover(q) \/ CloseParent(q) \/ (CloseParentGone(q) /\ ~Die(q))
      BY <1>3, <2>0, <3>1, <3>3 DEF Startup, Handover, CloseParent, CloseParentGone, TypeOK
    <3>4. CASE Arm(q) \/ WaitReturns(q)
      BY <1>3, <2>0, <3>1, <3>4 DEF Arm, WaitReturns, TypeOK
    <3> QED
      BY <2>3, <3>2, <3>3, <3>4 DEF ProcessStep, StartFail, Exit
  <2>4. ASSUME NEW q \in Procs, GraceStep(q) PROVE main'[1] = "serving"
    <3>1. CASE Restart(q)
      BY <1>3, <2>0, <3>1 DEF Restart, TypeOK
    <3> QED
      BY <1>3, <2>4, <3>1 DEF GraceStep, GraceNotify, RestartFail, Term, CloseSocket, Drained
  <2>5. ASSUME NEW q \in Procs,
               ShutdownStep(q) \/ BackgroundStep(q) \/ AcceptStep(q) \/ SendUsr2(q)
        PROVE  UNCHANGED main
    BY <2>5 DEF ShutdownStep, BackgroundStep, Shutdown, WaitDone, WaitTimeout, BackgroundAdd,
                BackgroundDone, AcceptStep, AcceptClosed, AcceptErrorSent, Accept, AcceptReturn,
                SendUsr2, procVars
  <2>6. ASSUME NEW k \in Conns, Connect(k) \/ CloseConn(k) PROVE UNCHANGED main
    BY <2>6 DEF Connect, CloseConn, procVars
  <2> QED
    BY <1>0, <2>1, <2>2, <2>3, <2>4, <2>5, <2>6 DEF Next, vars, procVars
<1>4. ASSUME background[1] = "none", background'[1] # "none" PROVE main'[1] = "serving"
  <2>0. 1 \in Procs /\ ~sigs[1]
    BY <1>4, FirstIsProcess DEF PlaceInv
  <2>1. CASE Startup(1)
    BY <2>0, <2>1 DEF Startup, TypeOK
  <2>2. ASSUME NEW q \in Procs, ProcessStep(q), ~Startup(1) PROVE background'[1] = "none"
    <3>1. CASE Startup(q)
      BY <1>4, <2>0, <2>2, <3>1 DEF Startup, TypeOK
    <3> QED
      BY <1>4, <2>2, <3>1 DEF ProcessStep, StartFail, Handover, CloseParent, CloseParentGone, Arm,
                              WaitReturns, Exit, Die
  <2>3. ASSUME NEW q \in Procs, GraceStep(q) PROVE UNCHANGED background
    BY <2>3 DEF GraceStep, GraceNotify, Restart, RestartFail, Term, CloseSocket, Drained
  <2>4. ASSUME NEW q \in Procs, ShutdownStep(q) \/ BackgroundStep(q) PROVE background'[1] = "none"
    <3>1. CASE Shutdown(q)
      BY <1>4, <2>0, <3>1 DEF Shutdown, TypeOK
    <3>2. CASE BackgroundStep(q)
      <4>1. q # 1
        BY <1>4, <2>0, <3>2 DEF BackgroundStep, BackgroundAdd, BackgroundDone
      <4>2. PICK b : background' = [background EXCEPT ![q] = b]
        BY <3>2 DEF BackgroundStep, BackgroundAdd, BackgroundDone
      <4> QED
        BY <1>4, <2>0, <4>2, <4>1 DEF TypeOK
    <3> QED
      BY <1>4, <2>4, <3>1, <3>2 DEF ShutdownStep, WaitDone, WaitTimeout
  <2>5. ASSUME NEW q \in Procs, AcceptStep(q) \/ SendUsr2(q) PROVE UNCHANGED background
    BY <2>5 DEF AcceptStep, AcceptClosed, AcceptErrorSent, Accept, AcceptReturn, SendUsr2, procVars
  <2>6. ASSUME NEW k \in Conns, Connect(k) \/ CloseConn(k) PROVE UNCHANGED background
    BY <2>6 DEF Connect, CloseConn, procVars
  <2> QED
    BY <1>0, <1>4, <2>1, <2>2, <2>3, <2>4, <2>5, <2>6 DEF Next, vars, procVars
<1>5. ASSUME NEW p \in Procs, Untold(p) PROVE \E q \in Procs : Untold(q)'
  <2>1. CASE \A q \in Procs : CloseParent(q) => parent[q] # p
    BY <1>5, <2>1, UntoldStays
  <2>2. ASSUME NEW q \in Procs, CloseParent(q) PROVE Untold(q)'
    BY <2>2, NewlyUntold
  <2> QED
    BY <2>1, <2>2
<1> QED
  BY <1>0, <1>2, <1>3, <1>4, <1>5, FirstIsProcess DEF ServingInv

\* The process that AlwaysServing is about holds the socket.
LEMMA SomeoneHoldsSocket ==
    ASSUME ServingInv, undisturbed, background[1] # "none"
    PROVE  \E w \in Procs : fd[w] /\ ((w = 1 /\ main[1] = "serving") \/ Untold(w))
<1>1. CASE main[1] = "serving"
  BY <1>1, FirstIsProcess DEF ServingInv, Accepting
<1>2. CASE \E w \in Procs : Untold(w)
  BY <1>2 DEF Untold, Accepting
<1> QED
  BY <1>1, <1>2 DEF ServingInv

\* Nobody closes the socket last.
LEMMA NotLast ==
    ASSUME BeforeInv, ServingInv, undisturbed, NEW p \in Procs,
           ~Untold(p), p # 1 \/ main[1] # "serving"
    PROVE  \A k \in Conns : Released(p)[k] = conn[k]
<1>1. CASE background[1] = "none"
  BY <1>1 DEF BeforeInv, Released
<1>2. CASE background[1] # "none"
  <2>1. PICK w \in Procs : fd[w] /\ ((w = 1 /\ main[1] = "serving") \/ Untold(w))
    BY <1>2, SomeoneHoldsSocket
  <2>2. w \in Procs \ {p}
    BY <2>1
  <2> QED
    BY <2>1, <2>2 DEF Released
<1> QED
  BY <1>1, <1>2

\* No restart, finished or failed, resets a connection in the queue.
LEMMA RefusedStep ==
    TypeOK /\ PlaceInv /\ BeforeInv /\ ServingInv /\ NothingRefused /\ [Next]_vars => NothingRefused'
<1> SUFFICES ASSUME TypeOK, PlaceInv, BeforeInv, ServingInv, NothingRefused, [Next]_vars,
                    undisturbed', NEW k \in Conns
             PROVE  conn'[k].st # "refused"
  BY DEF NothingRefused
<1>0. undisturbed /\ (\A q \in Procs : ~SendTerm(q) /\ ~AcceptError(q)) /\ conn[k].st # "refused"
  BY StaysUndisturbed DEF NothingRefused
<1>d. ASSUME NEW q \in Procs, Die(q), ~Untold(q), main[q] # "serving" PROVE conn'[k].st # "refused"
  <2>1. Released(q)[k] = conn[k]
    BY <1>0, <1>d, NotLast
  <2>2. conn'[k] = Of(q, "dropped") \/ conn'[k] = Released(q)[k]
    BY <1>d DEF Die
  <2> QED
    BY <1>0, <2>1, <2>2 DEF Of
<1>1. CASE UNCHANGED conn
  BY <1>0, <1>1
<1>2. ASSUME NEW q \in Procs, ProcessStep(q) PROVE conn'[k].st # "refused"
  <2>1. CASE StartFail(q) \/ Exit(q) \/ CloseParentGone(q)
    <3>1. ~Untold(q) /\ main[q] # "serving"
      BY <2>1 DEF StartFail, Exit, CloseParentGone, Untold
    <3> QED
      BY <1>d, <1>1, <2>1, <3>1 DEF StartFail, Exit, CloseParentGone, listenVars
  <2> QED
    BY <1>1, <1>2, <2>1 DEF ProcessStep, Startup, Handover, CloseParent, Arm, WaitReturns, listenVars
<1>3. ASSUME NEW q \in Procs, GraceStep(q) PROVE conn'[k].st # "refused"
  <2>1. CASE CloseSocket(q)
    <3>1. ~Untold(q) /\ main[q] # "serving"
      BY <2>1 DEF CloseSocket, Untold, PlaceInv
    <3>2. Released(q)[k] = conn[k]
      BY <1>0, <3>1, NotLast
    <3> QED
      BY <1>0, <2>1, <3>2 DEF CloseSocket
  <2> QED
    BY <1>1, <1>3, <2>1 DEF GraceStep, GraceNotify, Restart, RestartFail, Term, Drained, listenVars
<1>4. ASSUME NEW q \in Procs, ShutdownStep(q) \/ BackgroundStep(q) \/ SendUsr2(q)
      PROVE  UNCHANGED conn
  BY <1>4 DEF ShutdownStep, BackgroundStep, Shutdown, WaitDone, WaitTimeout, BackgroundAdd,
              BackgroundDone, SendUsr2, listenVars
<1>5. ASSUME NEW q \in Procs, AcceptStep(q) PROVE conn'[k].st # "refused"
  <2>1. CASE AcceptClosed(q) \/ AcceptErrorSent(q)
    BY <1>1, <2>1 DEF AcceptClosed, AcceptErrorSent
  <2>2. ASSUME NEW j \in Conns, Accept(q, j) PROVE conn'[k].st # "refused"
    BY <1>0, <2>2 DEF Accept, Of, TypeOK
  <2>3. ASSUME NEW j \in Conns, AcceptReturn(q, j) PROVE conn'[k].st # "refused"
    <3>1. CASE closed[q]
      <4>1. ~Untold(q) /\ main[q] # "serving"
        BY <1>0, <3>1 DEF Untold, Accepting, ServingInv
      <4>2. Released(q)[k] = conn[k]
        BY <1>0, <4>1, NotLast
      <4>3. conn'[k] = Of(q, "served") \/ conn'[k] = Released(q)[k]
        BY <2>3, <3>1, DieTypes DEF AcceptReturn
      <4> QED
        BY <1>0, <4>2, <4>3 DEF Of
    <3>2. CASE ~closed[q]
      BY <1>0, <2>3, <3>2 DEF AcceptReturn, Of, TypeOK
    <3> QED
      BY <3>1, <3>2
  <2> QED
    BY <1>5, <2>1, <2>2, <2>3 DEF AcceptStep
<1>6. ASSUME NEW j \in Conns, Connect(j) \/ CloseConn(j) PROVE conn'[k].st # "refused"
  <2>1. PICK st \in {"queued", "none"} : conn' = [conn EXCEPT ![j] = Unowned(st)]
    BY <1>6 DEF Connect, CloseConn
  <2>2. Unowned(st).st # "refused"
    BY DEF Unowned, Of
  <2> QED
    BY <1>0, <2>1, <2>2 DEF TypeOK
<1> QED
  BY <1>0, <1>1, <1>2, <1>3, <1>4, <1>5, <1>6 DEF Next, vars, listenVars

-----------------------------------------------------------------------------
\* The first state satisfies the invariant.
LEMMA ServerInit == Init => ServerInv
<1> SUFFICES ASSUME Init PROVE ServerInv
  OBVIOUS
<1>1. PlaceInv
  BY DEF Init, PlaceInv
<1>2. FirstInv
  BY FirstIsProcess DEF Init, FirstInv
<1>3. \A k \in Conns : conn[k] = Unowned("none")
  BY DEF Init
<1>4. BeforeInv /\ NothingRefused
  BY <1>3, FirstIsProcess DEF Init, BeforeInv, NothingRefused, Unowned, Of
<1>5. ServingInv
  BY FirstIsProcess DEF Init, ServingInv
<1>6. \A p \in Procs, st \in {"accepted", "served", "dropped"} : Unowned("none") # Of(p, st)
  BY DEF Unowned, Of
<1>7. \A p \in Procs : Served(p) = {}
  BY <1>3, <1>6 DEF Served
<1>8. ConnInv
  BY <1>3, <1>6, <1>7, FS_EmptySet DEF ConnInv
<1>9. DrainedInv /\ BackgroundInv
  BY DEF Init, DrainedInv, BackgroundInv
<1> QED
  BY <1>1, <1>2, <1>4, <1>5, <1>8, <1>9 DEF ServerInv

\* The invariant of the daemon's processes is inductive: for any number of
\* connections, restarts, failures of Accept and signals.
THEOREM ServerInvariance == Spec => [](TypeOK /\ ServerInv)
<1>1. Init => TypeOK /\ ServerInv
  BY ServerTypeInit, ServerInit
<1>2. TypeOK /\ ServerInv /\ [Next]_vars => (TypeOK /\ ServerInv)'
  BY ServerTypeStep, PlaceStep, FirstStep, BeforeStep, ServingStep, ConnStep, DrainedStep,
     BackgroundInvStep, RefusedStep DEF ServerInv
<1> QED
  BY <1>1, <1>2, PTL DEF Spec

\* Undisturbed, some process accepts connections from the first one's start on:
\* through any number of restarts, begun in any state and by any process, and any
\* failures of the new ones (server.go:122-126, grace.go:250).
THEOREM AlwaysServes == Spec => []AlwaysServing
<1>1. TypeOK /\ ServerInv => AlwaysServing
  <2> SUFFICES ASSUME ServerInv, undisturbed, background[1] # "none"
               PROVE  \E p \in Procs : acc[p] \in {"checked", "accepted"} /\ ~closed[p]
    BY DEF AlwaysServing
  <2> QED
    BY FirstIsProcess DEF ServerInv, ServingInv, Untold, Accepting
<1> QED
  BY <1>1, ServerInvariance, PTL

\* A process that ended after SIGTERM has cut none of its connections, and has
\* not left a counted background task behind unless Shutdown gave up waiting
\* (grace.go:102, server_shutdown.go:25).
THEOREM NothingIsLeft == Spec => []LeavesNothing
<1>1. TypeOK /\ ServerInv => LeavesNothing
  BY DEF ServerInv, DrainedInv, BackgroundInv, LeavesNothing
<1> QED
  BY <1>1, ServerInvariance, PTL

\* Undisturbed, no connection that waits in the socket's queue is reset: the
\* process that closes its socket is never the last one that holds it
\* (grace.go:106, 266).
THEOREM QueueIsKept == Spec => []NothingRefused
<1>1. TypeOK /\ ServerInv => NothingRefused
  BY DEF ServerInv
<1> QED
  BY <1>1, ServerInvariance, PTL

-----------------------------------------------------------------------------
(* The intent procedure *)


\* The variables have their types, and keep them.
LEMMA IntentTypeInit == IntentInit => IntentTypeOK
<1> SUFFICES ASSUME IntentInit PROVE IntentTypeOK
  OBVIOUS
<1>1. /\ done \in [Intent -> BOOLEAN] /\ timer \in [Intent -> BOOLEAN] /\ ctxDone \in BOOLEAN
      /\ collecting \in [Intent -> BOOLEAN]
  BY Zenon DEF IntentInit
<1>2. worker \in [Intent -> [PreWorker -> {"off", "busy", "sending", "gone"}]]
  <2>1. [w \in PreWorker |-> "off"] \in [PreWorker -> {"off", "busy", "sending", "gone"}]
    OBVIOUS
  <2> QED
    BY <2>1, Zenon DEF IntentInit
<1>3. commitIntents \subseteq CommitWorker
  BY DEF IntentInit, CommitWorker
<1> QED
  BY <1>1, <1>2, <1>3 DEF IntentInit, IntentTypeOK

\* Every step keeps the types.
LEMMA IntentTypeStep == IntentTypeOK /\ [IntentNext]_intentVars => IntentTypeOK'
<1> SUFFICES ASSUME IntentTypeOK, [IntentNext]_intentVars PROVE IntentTypeOK'
  OBVIOUS
<1> USE DEF IntentTypeOK
<1>1. CASE UNCHANGED intentVars \/ CancelContext
  BY <1>1 DEF intentVars, call, commit, lock, CancelContext
<1>2. ASSUME NEW w \in Latecomer, RegisterCommitIntentWorker(w) PROVE IntentTypeOK'
  <2>1. UNCHANGED <<call, commit, readers, ctxDone>>
    BY <1>2 DEF RegisterCommitIntentWorker
  <2>2. commitIntents' \subseteq CommitWorker
    BY <1>2 DEF RegisterCommitIntentWorker, CommitWorker
  <2>3. register' \in [Latecomer -> {"idle", "waiting", "returned"}]
    BY <1>2 DEF RegisterCommitIntentWorker
  <2> QED
    BY <2>1, <2>2, <2>3 DEF call, commit
<1>3. ASSUME NEW i \in Intent, CallStep(i) PROVE IntentTypeOK'
  <2>1. CASE TooLate(i) \/ Grant(i)
    BY <2>1 DEF TooLate, Grant, RUnlock, commit, lock
  <2>2. CASE Start(i)
    <3>1. worker' \in [Intent -> [PreWorker -> {"off", "busy", "sending", "gone"}]]
      <4>1. [w \in PreWorker |-> "busy"] \in [PreWorker -> {"off", "busy", "sending", "gone"}]
        OBVIOUS
      <4> QED
        BY <2>2, <4>1, Zenon DEF Start
    <3>2. at' \in [Intent -> {"start", "pre", "post", "granted", "refused"}] /\ readers' \subseteq Intent
      BY <2>2 DEF Start, RLock
    <3> QED
      BY <2>2, <3>1, <3>2 DEF Start, commit
  <2>3. CASE TimerFires(i)
    <3>1. timer' \in [Intent -> BOOLEAN]
      BY <2>3, Zenon DEF TimerFires
    <3> QED
      BY <2>3, <3>1 DEF TimerFires, commit, lock
  <2>4. CASE SelectRefuse(i) \/ SelectContinue(i)
    <3>1. done' \in [Intent -> BOOLEAN]
      BY <2>4, Zenon DEF SelectRefuse, Refuse, SelectContinue
    <3>2. at' \in [Intent -> {"start", "pre", "post", "granted", "refused"}]
      BY <2>4 DEF SelectRefuse, Refuse, SelectContinue
    <3>3. c' \in [Intent -> 0..1]
      <4>1. c' = c \/ c' = [c EXCEPT ![i] = 0]
        BY <2>4 DEF SelectRefuse, Refuse, SelectContinue
      <4>2. c \in [Intent -> 0..1] /\ 0 \in 0..1
        OBVIOUS
      <4> HIDE DEF IntentTypeOK
      <4> QED
        BY <4>1, <4>2, Zenon
    <3> QED
      BY <2>4, <3>1, <3>2, <3>3 DEF SelectRefuse, Refuse, RUnlock, SelectContinue, commit, lock
  <2> QED
    BY <1>3, <2>1, <2>2, <2>3, <2>4 DEF CallStep
<1>4. ASSUME NEW i \in Intent, GoroutineStep(i) PROVE IntentTypeOK'
  <2>1. ASSUME NEW w \in CommitWorker, CommitAnswer(i, w) PROVE IntentTypeOK'
    BY <2>1 DEF CommitAnswer, Answered, call, lock
  <2>2. CASE CommitReceived(i) \/ CommitTimeout(i)
    BY <2>2 DEF CommitReceived, CommitTimeout, call, lock
  <2>3. CASE CommitStart(i)
    <3>1. collecting' \in [Intent -> BOOLEAN]
      BY <2>3, Zenon DEF CommitStart, CommitRuns
    <3> QED
      BY <2>3, <3>1 DEF CommitStart, CommitRuns, call, lock
  <2> QED
    BY <1>4, <2>1, <2>2, <2>3 DEF GoroutineStep
<1>5. ASSUME NEW i \in Intent, CallCommitIntent(i) PROVE IntentTypeOK'
  BY <1>5 DEF CallCommitIntent, call, lock
<1>6. ASSUME NEW i \in Intent, NEW w \in PreWorker, WorkerDecides(i, w) \/ WorkerSends(i, w) PROVE IntentTypeOK'
  <2>1. PICK next \in {"sending", "gone"} : worker' = [worker EXCEPT ![i][w] = next]
    BY <1>6 DEF WorkerDecides, WorkerSends, Sends
  <2>2. worker' \in [Intent -> [PreWorker -> {"off", "busy", "sending", "gone"}]]
    <3>1. worker[i] \in [PreWorker -> {"off", "busy", "sending", "gone"}]
      OBVIOUS
    <3>2. [worker[i] EXCEPT ![w] = next] \in [PreWorker -> {"off", "busy", "sending", "gone"}]
      BY <3>1
    <3>3. worker' = [worker EXCEPT ![i] = [worker[i] EXCEPT ![w] = next]]
      BY <2>1
    <3> QED
      BY <3>2, <3>3, Zenon
  <2>3. c' \in [Intent -> 0..1]
    BY <1>6 DEF WorkerDecides, WorkerSends, Sends
  <2> QED
    BY <1>6, <2>2, <2>3 DEF WorkerDecides, WorkerSends, Sends, commit, lock
<1> QED
  BY <1>1, <1>2, <1>3, <1>4, <1>5, <1>6 DEF IntentNext

\* Every variable has its type in every reachable state.
THEOREM IntentTypeCorrect == IntentSpec => []IntentTypeOK
  BY IntentTypeInit, IntentTypeStep, PTL DEF IntentSpec

----------------------------------------------------------------------------
(* The inductive invariant.                                                *)

\* The commit worker NewService registers is never removed, so that a call of the
\* CommitIntentFunc leaves a mark in due even before any other registration.
RegisteredInv == /\ Notify \in commitIntents
                 /\ \A i \in Intent : due[i] \subseteq commitIntents

\* The goroutine runs only after the CommitIntentFunc was called, which is
\* called once, and what it runs is the list at that time or a longer one.
GoroutineOK(i) ==
    /\ goroutine[i] \in {"locking", "running", "ended"} => due[i] # {}
    /\ goroutine[i] \in {"running", "ended"} => due[i] \subseteq invoked[i] /\ running[i] \subseteq invoked[i]
    /\ goroutine[i] \in {"none", "waiting", "locking", "expired", "ended"} => running[i] = {}

\* An intent holds the lock for reading exactly while its workers run and its
\* goroutine is started; it has a goroutine exactly when it was granted; its done
\* channel is closed once it is past the workers, unless it had none or was too late.
CallOK(i) ==
    /\ i \in readers <=> at[i] \in {"pre", "post"}
    /\ goroutine[i] # "none" <=> at[i] = "granted"
    /\ due[i] # {} => at[i] = "granted"
    /\ at[i] \in {"start", "pre"} => ~done[i]

IntentInv == /\ RegisteredInv
             /\ \A i \in Intent : GoroutineOK(i) /\ CallOK(i)

\* Every step keeps the invariant.
LEMMA IntentInvStep == IntentTypeOK /\ IntentInv /\ [IntentNext]_intentVars => IntentInv'
<1> SUFFICES ASSUME IntentTypeOK, IntentInv, [IntentNext]_intentVars PROVE IntentInv'
  OBVIOUS
<1> USE DEF IntentInv, RegisteredInv, GoroutineOK, CallOK
<1>1. CASE UNCHANGED intentVars \/ CancelContext
  BY <1>1 DEF intentVars, call, commit, lock, CancelContext
<1>2. ASSUME NEW w \in Latecomer, RegisterCommitIntentWorker(w) PROVE IntentInv'
  BY <1>2 DEF RegisterCommitIntentWorker, call, commit
<1>3. ASSUME NEW i \in Intent, CallStep(i) PROVE IntentInv'
  <2>1. CASE TooLate(i) \/ TimerFires(i) \/ SelectContinue(i)
    BY <2>1 DEF TooLate, TimerFires, SelectContinue, commit, lock, IntentTypeOK
  <2>2. CASE Start(i)
    BY <2>2 DEF Start, RLock, commit, IntentTypeOK
  <2>3. CASE SelectRefuse(i)
    BY <2>3 DEF SelectRefuse, Refuse, RUnlock, commit, IntentTypeOK
  <2>4. CASE Grant(i)
    BY <2>4 DEF Grant, RUnlock, IntentTypeOK
  <2> QED
    BY <1>3, <2>1, <2>2, <2>3, <2>4 DEF CallStep
<1>4. ASSUME NEW i \in Intent, GoroutineStep(i) PROVE IntentInv'
  <2>1. ASSUME NEW w \in CommitWorker, CommitAnswer(i, w) PROVE IntentInv'
    BY <2>1 DEF CommitAnswer, Answered, call, lock, IntentTypeOK
  <2>2. CASE CommitReceived(i) \/ CommitTimeout(i)
    BY <2>2 DEF CommitReceived, CommitTimeout, call, lock, IntentTypeOK
  <2>3. CASE CommitStart(i)
    BY <2>3 DEF CommitStart, CommitRuns, call, lock, IntentTypeOK
  <2> QED
    BY <1>4, <2>1, <2>2, <2>3 DEF GoroutineStep
<1>5. ASSUME NEW i \in Intent, CallCommitIntent(i) PROVE IntentInv'
  BY <1>5 DEF CallCommitIntent, call, lock, IntentTypeOK
<1>6. ASSUME NEW i \in Intent, NEW w \in PreWorker, WorkerDecides(i, w) \/ WorkerSends(i, w) PROVE IntentInv'
  BY <1>6 DEF WorkerDecides, WorkerSends, Sends, commit, lock
<1> QED
  BY <1>1, <1>2, <1>3, <1>4, <1>5, <1>6 DEF IntentNext

\* The invariant holds in every reachable state.
THEOREM IntentInvariance == IntentSpec => []IntentInv
<1>1. IntentInit => IntentInv
  BY DEF IntentInit, IntentInv, RegisteredInv, GoroutineOK, CallOK
<1> QED
  BY <1>1, IntentTypeCorrect, IntentInvStep, PTL DEF IntentSpec

\* Every commit worker registered when the CommitIntentFunc was called is run, or
\* the goroutine gave up: one registered while the intent was decided, or after it
\* was granted, is not forgotten (service.go:501).
THEOREM RegisteredWorkersRun == IntentSpec => []RegisteredAreRun
<1>1. IntentInv => RegisteredAreRun
  BY DEF IntentInv, GoroutineOK, RegisteredAreRun
<1> QED
  BY <1>1, IntentInvariance, PTL

\* No intent that was refused or granted holds the lock.
LockReleased == \A i \in Intent : at[i] \in {"refused", "granted"} => i \notin readers

\* The lock is released on every path through handleIntent, so that nothing but
\* intents at work holds up a registration (service.go:418-441).
THEOREM LockIsReleased == IntentSpec => []LockReleased
<1>1. IntentInv => LockReleased
  BY DEF IntentInv, CallOK, LockReleased
<1> QED
  BY <1>1, IntentInvariance, PTL

=============================================================================
