--------------------------- MODULE GracefulServer ---------------------------
(***************************************************************************)
(* The life of the daemon's processes: main and setDefaults (cmd/paymentd),*)
(* Server.Serve, wait and Shutdown (pkg/server), the signal loop and the   *)
(* listener of the vendored package grace, and the background task of the  *)
(* payment service.                                                        *)
(*                                                                         *)
(* SIGUSR2 makes a process start a child that inherits its socket; once the*)
(* child serves it sends its parent SIGTERM; SIGTERM is read by two        *)
(* goroutines: grace.Wait closes the listener and waits for the accepted   *)
(* connections, Shutdown cancels the context and waits for the background  *)
(* tasks.  Serve returns when both are through.                            *)
(*                                                                         *)
(* Every process of the model has one listener and one background task.    *)
(***************************************************************************)
EXTENDS Naturals, FiniteSets, Sequences

CONSTANTS
    Conns,          \* client connections
    MaxEvents       \* bound: signals an operator sends and failures of Accept

ASSUME ServerAssumption == MaxEvents \in Nat

Procs == 1..(MaxEvents + 1)
Init1 == 0                          \* init, the parent of orphans
Nobody == 0

VARIABLES
    main,           \* where Serve is
    parent,         \* the process that started it
    grace,          \* the goroutine in grace.Wait
    ch,             \* grace.Wait's channel of signals
    sigs,           \* whether SIGTERM is in the channel of Server.wait
    shut,           \* the goroutine that runs Shutdown
    background,     \* handleBackground of the payment service
    acc,            \* the http.Server's Accept loop
    closed,         \* listener.closed
    fd,             \* whether the process holds the shared socket open
    conn,           \* connections: in the kernel's queue or of a process
    events,         \* signals of an operator and failures of Accept so far
    undisturbed     \* no SIGTERM of an operator and no failed Accept among them

procVars == <<main, parent, grace, ch, sigs, shut, background>>
listenVars == <<acc, closed, fd, conn>>
vars == <<procVars, listenVars, events, undisturbed>>

Of(p, st) == [by |-> p, st |-> st]
Unowned(st) == Of(Nobody, st)

ConnState == [by : {Nobody}, st : {"none", "queued", "refused"}]
             \cup [by : Procs, st : {"accepted", "served", "dropped"}]

TypeOK ==
    /\ main \in [Procs -> {"none", "starting", "serving", "handover", "ready",
                           "waiting", "returned", "exited"}]
    /\ parent \in [Procs -> Procs \cup {Init1}]
    /\ grace \in [Procs -> {"none", "loop", "closing", "draining", "done", "failed"}]
    /\ ch \in [Procs -> Seq({"TERM", "USR2"})] /\ \A p \in Procs : Len(ch[p]) <= 2
    /\ sigs \in [Procs -> BOOLEAN]
    /\ shut \in [Procs -> {"none", "armed", "cancelled", "closed", "timedout"}]
    /\ background \in [Procs -> {"none", "spawned", "added", "late", "done"}]
    /\ acc \in [Procs -> {"off", "checked", "accepted", "stopped", "failing",
                          "failed"}]
    /\ closed \in [Procs -> BOOLEAN] /\ fd \in [Procs -> BOOLEAN]
    /\ conn \in [Conns -> ConnState]
    /\ events \in 0..MaxEvents /\ undisturbed \in BOOLEAN

Init ==
    /\ main = [p \in Procs |-> IF p = 1 THEN "starting" ELSE "none"]
    /\ parent = [p \in Procs |-> Init1]
    /\ grace = [p \in Procs |-> "none"] /\ ch = [p \in Procs |-> << >>]
    /\ sigs = [p \in Procs |-> FALSE] /\ shut = [p \in Procs |-> "none"]
    /\ background = [p \in Procs |-> "none"]
    /\ acc = [p \in Procs |-> "off"] /\ closed = [p \in Procs |-> FALSE]
    /\ fd = [p \in Procs |-> FALSE] /\ conn = [c \in Conns |-> Unowned("none")]
    /\ events = 0 /\ undisturbed = TRUE

Running(p) == main[p] \notin {"none", "exited"}

-----------------------------------------------------------------------------
(* The socket.  Parent and child share it; the connections that wait in its *)
(* queue are reset when the last process closes it.                         *)

\* connections once p no longer holds the socket
Released(p) ==
    [c \in Conns |->
        IF conn[c].st = "queued" /\ \A q \in Procs \ {p} : ~fd[q]
        THEN Unowned("refused") ELSE conn[c]]

\* the count taken only after a connection was accepted (mutant)
wgAfterAccept(p) == Cardinality({c \in Conns : conn[c] = Of(p, "served")})

\* the count of the listener's WaitGroup: Accept adds one before it looks at
\* closed and hands it over to the connection it returns, whose Close takes it off
wg(p) == Cardinality({c \in Conns : conn[c] = Of(p, "served")})
         + (IF acc[p] \in {"checked", "accepted"} THEN 1 ELSE 0)

\* what the end of a process takes with it; its children become init's
Die(p) ==
    /\ main' = [main EXCEPT ![p] = "exited"]
    /\ fd' = [fd EXCEPT ![p] = FALSE]
    /\ acc' = [acc EXCEPT ![p] = "off"]
    /\ conn' = [c \in Conns |->
                  IF conn[c] \in {Of(p, "accepted"), Of(p, "served")}
                  THEN Of(p, "dropped") ELSE Released(p)[c]]
    /\ ch' = [ch EXCEPT ![p] = << >>] /\ sigs' = [sigs EXCEPT ![p] = FALSE]
    /\ closed' = [closed EXCEPT ![p] = FALSE]
    /\ parent' = [q \in Procs |-> IF parent[q] = p \/ q = p THEN Init1 ELSE parent[q]]
    /\ UNCHANGED <<grace, shut, background>>

Connect(c) ==
    /\ conn[c].st = "none" /\ \E p \in Procs : fd[p]
    /\ conn' = [conn EXCEPT ![c] = Unowned("queued")]
    /\ UNCHANGED <<procVars, acc, closed, fd, events, undisturbed>>

-----------------------------------------------------------------------------
(* Starting, and closing the parent *)

\* main up to srv.Serve, then listen and serveHTTP, which starts the Accept loop:
\* it looks at closed, which is not set yet, and waits for a connection
Startup(p) ==
    /\ main[p] = "starting"
    /\ main' = [main EXCEPT ![p] = "serving"]
    /\ background' = [background EXCEPT ![p] = "spawned"]
    /\ fd' = [fd EXCEPT ![p] = TRUE] /\ acc' = [acc EXCEPT ![p] = "checked"]
    /\ UNCHANGED <<parent, grace, ch, sigs, shut, closed, conn, events, undisturbed>>

\* a start that ends before serveHTTP: configuration, database, defaults, an
\* address in use, as many listeners inherited as there are not services
StartFail(p) ==
    /\ main[p] = "starting" /\ Die(p)
    /\ UNCHANGED <<events, undisturbed>>

\* os.Getppid, 1 when the parent has ended
Orphan(p) == parent[p] = Init1

\* Serve looks whether there is a parent to close
Handover(p) ==
    /\ main[p] = "serving"
    /\ main' = [main EXCEPT ![p] = IF Orphan(p) THEN "ready" ELSE "handover"]
    /\ UNCHANGED <<parent, grace, ch, sigs, shut, background, listenVars, events, undisturbed>>

\* SIGTERM reaches q: the channels that are registered get it; without a channel
\* it ends the process.  A channel nobody reads any more changes nothing.
Notified(q) ==
    /\ ch' = [ch EXCEPT ![q] = IF grace[q] = "loop" /\ Len(@) < 2
                               THEN Append(@, "TERM") ELSE @]
    /\ sigs' = [sigs EXCEPT ![q] = shut[q] = "armed"]

\* CloseParent, with the parent alive
CloseParent(p) ==
    /\ main[p] = "handover" /\ ~Orphan(p)
    /\ main' = [main EXCEPT ![p] = "ready"]
    /\ Notified(parent[p])
    /\ UNCHANGED <<parent, grace, shut, background, listenVars, events, undisturbed>>

\* CloseParent, the parent ended since Serve looked: CloseParent asks for the
\* parent again and is content with init, or its kill fails and Serve returns
CloseParentGone(p) ==
    /\ main[p] = "handover" /\ Orphan(p)
    /\ \/ /\ main' = [main EXCEPT ![p] = "ready"]
          /\ UNCHANGED <<parent, grace, ch, sigs, shut, background, listenVars>>
       \/ Die(p)
    /\ UNCHANGED <<events, undisturbed>>

-----------------------------------------------------------------------------
(* Waiting for signals *)

\* wait registers its channel for SIGTERM and starts the goroutine of Shutdown
Arm(p) ==
    /\ main[p] = "ready"
    /\ main' = [main EXCEPT ![p] = "waiting"]
    /\ shut' = [shut EXCEPT ![p] = "armed"]
    /\ UNCHANGED <<parent, grace, ch, sigs, background, listenVars, events, undisturbed>>

\* grace.Wait, in a goroutine of its own, registers the other one
GraceNotify(p) ==
    /\ main[p] = "waiting" /\ grace[p] = "none"
    /\ grace' = [grace EXCEPT ![p] = "loop"]
    /\ UNCHANGED <<main, parent, ch, sigs, shut, background, listenVars, events, undisturbed>>

\* an operator's kill -TERM
SendTerm(p) ==
    /\ Running(p) /\ events < MaxEvents
    /\ events' = events + 1 /\ undisturbed' = FALSE
    /\ IF shut[p] = "none" THEN Die(p)
       ELSE /\ Notified(p)
            /\ UNCHANGED <<main, parent, grace, shut, background, listenVars>>

\* an operator's kill -USR2, to a process whose grace.Wait expects it: sent
\* before, it ends the process like SIGTERM
SendUsr2(p) ==
    /\ grace[p] = "loop" /\ Running(p) /\ Len(ch[p]) < 2 /\ events < MaxEvents
    /\ events' = events + 1
    /\ ch' = [ch EXCEPT ![p] = Append(@, "USR2")]
    /\ UNCHANGED <<main, parent, grace, sigs, shut, background, listenVars, undisturbed>>

\* grace.Wait reads a signal
Reads(p, sig) ==
    /\ Running(p) /\ grace[p] = "loop" /\ ch[p] # << >> /\ Head(ch[p]) = sig
    /\ ch' = [ch EXCEPT ![p] = Tail(@)]

\* the parent stops accepting as soon as the child is started (mutant)
RestartAndClose(p) ==
    /\ Reads(p, "USR2") /\ fd[p]
    /\ \E n \in Procs :
         /\ main[n] = "none" /\ \A q \in 1..(n - 1) : main[q] # "none"
         /\ main' = [main EXCEPT ![n] = "starting"]
         /\ parent' = [parent EXCEPT ![n] = p]
         /\ fd' = [fd EXCEPT ![n] = TRUE, ![p] = FALSE]
    /\ closed' = [closed EXCEPT ![p] = TRUE]
    /\ UNCHANGED <<grace, sigs, shut, background, acc, conn, events, undisturbed>>

\* Restart: the child has the socket from the first, the parent goes on
Restart(p) ==
    /\ Reads(p, "USR2") /\ fd[p]
    /\ \E n \in Procs :
         /\ main[n] = "none" /\ \A q \in 1..(n - 1) : main[q] # "none"
         /\ main' = [main EXCEPT ![n] = "starting"]
         /\ parent' = [parent EXCEPT ![n] = p]
         /\ fd' = [fd EXCEPT ![n] = TRUE]
    /\ UNCHANGED <<grace, sigs, shut, background, acc, closed, conn, events, undisturbed>>

\* Restart fails: grace.Wait returns the error and reads no signal again
RestartFail(p) ==
    /\ Reads(p, "USR2")
    /\ grace' = [grace EXCEPT ![p] = "failed"]
    /\ UNCHANGED <<main, parent, sigs, shut, background, listenVars, events, undisturbed>>

\* SIGTERM: term calls the listener's Close, which first sets closed ...
Term(p) ==
    /\ Reads(p, "TERM")
    /\ grace' = [grace EXCEPT ![p] = "closing"]
    /\ closed' = [closed EXCEPT ![p] = TRUE]
    /\ UNCHANGED <<main, parent, sigs, shut, background, acc, fd, conn, events, undisturbed>>

\* ... then closes the socket ...
CloseSocket(p) ==
    /\ Running(p) /\ grace[p] = "closing"
    /\ grace' = [grace EXCEPT ![p] = "draining"]
    /\ fd' = [fd EXCEPT ![p] = FALSE] /\ conn' = Released(p)
    /\ UNCHANGED <<main, parent, ch, sigs, shut, background, acc, closed, events, undisturbed>>

\* ... and waits, without a timeout, for the accepted connections
Drained(p) ==
    /\ Running(p) /\ grace[p] = "draining" /\ wg(p) = 0
    /\ grace' = [grace EXCEPT ![p] = "done"]
    /\ UNCHANGED <<main, parent, ch, sigs, shut, background, listenVars, events, undisturbed>>

-----------------------------------------------------------------------------
(* Shutdown and the background task *)

\* Shutdown switches keep-alives off and cancels the server's context.  By then
\* handleBackground, in its own goroutine, has counted itself or has not.
Shutdown(p) ==
    /\ Running(p) /\ sigs[p]
    /\ sigs' = [sigs EXCEPT ![p] = FALSE]
    /\ shut' = [shut EXCEPT ![p] = "cancelled"]
    /\ \E b \in {"spawned", "added"} : background' = [background EXCEPT ![p] = b]
    /\ UNCHANGED <<main, parent, grace, ch, listenVars, events, undisturbed>>

\* Shutdown neither switches keep-alives off nor cancels (mutant)
NeverCancelled(p) == FALSE

\* keep-alives are off and the context is done
Cancelled(p) == shut[p] \in {"cancelled", "closed", "timedout"}

\* server.Wait.Wait returns: no task is counted
WaitDone(p) ==
    /\ Running(p) /\ shut[p] = "cancelled" /\ background[p] \notin {"added", "late"}
    /\ shut' = [shut EXCEPT ![p] = "closed"]
    /\ UNCHANGED <<main, parent, grace, ch, sigs, background, listenVars, events, undisturbed>>

\* serverWaitTimeout passes first
WaitTimeout(p) ==
    /\ Running(p) /\ shut[p] = "cancelled"
    /\ shut' = [shut EXCEPT ![p] = "timedout"]
    /\ UNCHANGED <<main, parent, grace, ch, sigs, background, listenVars, events, undisturbed>>

\* handleBackground counts itself only now
BackgroundAdd(p) ==
    /\ Running(p) /\ background[p] = "spawned" /\ Cancelled(p)
    /\ background' = [background EXCEPT ![p] = "late"]
    /\ UNCHANGED <<main, parent, grace, ch, sigs, shut, listenVars, events, undisturbed>>

\* the context is done: idle connections are closed
BackgroundDone(p) ==
    /\ Running(p) /\ background[p] \in {"added", "late"} /\ Cancelled(p)
    /\ background' = [background EXCEPT ![p] = "done"]
    /\ UNCHANGED <<main, parent, grace, ch, sigs, shut, listenVars, events, undisturbed>>

\* wait returns with the end of grace.Wait or an error of the http.Server
WaitReturns(p) ==
    /\ main[p] = "waiting"
    /\ grace[p] \in {"done", "failed"} \/ acc[p] = "failed"
    /\ main' = [main EXCEPT ![p] = "returned"]
    /\ UNCHANGED <<parent, grace, ch, sigs, shut, background, listenVars, events, undisturbed>>

\* Serve returns once shutdown is closed, and main with it
Exit(p) ==
    /\ main[p] = "returned" /\ shut[p] \in {"closed", "timedout"} /\ Die(p)
    /\ UNCHANGED <<events, undisturbed>>

-----------------------------------------------------------------------------
(* The Accept loop of the http.Server, which closes the listener on its way out *)

\* the kernel hands it a connection
Accept(p, c) ==
    /\ Running(p) /\ acc[p] = "checked" /\ fd[p] /\ conn[c].st = "queued"
    /\ acc' = [acc EXCEPT ![p] = "accepted"]
    /\ conn' = [conn EXCEPT ![c] = Of(p, "accepted")]
    /\ UNCHANGED <<procVars, closed, fd, events, undisturbed>>

\* the http.Server serves one connection and does not come back (mutant)
AcceptReturnOnce(p, c) ==
    /\ Running(p) /\ acc[p] = "accepted" /\ conn[c] = Of(p, "accepted")
    /\ acc' = [acc EXCEPT ![p] = "stopped"]
    /\ conn' = [conn EXCEPT ![c] = Of(p, "served")]
    /\ UNCHANGED <<procVars, closed, fd, events, undisturbed>>

\* the http.Server serves it in a goroutine and calls Accept again, which looks
\* at closed
AcceptReturn(p, c) ==
    /\ Running(p) /\ acc[p] = "accepted" /\ conn[c] = Of(p, "accepted")
    /\ acc' = [acc EXCEPT ![p] = IF closed[p] THEN "stopped" ELSE "checked"]
    /\ fd' = [fd EXCEPT ![p] = @ /\ ~closed[p]]
    /\ conn' = [(IF closed[p] THEN Released(p) ELSE conn) EXCEPT ![c] = Of(p, "served")]
    /\ UNCHANGED <<procVars, closed, events, undisturbed>>

\* the socket was closed: ErrAlreadyClosed
AcceptClosed(p) ==
    /\ Running(p) /\ acc[p] = "checked" /\ ~fd[p]
    /\ acc' = [acc EXCEPT ![p] = "stopped"]
    /\ UNCHANGED <<procVars, closed, fd, conn, events, undisturbed>>

\* any other error that lasts: the http.Server closes the listener ...
AcceptError(p) ==
    /\ Running(p) /\ acc[p] = "checked" /\ fd[p] /\ events < MaxEvents
    /\ acc' = [acc EXCEPT ![p] = "failing"]
    /\ closed' = [closed EXCEPT ![p] = TRUE]
    /\ fd' = [fd EXCEPT ![p] = FALSE] /\ conn' = Released(p)
    /\ events' = events + 1 /\ undisturbed' = FALSE
    /\ UNCHANGED procVars

\* ... and sends the error when the accepted connections have ended
AcceptErrorSent(p) ==
    /\ Running(p) /\ acc[p] = "failing" /\ wg(p) = 0
    /\ acc' = [acc EXCEPT ![p] = "failed"]
    /\ UNCHANGED <<procVars, closed, fd, conn, events, undisturbed>>

-----------------------------------------------------------------------------
(* Requests *)

\* a connection ends with a response when keep-alives are off, and at the
\* client's wish or the read timeout otherwise
CloseConn(c) ==
    /\ conn[c].st = "served"
    /\ conn' = [conn EXCEPT ![c] = Unowned("none")]
    /\ UNCHANGED <<procVars, acc, closed, fd, events, undisturbed>>

-----------------------------------------------------------------------------
\* the steps the scheduler or a timer brings about
ProcessStep(p) ==
    \/ Startup(p) \/ StartFail(p) \/ Handover(p) \/ CloseParent(p) \/ CloseParentGone(p)
    \/ Arm(p) \/ WaitReturns(p) \/ Exit(p)

GraceStep(p) ==
    \/ GraceNotify(p) \/ Restart(p) \/ RestartFail(p) \/ Term(p)
    \/ CloseSocket(p) \/ Drained(p)

ShutdownStep(p) == Shutdown(p) \/ WaitDone(p) \/ WaitTimeout(p)

BackgroundStep(p) == BackgroundAdd(p) \/ BackgroundDone(p)

AcceptStep(p) ==
    \/ AcceptClosed(p) \/ AcceptErrorSent(p)
    \/ \E c \in Conns : AcceptReturn(p, c) \/ Accept(p, c)

Next ==
    \/ \E p \in Procs : \/ ProcessStep(p) \/ GraceStep(p) \/ ShutdownStep(p)
                        \/ BackgroundStep(p) \/ AcceptStep(p)
                        \/ AcceptError(p) \/ SendTerm(p) \/ SendUsr2(p)
    \/ \E c \in Conns : Connect(c) \/ CloseConn(c)

\* A process that can go on does.  A connection must end only once its process
\* has switched keep-alives off: until then a client may keep it busy.
Fairness ==
    /\ \A p \in Procs : /\ WF_vars(ProcessStep(p)) /\ WF_vars(GraceStep(p))
                        /\ WF_vars(ShutdownStep(p)) /\ WF_vars(BackgroundStep(p))
                        /\ WF_vars(AcceptStep(p))
    /\ \A c \in Conns :
         WF_vars(conn[c].st = "served" /\ Cancelled(conn[c].by) /\ CloseConn(c))

Spec == Init /\ [][Next]_vars /\ Fairness

-----------------------------------------------------------------------------
\* As long as no operator stops a process and no listener fails, some process
\* accepts connections, however many restarts are under way and however many of
\* the new processes fail: a parent closes its listener only when a child serves
\* (server.go:122-126, grace.go:250).
AlwaysServing ==
    undisturbed /\ background[1] # "none" =>
        \E p \in Procs : acc[p] \in {"checked", "accepted"} /\ ~closed[p]

\* A process whose grace.Wait ended with SIGTERM leaves nothing half done: no
\* connection it accepted is cut, and the background task that was counted in
\* time has ended unless Shutdown gave up waiting.  (After a failed restart or a
\* failed listener, Serve returns without draining.)  grace.go:102,
\* server_shutdown.go:25.
LeavesNothing ==
    \A p \in Procs : main[p] = "exited" /\ grace[p] = "done" =>
        /\ \A c \in Conns : conn[c] # Of(p, "dropped")
        /\ shut[p] = "closed" => background[p] # "added"

\* SIGTERM that reached grace.Wait ends the process: its connections end because
\* keep-alives are off, and Shutdown waits only so long for background tasks
\* (server_shutdown.go:18, 30; grace.go:172).
TermEnds ==
    \A p \in Procs : (\E i \in DOMAIN ch[p] : ch[p][i] = "TERM") ~> main[p] = "exited"

\* A connection in the socket's queue is accepted by one of the processes that
\* share it, unless an operator stops one or a listener fails (grace.go:106, 266).
QueuedIsServed ==
    \A c \in Conns : conn[c].st = "queued" ~> conn[c].st = "accepted" \/ ~undisturbed

=============================================================================
