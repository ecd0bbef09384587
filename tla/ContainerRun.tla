---------------------------- MODULE ContainerRun ----------------------------
(***************************************************************************)
(* ContainerCommand::status: one command in a prepared container.          *)
(*                                                                         *)
(* Every process waits for one child.  "host", "outer" and "inner" do it   *)
(* in processes::run; "outer" and "inner" are run_in_container before and  *)
(* after it enters the PID namespace, "init" is dumb_init, and "command"   *)
(* is setup.sh with the command of the caller.  "sentinel" is a process of *)
(* the outer namespaces that nobody waits for.                             *)
(*                                                                         *)
(* With a login mode, the host also has a thread that reads .control, to   *)
(* take the terminal back from the shells of the container.  It ends when  *)
(* every copy of the write end of a pipe, tx, is closed; the pipe has no   *)
(* O_CLOEXEC, so every process of the run inherits one.                    *)
(***************************************************************************)
EXTENDS Integers, Sequences, SequencesExt

Chain == <<"host", "outer", "init", "inner", "command">>
Procs == ToSet(Chain) \union {"sentinel"}
Child == [i \in {"host", "outer", "init", "inner"} |->
            Chain[1 + CHOOSE k \in 1 .. 4 : Chain[k] = i]]
Waiters == DOMAIN Child
Parent == [p \in Procs \ {"host"} |->
            IF p = "sentinel" THEN "outer" ELSE CHOOSE i \in Waiters : Child[i] = p]
Runners == {"host", "outer", "inner"}

Number == [INT |-> 2, TERM |-> 15]
Signals == DOMAIN Number \union {"CHLD"}

NoStatus == [by |-> "none", n |-> 0]
Failed == [by |-> "error", n |-> 1]
Exited(n) == [by |-> "exit", n |-> n]
Killed(s) == [by |-> "signal", n |-> Number[s]]

VARIABLES
    st,         \* where each process is
    status,     \* how it ended
    pending,    \* signals it has not handled yet
    login,      \* is the login mode other than never?
    endless,    \* does the command run until it is told to stop?
    sent,       \* signals sent from outside to this run
    lost,       \* did the kernel drop the SIGTERM for dumb_init?
    reader,     \* the thread that reads .control
    fifo,       \* bytes in .control
    tx,         \* who holds the write end of the pipe
    terminal    \* whose process group is in the foreground

runVars == <<st, status, pending, login, endless, sent, lost,
             reader, fifo, tx, terminal>>
----------------------------------------------------------------------------
Idle ==
    /\ st = [p \in Procs |-> "none"]
    /\ status = [p \in Procs |-> NoStatus]
    /\ pending = [p \in Procs |-> {}]
    /\ login = FALSE
    /\ endless = FALSE
    /\ sent = {}
    /\ lost = FALSE
    /\ reader = "none"
    /\ fifo = 0
    /\ tx = {}
    /\ terminal = "ours"

Alive(p) == st[p] \notin {"none", "zombie", "reaped", "done", "failed"}

\* The signals run() registers for
Caught == {"CHLD", "INT", "TERM"}

Handles(p, s) ==
    \/ p \in Runners /\ st[p] \in {"registered", "waiting"} /\ s \in Caught
    \/ p = "init" /\ st[p] \in {"registered", "waiting"}
    \/ p = "command" /\ s # "CHLD"

\* A namespace dies with its init
Dying(p) == IF p = "init" THEN {q \in {"init", "inner", "command"} : Alive(q)} ELSE {p}

(* The processes of dead end, each with its status in how, and the others  *)
(* get the signals in news on top of those in left                         *)
Happens(before, left, dead, how, news) ==
    LET all == UNION {Dying(p) : p \in dead}
        bereft == {Parent[p] : p \in all \ {"host"}}
    IN  /\ st' = [p \in Procs |-> IF p \in all THEN "zombie" ELSE before[p]]
        /\ status' = [p \in Procs |-> IF p \in dead THEN how[p] ELSE status[p]]
        /\ pending' = [p \in Procs |->
               IF p \in all THEN {}
               ELSE left[p] \union news[p]
                    \union {s \in {"CHLD"} : p \in bereft /\ Handles(p, s)}]
        /\ tx' = tx \ all

Nothing == [p \in Procs |-> {}]
Enters(p, where) == [st EXCEPT ![p] = where]

Ends(p, how) == Happens(st, pending, {p}, [q \in {p} |-> how], Nothing)

\* The processes of group get a signal.  The kernel keeps the init of a
\* namespace from a signal it does not handle.
Signal(s, group, left) ==
    LET got == {p \in group : Handles(p, s)}
        killed == {p \in group \ got : Alive(p) /\ p # "init"}
    IN  /\ Happens(st, left, killed, [p \in killed |-> Killed(s)],
                   [p \in Procs |-> IF p \in got THEN {s} ELSE {}])
        /\ lost' = (lost \/ (s = "TERM" /\ "init" \in group \ got /\ Alive("init")))
----------------------------------------------------------------------------
(* status() up to the start of the container                               *)

\* Making .control fails if there is one already
CallFails(mode, exists) ==
    /\ mode /\ exists
    /\ st' = Enters("host", "failed")
    /\ UNCHANGED <<status, pending, login, endless, sent, lost,
                   reader, fifo, tx, terminal>>

\* A sentinel left over from the last run is of no interest
Fresh(where, mode, untilTold) ==
    /\ st' = [p \in Procs |-> IF p = "host" THEN where ELSE "none"]
    /\ status' = [p \in Procs |-> NoStatus]
    /\ pending' = Nothing
    /\ login' = mode
    /\ endless' = untilTold
    /\ sent' = {}
    /\ lost' = FALSE
    /\ reader' = IF mode THEN "opening" ELSE "none"
    /\ fifo' = 0
    /\ tx' = IF mode THEN {"host"} ELSE {}
    /\ terminal' = "ours"

Call(mode, exists, untilTold) == ~(mode /\ exists) /\ Fresh("starting", mode, untilTold)

control == <<reader, fifo, terminal>>
call == <<login, endless>>

\* A process that stays in the namespaces until outer is gone
StartSentinel ==
    /\ st["outer"] = "starting"
    /\ st["sentinel"] = "none"
    /\ st' = Enters("sentinel", "running")
    /\ tx' = tx \union {p \in {"sentinel"} : "outer" \in tx}
    /\ UNCHANGED <<status, pending, call, sent, lost, control>>

\* Its standard input closes with outer
EndSentinel ==
    /\ Alive("sentinel")
    /\ ~Alive("outer")
    /\ Ends("sentinel", Exited(0))
    /\ UNCHANGED <<call, sent, lost, control>>

\* Entering the namespaces or mounting the file systems of the container fails
EntryFails(p) ==
    /\ p \in {"outer", "inner"}
    /\ st[p] = "starting"
    /\ Ends(p, Exited(1))
    /\ UNCHANGED <<call, sent, lost, control>>

Register(p) ==
    /\ p \in Waiters
    /\ st[p] = "starting"
    /\ p = "outer" => st["sentinel"] # "none"
    /\ st' = Enters(p, "registered")
    /\ UNCHANGED <<status, pending, call, sent, lost, reader, fifo, tx, terminal>>

Spawn(p) ==
    /\ p \in Waiters
    /\ st[p] = "registered"
    /\ st' = [Enters(p, "waiting") EXCEPT ![Child[p]] =
                IF Child[p] = "command" THEN "running" ELSE "starting"]
    /\ tx' = tx \union {c \in {Child[p]} : p \in tx}
    /\ UNCHANGED <<status, pending, call, sent, lost, control>>

SpawnFails(p) ==
    /\ p \in Runners
    /\ st[p] = "registered"
    /\ IF p = "host"
       THEN /\ st' = Enters("host", "returned")
            /\ status' = [status EXCEPT !["host"] = Failed]
            /\ pending' = [pending EXCEPT !["host"] = {}]
            /\ UNCHANGED tx
       ELSE Ends(p, Exited(1))
    /\ UNCHANGED <<call, sent, lost, control>>
----------------------------------------------------------------------------
(* The loop of run(), and the one of dumb_init                             *)

\* status_to_exit_code
ExitCode(how) == IF how.by = "signal" THEN 128 + how.n ELSE how.n

\* Mutant: any SIGCHLD is taken for the child's
ChildIsDoneAlways(p) == TRUE

\* try_wait has a status
ChildIsDone(p) == st[Child[p]] = "zombie"

\* The host returns the status of its child; the others exit with it
Reap(p) ==
    LET how == Exited(ExitCode(status[Child[p]]))
        reaped == [st EXCEPT ![Child[p]] = "reaped"]
    IN  IF p = "host"
        THEN /\ st' = [reaped EXCEPT !["host"] = "returned"]
             /\ status' = [status EXCEPT !["host"] = status[Child[p]]]
             /\ pending' = [pending EXCEPT !["host"] = {}]
             /\ UNCHANGED tx
        ELSE Happens(reaped, pending, {p}, [q \in {p} |-> how], Nothing)

OnChild(p) ==
    /\ p \in Waiters
    /\ st[p] = "waiting"
    /\ "CHLD" \in pending[p]
    /\ IF ChildIsDone(p) THEN Reap(p)
       ELSE /\ pending' = [pending EXCEPT ![p] = @ \ {"CHLD"}]
            /\ UNCHANGED <<st, status, tx>>
    /\ UNCHANGED <<call, sent, lost, control>>

\* run() forwards SIGTERM only: the terminal sends SIGINT to the child too
Forwarded(p) == IF p = "init" THEN {"INT", "TERM"} ELSE {"TERM"}

OnSignal(p, s) ==
    /\ p \in Waiters
    /\ st[p] = "waiting"
    /\ s \in pending[p] \ {"CHLD"}
    /\ Signal(s, {c \in {Child[p]} : s \in Forwarded(p) /\ Alive(c)},
              [pending EXCEPT ![p] = @ \ {s}])
    /\ UNCHANGED <<call, sent, control>>
----------------------------------------------------------------------------
(* setup.sh and the command                                                *)

\* The interactive shell takes the terminal
StartShell ==
    /\ st["command"] = "running"
    /\ login
    /\ terminal' = "shell"
    /\ st' = Enters("command", "shell")
    /\ UNCHANGED <<status, pending, call, sent, lost, reader, fifo, tx>>

\* printf 't' > /.control waits until somebody reads it
AskForTerminal ==
    /\ st["command"] = "shell"
    /\ reader = "selecting"
    /\ fifo' = fifo + 1
    /\ st' = Enters("command", "told")
    /\ UNCHANGED <<status, pending, call, sent, lost, reader, tx, terminal>>

EndCommand(n) ==
    /\ ~endless
    /\ st["command"] = IF login THEN "told" ELSE "running"
    /\ Ends("command", Exited(n))
    /\ UNCHANGED <<call, sent, lost, control>>

Obey(s) ==
    /\ Alive("command")
    /\ s \in pending["command"]
    /\ Ends("command", Killed(s))
    /\ UNCHANGED <<call, sent, lost, control>>

\* A command may carry on after Ctrl+C
Ignore ==
    /\ Alive("command")
    /\ "INT" \in pending["command"]
    /\ pending' = [pending EXCEPT !["command"] = @ \ {"INT"}]
    /\ UNCHANGED <<st, status, call, sent, lost, control, tx>>
----------------------------------------------------------------------------
(* .control                                                                *)

OpenControl ==
    /\ reader = "opening"
    /\ reader' = "selecting"
    /\ UNCHANGED <<st, status, pending, call, sent, lost, fifo, tx, terminal>>

\* reset_controlling_terminal; the thread ends if it fails
ReadControl ==
    /\ reader = "selecting"
    /\ fifo > 0
    /\ fifo' = fifo - 1
    /\ \/ terminal' = "ours" /\ UNCHANGED reader
       \/ reader' = "broken" /\ UNCHANGED terminal
    /\ UNCHANGED <<st, status, pending, call, sent, lost, tx>>

\* Mutant: rx is looked at first
SeesEndFirst == tx = {}

\* select() found rx readable and .control not
SeesEnd == tx = {} /\ fifo = 0

StopReading ==
    /\ reader = "selecting"
    /\ SeesEnd
    /\ reader' = "stopped"
    /\ UNCHANGED <<st, status, pending, call, sent, lost, fifo, tx, terminal>>

\* Mutant: the write end is left open
LeaveControlOpen ==
    /\ st["host"] = "returned"
    /\ st' = Enters("host", "joining")
    /\ UNCHANGED <<status, pending, call, sent, lost, control, tx>>

\* ControlChannel::drop
CloseControl ==
    /\ st["host"] = "returned"
    /\ st' = Enters("host", "joining")
    /\ tx' = tx \ {"host"}
    /\ UNCHANGED <<status, pending, call, sent, lost, control>>

JoinReader ==
    /\ st["host"] = "joining"
    /\ reader \in {"none", "stopped", "broken"}
    /\ st' = Enters("host", "done")
    /\ UNCHANGED <<status, pending, call, sent, lost, control, tx>>
----------------------------------------------------------------------------
\* Bazel stops the action
Terminate ==
    /\ "TERM" \notin sent
    /\ st["host"] \in {"registered", "waiting"}
    /\ sent' = sent \union {"TERM"}
    /\ Signal("TERM", {"host"}, pending)
    /\ UNCHANGED <<call, control>>

\* Ctrl+C: the whole foreground process group gets it.  While a shell has the
\* terminal, that is another group.
Interrupt ==
    /\ "INT" \notin sent
    /\ st["host"] \in {"registered", "waiting"}
    /\ terminal = "ours"
    /\ sent' = sent \union {"INT"}
    /\ Signal("INT", {p \in Procs : Alive(p)}, pending)
    /\ UNCHANGED <<call, control>>

\* What each thread of control does by itself
ProcessSteps(p) ==
    \/ Register(p)
    \/ Spawn(p)
    \/ OnChild(p)
    \/ \E s \in {"INT", "TERM"} : OnSignal(p, s)

CommandSteps ==
    \/ StartShell
    \/ AskForTerminal
    \/ \E n \in {0, 1} : EndCommand(n)
    \/ Obey("TERM")

ReaderSteps == OpenControl \/ ReadControl \/ StopReading

RunNext ==
    \/ \E p \in Procs : ProcessSteps(p) \/ EntryFails(p) \/ SpawnFails(p)
    \/ StartSentinel
    \/ EndSentinel
    \/ CommandSteps
    \/ Obey("INT")
    \/ Ignore
    \/ ReaderSteps
    \/ CloseControl
    \/ JoinReader
    \/ Terminate
    \/ Interrupt
----------------------------------------------------------------------------
RunTypeOK ==
    /\ \A p \in Procs : st[p] \in
        IF p = "host"
        THEN {"none", "starting", "registered", "waiting", "returned", "joining", "done", "failed"}
        ELSE {"none", "starting", "registered", "waiting", "running", "shell", "told",
              "zombie", "reaped"}
    /\ \A p \in Procs :
        /\ pending[p] \subseteq Signals
        /\ pending[p] # {} => Alive(p)
    /\ tx \subseteq {p \in Procs : Alive(p)}
    /\ reader \in {"none", "opening", "selecting", "stopped", "broken"}
    /\ fifo \in 0 .. 1
    /\ terminal \in {"ours", "shell"}

\* run() has returned
Returned == st["host"] \in {"returned", "joining", "done"}

\* status() returns the status of the command, through the exit codes of three
\* processes, and by then no process of the container is left to use the file
\* system that the caller takes away next (processes.rs:27, main.rs:93).
StatusIsTheCommands ==
    Returned =>
        /\ \A p \in Procs \ {"host", "sentinel"} : ~Alive(p)
        /\ IF status["command"].by = "none" THEN status["host"] # Exited(0)
           ELSE status["host"] =
                Exited(status["command"].n + (IF status["command"].by = "signal" THEN 128 ELSE 0))

\* "Notify the ancestor that is outside the container to reset the TPGID"
\* (setup.sh:72): when status() returns after the shell ended, the terminal is
\* back with our process group, however the reader and the end of the run race.
TerminalIsGivenBack ==
    st["host"] = "done" /\ status["command"].by = "exit" /\ reader # "broken" => terminal = "ours"
=============================================================================
