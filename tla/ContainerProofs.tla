--------------------------- MODULE ContainerProofs ---------------------------
(***************************************************************************)
(* Proofs about Container and ContainerRun, for every list of layers, any  *)
(* number of containers and any number of commands.                        *)
(*                                                                         *)
(* A command: ChainInv says that a process outlives its child, so that     *)
(* nothing of the container is alive when the host returns; StatusInv that *)
(* each process exits with what the one below it exited with; TerminalInv  *)
(* that as long as a shell has the terminal, the reader of .control has    *)
(* still to give it back.  Signals are what makes this hard: SignalRun     *)
(* shows that they kill only processes that have no child yet.             *)
(*                                                                         *)
(* The layers: NamesInv keeps the directories apart, DirsInv says that     *)
(* what is on disk is what somebody will drop, once, or look after,        *)
(* MountInv that a mounted overlay is the first thing to be dropped, and   *)
(* StackInv that the lower directories show what was pushed.               *)
(***************************************************************************)
EXTENDS Container, WellFoundedInduction, TLAPS

----------------------------------------------------------------------------
(* Processes                                                               *)

States == {"none", "starting", "registered", "waiting", "running", "shell", "told",
           "zombie", "reaped", "returned", "joining", "done", "failed"}
Statuses == [by : {"none", "error", "exit", "signal"}, n : Nat]

RunTyping ==
    /\ st \in [Procs -> States]
    /\ status \in [Procs -> Statuses]
    /\ pending \in [Procs -> SUBSET Signals]
    /\ reader \in {"none", "opening", "selecting", "stopped", "broken"}
    /\ fifo \in 0 .. 1
    /\ terminal \in {"ours", "shell"}

\* Who can be in which state, and who can have the write end of the pipe
StatesInv ==
    /\ \A p \in Procs : st[p] \in
        IF p = "host"
        THEN {"none", "starting", "registered", "waiting", "returned", "joining", "done", "failed"}
        ELSE IF p \in Waiters
        THEN {"none", "starting", "registered", "waiting", "zombie", "reaped"}
        ELSE {"none", "starting", "registered", "waiting", "running", "shell", "told",
              "zombie", "reaped"}
    /\ \A p \in tx : p \in Procs /\ Alive(p)

\* Only a process that handles signals has any left to handle
PendingInv ==
    \A p \in Procs : pending[p] # {} =>
        \/ p \in Waiters /\ st[p] \in {"registered", "waiting"}
        \/ p = "command" /\ Alive(p)

\* A process outlives its child, and has none before it waits for it
Linked(p, child) ==
    /\ Alive(child) => st[p] = "waiting"
    /\ st[p] \in {"none", "starting", "registered"} => st[child] = "none"

ChainInv ==
    /\ Linked("host", "outer")
    /\ Linked("outer", "init")
    /\ Linked("init", "inner")
    /\ Linked("inner", "command")

\* What each process passes on is how the command ended, or a failure if it
\* never ran
PassesOn(code) ==
    IF status["command"].by = "none" THEN code # 0 ELSE code = ExitCode(status["command"])

Gone(p) == st[p] \in {"zombie", "reaped"}

StatusInv ==
    /\ status["command"].by # "error"
    /\ Gone("command") <=> status["command"].by # "none"
    /\ \A p \in {"outer", "init", "inner"} : Gone(p) =>
        /\ PassesOn(ExitCode(status[p]))
        /\ status["command"].by # "none" => status[p].by = "exit"
    /\ Returned =>
        IF status["command"].by = "none" THEN status["host"] # Exited(0)
        ELSE status["host"] = Exited(ExitCode(status["command"]))

\* The reader of .control has the terminal still to give back
TerminalInv ==
    /\ st["command"] \in {"none", "running", "shell"} => fifo = 0
    /\ st["host"] = "joining" => "host" \notin tx
    /\ st["host"] = "done" => reader \in {"none", "stopped", "broken"}
    /\ terminal = "shell" =>
        \/ st["command"] = "shell"
        \/ fifo > 0 /\ reader = "selecting"
        \/ reader = "broken"
        \/ status["command"].by = "signal"

RunInv == RunTyping /\ StatesInv /\ PendingInv /\ ChainInv /\ StatusInv /\ TerminalInv

\* The processes, and who waits for whom
LEMMA Kin ==
    /\ Procs = {"host", "outer", "init", "inner", "command", "sentinel"}
    /\ Waiters = {"host", "outer", "init", "inner"}
    /\ Child["host"] = "outer" /\ Child["outer"] = "init"
    /\ Child["init"] = "inner" /\ Child["inner"] = "command"
<1>1. DOMAIN Chain = 1 .. 5
    BY DEF Chain
<1>2. ToSet(Chain) = {Chain[1], Chain[2], Chain[3], Chain[4], Chain[5]}
    BY <1>1 DEF ToSet
<1>3. /\ Chain[1] = "host" /\ Chain[2] = "outer" /\ Chain[3] = "init"
      /\ Chain[4] = "inner" /\ Chain[5] = "command"
    BY DEF Chain
<1>4. Procs = {"host", "outer", "init", "inner", "command", "sentinel"}
    BY <1>2, <1>3 DEF Procs
<1>5. /\ (CHOOSE k \in 1 .. 4 : Chain[k] = "host") = 1
      /\ (CHOOSE k \in 1 .. 4 : Chain[k] = "outer") = 2
      /\ (CHOOSE k \in 1 .. 4 : Chain[k] = "init") = 3
      /\ (CHOOSE k \in 1 .. 4 : Chain[k] = "inner") = 4
    BY <1>3
<1>. QED BY <1>3, <1>4, <1>5 DEF Child, Waiters

\* When processes end that take no others with them, they are zombies with
\* a status, and signals go to processes that handle them.
LEMMA HappensTo ==
    ASSUME NEW before, NEW left \in [Procs -> SUBSET Signals], NEW dead, NEW how,
           NEW news \in [Procs -> SUBSET Signals],
           Happens(before, left, dead, how, news),
           \A p \in dead : Dying(p) = {p}
    PROVE  /\ st' = [p \in Procs |-> IF p \in dead THEN "zombie" ELSE before[p]]
           /\ status' = [p \in Procs |-> IF p \in dead THEN how[p] ELSE status[p]]
           /\ tx' = tx \ dead
           /\ pending' \in [Procs -> SUBSET Signals]
           /\ \A p \in Procs : pending'[p] # {} =>
                p \notin dead /\ (left[p] # {} \/ news[p] # {} \/ Handles(p, "CHLD"))
<1>1. UNION {Dying(p) : p \in dead} = dead
    OBVIOUS
<1>. DEFINE bereft == {Parent[p] : p \in dead \ {"host"}}
<1>2. pending' = [p \in Procs |->
               IF p \in dead THEN {}
               ELSE left[p] \union news[p] \union {s \in {"CHLD"} : p \in bereft /\ Handles(p, s)}]
    BY <1>1 DEF Happens
<1>. HIDE DEF bereft
<1>3. pending' \in [Procs -> SUBSET Signals]
    BY <1>2 DEF Signals
<1>4. \A p \in Procs : pending'[p] # {} =>
          p \notin dead /\ (left[p] # {} \/ news[p] # {} \/ Handles(p, "CHLD"))
    BY <1>2
<1>. QED BY <1>1, <1>3, <1>4 DEF Happens

\* Only init takes others with it, and it ends after them.
LEMMA DyingAlone ==
    ASSUME RunInv, NEW p \in Procs, Alive(p), p = "init" => ~Alive("inner")
    PROVE  Dying(p) = {p}
BY Kin DEF Dying, RunInv, ChainInv, Linked, Alive

\* One process ends.
LEMMA OneEnds ==
    ASSUME RunInv, NEW before \in [Procs -> States], NEW p \in Procs \ {"host"}, NEW how,
           Alive(p), p = "init" => ~Alive("inner"),
           Happens(before, pending, {p}, [q \in {p} |-> how], Nothing)
    PROVE  /\ st' = [before EXCEPT ![p] = "zombie"]
           /\ status' = [status EXCEPT ![p] = how]
           /\ tx' = tx \ {p}
           /\ pending' \in [Procs -> SUBSET Signals]
           /\ \A q \in Procs : pending'[q] # {} =>
                q # p /\ (pending[q] # {} \/ Handles(q, "CHLD"))
<1>1. pending \in [Procs -> SUBSET Signals] /\ Nothing \in [Procs -> SUBSET Signals]
    BY DEF RunInv, RunTyping, Nothing
<1>2. \A q \in {p} : Dying(q) = {q}
    BY DyingAlone
<1>3. /\ st' = [q \in Procs |-> IF q \in {p} THEN "zombie" ELSE before[q]]
      /\ status' = [q \in Procs |-> IF q \in {p} THEN [r \in {p} |-> how][q] ELSE status[q]]
      /\ tx' = tx \ {p}
      /\ pending' \in [Procs -> SUBSET Signals]
      /\ \A q \in Procs : pending'[q] # {} =>
            q \notin {p} /\ (pending[q] # {} \/ Nothing[q] # {} \/ Handles(q, "CHLD"))
    BY <1>1, <1>2, HappensTo
<1>4. \A q \in Procs : Nothing[q] = {}
    BY DEF Nothing
<1>5. st' = [before EXCEPT ![p] = "zombie"]
    BY <1>3
<1>6. status' = [status EXCEPT ![p] = how]
    BY <1>3 DEF RunInv, RunTyping
<1>. QED BY <1>3, <1>4, <1>5, <1>6

\* No command has been run yet.
LEMMA IdleRun == Idle => RunInv
<1>. SUFFICES ASSUME Idle PROVE RunInv
    OBVIOUS
<1>. USE Kin DEF RunInv, RunTyping, Idle
<1>1. RunTyping
    BY DEF TerminalInv, States, Statuses, NoStatus, Nothing, Signals
<1>2. StatesInv
    BY DEF StatesInv, TerminalInv, Alive
<1>3. PendingInv
    BY DEF PendingInv, StatesInv, ChainInv, Linked, Alive, Nothing
<1>4. ChainInv
    BY DEF ChainInv, Linked, StatesInv, Alive
<1>5. StatusInv
    BY DEF StatusInv, PassesOn, StatesInv, ChainInv, Linked, Alive, Gone, Returned, ExitCode,
           Exited, NoStatus
<1>6. TerminalInv
    BY DEF TerminalInv, StatesInv, ChainInv, Linked, StatusInv, Gone, Alive, NoStatus
<1>. QED BY <1>1, <1>2, <1>3, <1>4, <1>5, <1>6

\* A command is called, or what is left of the last one is forgotten.
LEMMA FreshRun ==
    ASSUME NEW where \in {"none", "starting"}, NEW mode \in BOOLEAN, NEW untilTold \in BOOLEAN,
           mode => where = "starting",
           Fresh(where, mode, untilTold)
    PROVE  RunInv'
<1>. USE Kin DEF RunInv, RunTyping, Fresh
<1>1. RunTyping'
    BY DEF TerminalInv, States, Statuses, NoStatus, Nothing, Signals
<1>2. StatesInv'
    BY DEF StatesInv, TerminalInv, Alive
<1>3. PendingInv'
    BY DEF PendingInv, StatesInv, ChainInv, Linked, Alive, Nothing
<1>4. ChainInv'
    BY DEF ChainInv, Linked, StatesInv, Alive
<1>5. StatusInv'
    BY DEF StatusInv, PassesOn, StatesInv, ChainInv, Linked, Alive, Gone, Returned, ExitCode,
           Exited, NoStatus
<1>6. TerminalInv'
    BY DEF TerminalInv, StatesInv, ChainInv, Linked, StatusInv, Gone, Alive, NoStatus
<1>. QED BY <1>1, <1>2, <1>3, <1>4, <1>5, <1>6

\* A call that fails because .control is there.
LEMMA CallRun ==
    ASSUME RunInv, NEW mode \in BOOLEAN, NEW exists, NEW untilTold \in BOOLEAN,
           st["host"] \in {"none", "done", "failed"},
           CallFails(mode, exists)
    PROVE  RunInv'
<1>. USE Kin DEF RunInv, RunTyping, CallFails, Enters
<1>1. RunTyping'
    BY DEF TerminalInv, States, Statuses, NoStatus, Nothing, Signals
<1>2. StatesInv'
    BY DEF StatesInv, TerminalInv, Alive
<1>3. PendingInv'
    BY DEF PendingInv, StatesInv, ChainInv, Linked, Alive, Nothing
<1>4. ChainInv'
    BY DEF ChainInv, Linked, StatesInv, Alive
<1>5. StatusInv'
    BY DEF StatusInv, PassesOn, StatesInv, ChainInv, Linked, Alive, Gone, Returned, ExitCode,
           Exited, NoStatus
<1>6. TerminalInv'
    BY DEF TerminalInv, StatesInv, ChainInv, Linked, StatusInv, Gone, Alive, NoStatus
<1>. QED BY <1>1, <1>2, <1>3, <1>4, <1>5, <1>6

\* A process registers for signals, or starts its child.
LEMMA ProcessesMove ==
    ASSUME RunInv, NEW p \in Waiters, Register(p) \/ Spawn(p)
    PROVE  RunInv'
<1>1. CASE Register(p)
    <2>. USE <1>1, Kin DEF RunInv, RunTyping, Register, Enters, call, control
    <2>1. RunTyping'
        BY DEF TerminalInv, States, Statuses, NoStatus, Nothing, Signals
    <2>2. StatesInv'
        BY DEF StatesInv, TerminalInv, Alive
    <2>3. PendingInv'
        BY DEF PendingInv, StatesInv, ChainInv, Linked, Alive, Nothing
    <2>4. ChainInv'
        BY DEF ChainInv, Linked, StatesInv, Alive
    <2>5. StatusInv'
        BY DEF StatusInv, PassesOn, StatesInv, ChainInv, Linked, Alive, Gone, Returned,
               ExitCode, Exited, NoStatus
    <2>6. TerminalInv'
        BY DEF TerminalInv, StatesInv, ChainInv, Linked, StatusInv, Gone, Alive, NoStatus
    <2>. QED BY <2>1, <2>2, <2>3, <2>4, <2>5, <2>6
<1>2. CASE Spawn(p)
    <2>. USE <1>2, Kin DEF RunInv, RunTyping, Spawn, Enters, call, control
    <2>1. RunTyping'
        BY DEF TerminalInv, States, Statuses, NoStatus, Nothing, Signals
    <2>2. StatesInv'
        BY DEF StatesInv, TerminalInv, Alive
    <2>3. PendingInv'
        BY DEF PendingInv, StatesInv, ChainInv, Linked, Alive, Nothing
    <2>4. ChainInv'
        BY DEF ChainInv, Linked, StatesInv, Alive
    <2>5. StatusInv'
        BY DEF StatusInv, PassesOn, StatesInv, ChainInv, Linked, Alive, Gone, Returned,
               ExitCode, Exited, NoStatus
    <2>6. TerminalInv'
        BY DEF TerminalInv, StatesInv, ChainInv, Linked, StatusInv, Gone, Alive, NoStatus
    <2>. QED BY <2>1, <2>2, <2>3, <2>4, <2>5, <2>6
<1>. QED BY <1>1, <1>2

\* The outer process starts the sentinel.
LEMMA SentinelStarts ==
    ASSUME RunInv, StartSentinel
    PROVE  RunInv'
<1>. USE Kin DEF RunInv, RunTyping, StartSentinel, Enters, call, control
<1>1. RunTyping'
    BY DEF TerminalInv, States, Statuses, NoStatus, Nothing, Signals
<1>2. StatesInv'
    BY DEF StatesInv, TerminalInv, Alive
<1>3. PendingInv'
    BY DEF PendingInv, StatesInv, ChainInv, Linked, Alive, Nothing
<1>4. ChainInv'
    BY DEF ChainInv, Linked, StatesInv, Alive
<1>5. StatusInv'
    BY DEF StatusInv, PassesOn, StatesInv, ChainInv, Linked, Alive, Gone, Returned, ExitCode,
           Exited, NoStatus
<1>6. TerminalInv'
    BY DEF TerminalInv, StatesInv, ChainInv, Linked, StatusInv, Gone, Alive, NoStatus
<1>. QED BY <1>1, <1>2, <1>3, <1>4, <1>5, <1>6

\* setup.sh and the command go on.
LEMMA CommandMoves ==
    ASSUME RunInv, StartShell \/ AskForTerminal \/ Ignore
    PROVE  RunInv'
<1>1. CASE StartShell
    <2>. USE <1>1, Kin DEF RunInv, RunTyping, StartShell, Enters, call, control
    <2>1. RunTyping'
        BY DEF TerminalInv, States, Statuses, NoStatus, Nothing, Signals
    <2>2. StatesInv'
        BY DEF StatesInv, TerminalInv, Alive
    <2>3. PendingInv'
        BY DEF PendingInv, StatesInv, ChainInv, Linked, Alive, Nothing
    <2>4. ChainInv'
        BY DEF ChainInv, Linked, StatesInv, Alive
    <2>5. StatusInv'
        BY DEF StatusInv, PassesOn, StatesInv, ChainInv, Linked, Alive, Gone, Returned,
               ExitCode, Exited, NoStatus
    <2>6. TerminalInv'
        BY DEF TerminalInv, StatesInv, ChainInv, Linked, StatusInv, Gone, Alive, NoStatus
    <2>. QED BY <2>1, <2>2, <2>3, <2>4, <2>5, <2>6
<1>2. CASE AskForTerminal
    <2>. USE <1>2, Kin DEF RunInv, RunTyping, AskForTerminal, Enters, call, control
    <2>1. RunTyping'
        BY DEF TerminalInv, States, Statuses, NoStatus, Nothing, Signals
    <2>2. StatesInv'
        BY DEF StatesInv, TerminalInv, Alive
    <2>3. PendingInv'
        BY DEF PendingInv, StatesInv, ChainInv, Linked, Alive, Nothing
    <2>4. ChainInv'
        BY DEF ChainInv, Linked, StatesInv, Alive
    <2>5. StatusInv'
        BY DEF StatusInv, PassesOn, StatesInv, ChainInv, Linked, Alive, Gone, Returned,
               ExitCode, Exited, NoStatus
    <2>6. TerminalInv'
        BY DEF TerminalInv, StatesInv, ChainInv, Linked, StatusInv, Gone, Alive, NoStatus
    <2>. QED BY <2>1, <2>2, <2>3, <2>4, <2>5, <2>6
<1>3. CASE Ignore
    <2>. USE <1>3, Kin DEF RunInv, RunTyping, Ignore, Enters, call, control
    <2>1. RunTyping'
        BY DEF TerminalInv, States, Statuses, NoStatus, Nothing, Signals
    <2>2. StatesInv'
        BY DEF StatesInv, TerminalInv, Alive
    <2>3. PendingInv'
        BY DEF PendingInv, StatesInv, ChainInv, Linked, Alive, Nothing
    <2>4. ChainInv'
        BY DEF ChainInv, Linked, StatesInv, Alive
    <2>5. StatusInv'
        BY DEF StatusInv, PassesOn, StatesInv, ChainInv, Linked, Alive, Gone, Returned,
               ExitCode, Exited, NoStatus
    <2>6. TerminalInv'
        BY DEF TerminalInv, StatesInv, ChainInv, Linked, StatusInv, Gone, Alive, NoStatus
    <2>. QED BY <2>1, <2>2, <2>3, <2>4, <2>5, <2>6
<1>. QED BY <1>1, <1>2, <1>3

\* The reader of .control goes on, or the host waits for it.
LEMMA ControlMoves ==
    ASSUME RunInv, ReaderSteps \/ CloseControl \/ JoinReader
    PROVE  RunInv'
<1>1. CASE ReaderSteps
    <2>. USE <1>1, Kin DEF RunInv, RunTyping, ReaderSteps, OpenControl, ReadControl,
           StopReading, SeesEnd, Enters, call, control
    <2>1. RunTyping'
        BY DEF TerminalInv, States, Statuses, NoStatus, Nothing, Signals
    <2>2. StatesInv'
        BY DEF StatesInv, TerminalInv, Alive
    <2>3. PendingInv'
        BY DEF PendingInv, StatesInv, ChainInv, Linked, Alive, Nothing
    <2>4. ChainInv'
        BY DEF ChainInv, Linked, StatesInv, Alive
    <2>5. StatusInv'
        BY DEF StatusInv, PassesOn, StatesInv, ChainInv, Linked, Alive, Gone, Returned,
               ExitCode, Exited, NoStatus
    <2>6. TerminalInv'
        BY DEF TerminalInv, StatesInv, ChainInv, Linked, StatusInv, Gone, Alive, NoStatus
    <2>. QED BY <2>1, <2>2, <2>3, <2>4, <2>5, <2>6
<1>2. CASE CloseControl
    <2>. USE <1>2, Kin DEF RunInv, RunTyping, CloseControl, Enters, call, control
    <2>1. RunTyping'
        BY DEF TerminalInv, States, Statuses, NoStatus, Nothing, Signals
    <2>2. StatesInv'
        BY DEF StatesInv, TerminalInv, Alive
    <2>3. PendingInv'
        BY DEF PendingInv, StatesInv, ChainInv, Linked, Alive, Nothing
    <2>4. ChainInv'
        BY DEF ChainInv, Linked, StatesInv, Alive
    <2>5. StatusInv'
        BY DEF StatusInv, PassesOn, StatesInv, ChainInv, Linked, Alive, Gone, Returned,
               ExitCode, Exited, NoStatus
    <2>6. TerminalInv'
        BY DEF TerminalInv, StatesInv, ChainInv, Linked, StatusInv, Gone, Alive, NoStatus
    <2>. QED BY <2>1, <2>2, <2>3, <2>4, <2>5, <2>6
<1>3. CASE JoinReader
    <2>. USE <1>3, Kin DEF RunInv, RunTyping, JoinReader, Enters, call, control
    <2>1. RunTyping'
        BY DEF TerminalInv, States, Statuses, NoStatus, Nothing, Signals
    <2>2. StatesInv'
        BY DEF StatesInv, TerminalInv, Alive
    <2>3. PendingInv'
        BY DEF PendingInv, StatesInv, ChainInv, Linked, Alive, Nothing
    <2>4. ChainInv'
        BY DEF ChainInv, Linked, StatesInv, Alive
    <2>5. StatusInv'
        BY DEF StatusInv, PassesOn, StatesInv, ChainInv, Linked, Alive, Gone, Returned,
               ExitCode, Exited, NoStatus
    <2>6. TerminalInv'
        BY DEF TerminalInv, StatesInv, ChainInv, Linked, StatusInv, Gone, Alive, NoStatus
    <2>. QED BY <2>1, <2>2, <2>3, <2>4, <2>5, <2>6
<1>. QED BY <1>1, <1>2, <1>3

\* A process other than init ends by itself, if it has no child.
LEMMA EndsRun ==
    ASSUME RunInv, NEW p \in Procs \ {"host", "init"}, NEW how \in Statuses,
           Alive(p), Ends(p, how), UNCHANGED control,
           p \in {"outer", "inner"} => st[p] \in {"starting", "registered"} /\ ExitCode(how) # 0,
           p = "command" => how.by = "signal" \/ (how.by = "exit" /\ st[p] # "shell")
    PROVE  RunInv'
<1>1. st \in [Procs -> States] /\ status \in [Procs -> Statuses]
    BY DEF RunInv, RunTyping
<1>2. Happens(st, pending, {p}, [q \in {p} |-> how], Nothing)
    BY DEF Ends
<1>3. /\ st' = [st EXCEPT ![p] = "zombie"]
      /\ status' = [status EXCEPT ![p] = how]
      /\ tx' = tx \ {p}
      /\ pending' \in [Procs -> SUBSET Signals]
      /\ \A q \in Procs : pending'[q] # {} => q # p /\ (pending[q] # {} \/ Handles(q, "CHLD"))
    BY <1>1, <1>2, OneEnds
<1>4. StatusInv'
    <2>1. CASE p = "command"
        <3>1. ~Gone("outer") /\ ~Gone("init") /\ ~Gone("inner") /\ ~Returned
            BY <2>1 DEF RunInv, ChainInv, Linked, Alive, Gone, Returned
        <3>2. /\ Gone("command")' /\ status["command"]' = how
              /\ ~Gone("outer")' /\ ~Gone("init")' /\ ~Gone("inner")' /\ ~Returned'
            BY <1>1, <1>3, <2>1, <3>1, Kin DEF Gone, Returned
        <3>. QED BY <2>1, <3>2 DEF StatusInv
    <2>2. CASE p \in {"outer", "inner"}
        <3>1. st["command"] = "none" /\ status["command"].by = "none"
            BY <2>2 DEF RunInv, RunTyping, StatesInv, ChainInv, Linked, StatusInv, Alive, Gone
        <3>. QED BY <1>1, <1>3, <2>2, <3>1, Kin DEF RunInv, StatusInv, PassesOn, Gone, Returned
    <2>3. CASE p = "sentinel"
        BY <1>1, <1>3, <2>3, Kin DEF RunInv, StatusInv, PassesOn, Gone, Returned
    <2>. QED BY <2>1, <2>2, <2>3, Kin
<1>. USE <1>1, <1>3, Kin DEF RunInv, RunTyping, control, Handles, Runners
<1>5. RunTyping'
    BY DEF TerminalInv, States, Statuses, NoStatus, Nothing, Signals
<1>6. StatesInv'
    BY DEF StatesInv, TerminalInv, Alive
<1>7. PendingInv'
    BY DEF PendingInv, StatesInv, ChainInv, Linked, Alive, Nothing
<1>8. ChainInv'
    BY DEF ChainInv, Linked, StatesInv, Alive
<1>9. TerminalInv'
    BY DEF TerminalInv, StatesInv, ChainInv, Linked, StatusInv, Gone, Alive, NoStatus
<1>. QED BY <1>4, <1>5, <1>6, <1>7, <1>8, <1>9

\* The sentinel follows the outer process.
LEMMA SentinelEnds == RunInv /\ EndSentinel => RunInv'
BY EndsRun, Kin DEF EndSentinel, Exited, Statuses

\* The outer or the inner process fails before it has a child.
LEMMA EntryEnds ==
    ASSUME RunInv, NEW p \in Procs, EntryFails(p) \/ (p # "host" /\ SpawnFails(p))
    PROVE  RunInv'
BY EndsRun, Kin DEF EntryFails, SpawnFails, Runners, Exited, ExitCode, Statuses, Alive

\* The command ends by itself.
LEMMA CommandEnds ==
    ASSUME RunInv, NEW n \in {0, 1}, EndCommand(n)
    PROVE  RunInv'
BY EndsRun, Kin DEF EndCommand, Exited, Statuses, Alive

\* The command ends when it is told to.
LEMMA CommandObeys ==
    ASSUME RunInv, NEW s \in {"INT", "TERM"}, Obey(s)
    PROVE  RunInv'
BY EndsRun, Kin DEF Obey, Killed, Number, Statuses

\* The host cannot start the outer process.
LEMMA HostFails == RunInv /\ SpawnFails("host") => RunInv'
<1>. SUFFICES ASSUME RunInv, SpawnFails("host") PROVE RunInv'
    OBVIOUS
<1>1. /\ st' = [st EXCEPT !["host"] = "returned"]
      /\ status' = [status EXCEPT !["host"] = [by |-> "error", n |-> 1]]
      /\ pending' = [pending EXCEPT !["host"] = {}]
      /\ UNCHANGED <<tx, reader, fifo, terminal>>
      /\ st["host"] = "registered"
    BY DEF SpawnFails, Enters, Failed, control
<1>2. /\ st' \in [Procs -> States] /\ status' \in [Procs -> Statuses] /\ pending' \in [Procs -> SUBSET Signals]
      /\ \A q \in Procs :
            /\ st'[q] = IF q = "host" THEN "returned" ELSE st[q]
            /\ status'[q] = IF q = "host" THEN [by |-> "error", n |-> 1] ELSE status[q]
            /\ pending'[q] = IF q = "host" THEN {} ELSE pending[q]
    BY <1>1, Kin DEF RunInv, RunTyping, States, Statuses
<1>. USE <1>1, <1>2, Kin DEF RunInv, RunTyping, Exited
<1>3. RunTyping'
    BY DEF TerminalInv, States, Statuses, NoStatus, Nothing, Signals
<1>4. StatesInv'
    BY DEF StatesInv, TerminalInv, Alive
<1>5. PendingInv'
    BY DEF PendingInv, StatesInv, ChainInv, Linked, Alive, Nothing
<1>6. ChainInv'
    BY DEF ChainInv, Linked, StatesInv, Alive
<1>7. StatusInv'
    BY DEF StatusInv, PassesOn, StatesInv, ChainInv, Linked, Alive, Gone, Returned, ExitCode,
           Exited, NoStatus
<1>8. TerminalInv'
    BY DEF TerminalInv, StatesInv, ChainInv, Linked, StatusInv, Gone, Alive, NoStatus
<1>. QED BY <1>3, <1>4, <1>5, <1>6, <1>7, <1>8

\* A SIGCHLD that was not about the child
LEMMA NotYetDone ==
    ASSUME RunInv, NEW p \in Waiters, OnChild(p), ~ChildIsDone(p)
    PROVE  RunInv'
<1>1. /\ pending' \in [Procs -> SUBSET Signals]
      /\ \A q \in Procs : pending'[q] \subseteq pending[q]
      /\ UNCHANGED <<st, status, tx, reader, fifo, terminal>>
    BY Kin DEF OnChild, control, RunInv, RunTyping
<1>. USE <1>1, Kin DEF RunInv, RunTyping, Exited
<1>2. RunTyping'
    BY DEF TerminalInv, States, Statuses, NoStatus, Nothing, Signals
<1>3. StatesInv'
    BY DEF StatesInv, TerminalInv, Alive
<1>4. PendingInv'
    BY DEF PendingInv, StatesInv, ChainInv, Linked, Alive, Nothing
<1>5. ChainInv'
    BY DEF ChainInv, Linked, StatesInv, Alive
<1>6. StatusInv'
    BY DEF StatusInv, PassesOn, StatesInv, ChainInv, Linked, Alive, Gone, Returned, ExitCode,
           Exited, NoStatus
<1>7. TerminalInv'
    BY DEF TerminalInv, StatesInv, ChainInv, Linked, StatusInv, Gone, Alive, NoStatus
<1>. QED BY <1>2, <1>3, <1>4, <1>5, <1>6, <1>7

\* A process that has a status for its child exits, or returns, with it.
LEMMA HostReaps ==
    ASSUME RunInv, OnChild("host"), ChildIsDone("host")
    PROVE  RunInv'
<1>1. /\ st["host"] = "waiting" /\ st["outer"] = "zombie"
      /\ st' = [st EXCEPT !["outer"] = "reaped", !["host"] = "returned"]
      /\ status' = [status EXCEPT !["host"] = status["outer"]]
      /\ pending' = [pending EXCEPT !["host"] = {}]
      /\ UNCHANGED <<tx, reader, fifo, terminal>>
    BY Kin DEF OnChild, ChildIsDone, Reap, control
<1>2. /\ st' \in [Procs -> States] /\ status' \in [Procs -> Statuses] /\ pending' \in [Procs -> SUBSET Signals]
      /\ \A q \in Procs :
            /\ st'[q] = IF q = "host" THEN "returned" ELSE IF q = "outer" THEN "reaped" ELSE st[q]
            /\ status'[q] = IF q = "host" THEN status["outer"] ELSE status[q]
            /\ pending'[q] = IF q = "host" THEN {} ELSE pending[q]
    BY <1>1, Kin DEF RunInv, RunTyping, States
<1>3. StatusInv'
    <2>1. /\ Gone("outer") /\ Gone("outer")' /\ status["outer"] \in Statuses
          /\ \A q \in {"outer", "init", "inner", "command"} : (Gone(q)' <=> Gone(q)) /\ status'[q] = status[q]
        BY <1>1, <1>2, Kin DEF Gone, RunInv, RunTyping
    <2>2. status'["host"] = status["outer"]
        BY <1>2, Kin
    <2>3. CASE status["command"].by = "none"
        <3>1. ExitCode(status["outer"]) # 0
            BY <2>1, <2>3 DEF RunInv, StatusInv, PassesOn
        <3>2. status["outer"] # Exited(0)
            BY <3>1 DEF ExitCode, Exited
        <3>. QED BY <2>1, <2>2, <2>3, <3>2 DEF RunInv, StatusInv, PassesOn
    <2>4. CASE status["command"].by # "none"
        <3>1. status["outer"].by = "exit" /\ ExitCode(status["outer"]) = ExitCode(status["command"])
            BY <2>1, <2>4 DEF RunInv, StatusInv, PassesOn
        <3>2. status["outer"] = Exited(ExitCode(status["command"]))
            BY <2>1, <3>1 DEF ExitCode, Exited, Statuses
        <3>. QED BY <2>1, <2>2, <2>4, <3>2 DEF RunInv, StatusInv, PassesOn
    <2>. QED BY <2>3, <2>4
<1>. USE <1>1, <1>2, Kin DEF RunInv, RunTyping, Exited
<1>4. RunTyping'
    BY DEF TerminalInv, States, Statuses, NoStatus, Nothing, Signals
<1>5. StatesInv'
    BY DEF StatesInv, TerminalInv, Alive
<1>6. PendingInv'
    BY DEF PendingInv, StatesInv, ChainInv, Linked, Alive, Nothing
<1>7. ChainInv'
    BY DEF ChainInv, Linked, StatesInv, Alive
<1>8. TerminalInv'
    BY DEF TerminalInv, StatesInv, ChainInv, Linked, StatusInv, Gone, Alive, NoStatus
<1>. QED BY <1>3, <1>4, <1>5, <1>6, <1>7, <1>8

\* A process of the container that has a status for its child exits with it.
LEMMA OthersReap ==
    ASSUME RunInv, NEW p \in {"outer", "init", "inner"}, OnChild(p), ChildIsDone(p)
    PROVE  RunInv'
<1>. DEFINE reaped == [st EXCEPT ![Child[p]] = "reaped"]
            how == Exited(ExitCode(status[Child[p]]))
<1>1. /\ st[p] = "waiting" /\ st[Child[p]] = "zombie" /\ Child[p] \in Procs \ {p} /\ UNCHANGED control
      /\ st \in [Procs -> States] /\ status \in [Procs -> Statuses]
    BY Kin DEF OnChild, ChildIsDone, RunInv, RunTyping
<1>2. reaped \in [Procs -> States] /\ how \in Statuses
    BY <1>1 DEF States, Statuses, Exited, ExitCode
<1>3. Happens(reaped, pending, {p}, [q \in {p} |-> how], Nothing)
    BY <1>1 DEF OnChild, ChildIsDone, Reap
<1>. HIDE DEF reaped, how
<1>4. Alive(p) /\ (p = "init" => ~Alive("inner"))
    BY <1>1, Kin DEF Alive
<1>5. /\ st' = [reaped EXCEPT ![p] = "zombie"]
      /\ status' = [status EXCEPT ![p] = how]
      /\ tx' = tx \ {p}
      /\ pending' \in [Procs -> SUBSET Signals]
      /\ \A q \in Procs : pending'[q] # {} => q # p /\ (pending[q] # {} \/ Handles(q, "CHLD"))
    BY <1>2, <1>3, <1>4, OneEnds, Kin
<1>6. /\ st' \in [Procs -> States] /\ status' \in [Procs -> Statuses]
      /\ \A q \in Procs :
            /\ st'[q] = IF q = p THEN "zombie" ELSE IF q = Child[p] THEN "reaped" ELSE st[q]
            /\ status'[q] = IF q = p THEN how ELSE status[q]
    BY <1>1, <1>2, <1>5, Kin DEF reaped, States
<1>7. StatusInv'
    <2>1. /\ Gone(p)' /\ Gone(Child[p]) /\ Gone(Child[p])'
          /\ \A q \in Procs \ {p, Child[p]} : Gone(q)' <=> Gone(q)
          /\ \A q \in Procs \ {p} : status'[q] = status[q]
          /\ status'[p] = how
        BY <1>1, <1>6, Kin DEF Gone
    <2>2. ~Returned' /\ status'["command"] = status["command"]
        BY <1>1, <1>6, <2>1, Kin DEF RunInv, ChainInv, Linked, Alive, Returned
    <2>3. how.by = "exit" /\ ExitCode(how) = ExitCode(status[Child[p]])
        BY DEF how, Exited, ExitCode
    <2>4. PassesOn(ExitCode(status[Child[p]]))
        BY <2>1, Kin DEF RunInv, StatusInv, PassesOn
    <2>. QED BY <2>1, <2>2, <2>3, <2>4, Kin DEF RunInv, StatusInv, PassesOn
<1>. USE <1>1, <1>2, <1>5, <1>6, Kin DEF RunInv, RunTyping, control, Handles, Runners
<1>8. RunTyping'
    BY DEF TerminalInv, States, Statuses, NoStatus, Nothing, Signals
<1>9. StatesInv'
    BY DEF StatesInv, TerminalInv, Alive
<1>10. PendingInv'
    BY DEF PendingInv, StatesInv, ChainInv, Linked, Alive, Nothing
<1>11. ChainInv'
    BY DEF ChainInv, Linked, StatesInv, Alive
<1>12. TerminalInv'
    BY DEF TerminalInv, StatesInv, ChainInv, Linked, StatusInv, Gone, Alive, NoStatus
<1>. QED BY <1>7, <1>8, <1>9, <1>10, <1>11, <1>12

\* A signal ends only processes that have no child yet, and the sentinel.
LEMMA SignalRun ==
    ASSUME RunInv, NEW s \in {"INT", "TERM"}, NEW group, NEW left \in [Procs -> SUBSET Signals],
           Signal(s, group, left), UNCHANGED control,
           group \subseteq {p \in Procs : Alive(p)},
           "host" \in group => st["host"] \in {"registered", "waiting"},
           \A p \in Procs : left[p] \subseteq pending[p]
    PROVE  RunInv'
<1>. DEFINE got == {p \in group : Handles(p, s)}
            killed == {p \in group \ got : Alive(p) /\ p # "init"}
            how == [p \in killed |-> Killed(s)]
            news == [p \in Procs |-> IF p \in got THEN {s} ELSE {}]
<1>1. /\ \A p \in got : p \in Procs /\ Handles(p, s) /\ Alive(p)
      /\ killed \subseteq {"outer", "inner", "sentinel"}
      /\ \A p \in killed : Alive(p) /\ (p # "sentinel" => st[p] = "starting")
    <2>1. \A p \in killed : p # "host" /\ p # "command"
        BY Kin DEF Handles, Runners, Caught
    <2>2. \A p \in killed : p \in Procs /\ Alive(p) /\ p # "init"
        OBVIOUS
    <2>3. \A p \in killed : p \in {"outer", "inner"} => st[p] \notin {"registered", "waiting"}
        BY DEF Handles, Runners, Caught
    <2>4. \A p \in got : p \in Procs /\ Handles(p, s) /\ Alive(p)
        OBVIOUS
    <2>. HIDE DEF got, killed
    <2>5. killed \subseteq {"outer", "inner", "sentinel"}
        BY <2>1, <2>2, Kin
    <2>6. \A p \in killed : p # "sentinel" => st[p] = "starting"
        BY <2>2, <2>3, <2>5, Kin DEF RunInv, StatesInv, Alive
    <2>. QED BY <2>2, <2>4, <2>5, <2>6
<1>2. news \in [Procs -> SUBSET Signals]
    BY DEF Signals, Number
<1>3. Killed(s) \in Statuses /\ ExitCode(Killed(s)) # 0
    BY DEF Killed, Number, Statuses, ExitCode
<1>4. Happens(st, left, killed, how, news)
    BY DEF Signal
<1>5. \A p \in killed : Dying(p) = {p}
    BY <1>1, DyingAlone, Kin
<1>6. /\ st' = [p \in Procs |-> IF p \in killed THEN "zombie" ELSE st[p]]
      /\ status' = [p \in Procs |-> IF p \in killed THEN how[p] ELSE status[p]]
      /\ tx' = tx \ killed
      /\ pending' \in [Procs -> SUBSET Signals]
      /\ \A p \in Procs : pending'[p] # {} =>
            p \notin killed /\ (left[p] # {} \/ news[p] # {} \/ Handles(p, "CHLD"))
    <2>1. left \in [Procs -> SUBSET Signals]
        OBVIOUS
    <2>. HIDE DEF killed, how, news
    <2>. QED BY <1>2, <1>4, <1>5, <2>1, HappensTo
<1>7. \A p \in Procs : pending'[p] # {} =>
          p \notin killed /\ (pending[p] # {} \/ (Handles(p, s) /\ Alive(p)) \/ Handles(p, "CHLD"))
    BY <1>1, <1>6
<1>8. \A p \in Procs : status'[p] = IF p \in killed THEN Killed(s) ELSE status[p]
    BY <1>6
<1>9. \A p \in {"outer", "inner"} : p \in killed => st["command"] = "none"
    BY <1>1, Kin DEF RunInv, ChainInv, Linked, Alive
<1>. HIDE DEF killed, how, news, got
<1>10. StatusInv'
    <2>1. /\ \A q \in Procs : Gone(q)' <=> (Gone(q) \/ q \in killed)
          /\ Returned' = Returned
          /\ "command" \notin killed /\ "host" \notin killed /\ "init" \notin killed
        BY <1>1, <1>6, Kin DEF Gone, Returned
    <2>2. "outer" \in killed \/ "inner" \in killed => status["command"].by = "none"
        BY <1>9 DEF RunInv, StatusInv, RunTyping, Gone
    <2>. QED BY <1>3, <1>8, <2>1, <2>2, Kin DEF RunInv, StatusInv, PassesOn
<1>. USE <1>1, <1>3, <1>6, <1>7, <1>8, Kin DEF RunInv, RunTyping, control, Handles, Runners
<1>11. RunTyping'
    BY DEF TerminalInv, States, Statuses, NoStatus, Nothing, Signals
<1>12. StatesInv'
    BY DEF StatesInv, TerminalInv, Alive
<1>13. PendingInv'
    BY DEF PendingInv, StatesInv, ChainInv, Linked, Alive, Nothing
<1>14. ChainInv'
    BY DEF ChainInv, Linked, StatesInv, Alive
<1>15. TerminalInv'
    BY DEF TerminalInv, StatesInv, ChainInv, Linked, StatusInv, Gone, Alive, NoStatus
<1>. QED BY <1>10, <1>11, <1>12, <1>13, <1>14, <1>15

\* Signals are sent from outside and forwarded.
LEMMA SignalsRun ==
    ASSUME RunInv,
           \/ \E p \in Waiters, s \in {"INT", "TERM"} : OnSignal(p, s)
           \/ Terminate
           \/ Interrupt
    PROVE  RunInv'
<1>1. pending \in [Procs -> SUBSET Signals]
    BY DEF RunInv, RunTyping
<1>2. ASSUME NEW p \in Waiters, NEW s \in {"INT", "TERM"}, OnSignal(p, s)
      PROVE  RunInv'
    <2>. DEFINE group == {c \in {Child[p]} : s \in Forwarded(p) /\ Alive(c)}
                left == [pending EXCEPT ![p] = @ \ {s}]
    <2>1. left \in [Procs -> SUBSET Signals] /\ \A q \in Procs : left[q] \subseteq pending[q]
        BY <1>1
    <2>2. group \subseteq {q \in Procs : Alive(q)} /\ "host" \notin group
        BY Kin
    <2>3. Signal(s, group, left) /\ UNCHANGED control
        BY <1>2 DEF OnSignal
    <2>. HIDE DEF group, left
    <2>. QED BY <2>1, <2>2, <2>3, SignalRun
<1>3. CASE Terminate
    <2>1. /\ Signal("TERM", {"host"}, pending) /\ UNCHANGED control
          /\ {"host"} \subseteq {q \in Procs : Alive(q)} /\ st["host"] \in {"registered", "waiting"}
        BY <1>3, Kin DEF Terminate, Alive
    <2>. QED BY <1>1, <2>1, SignalRun
<1>4. CASE Interrupt
    <2>1. /\ Signal("INT", {p \in Procs : Alive(p)}, pending) /\ UNCHANGED control
          /\ st["host"] \in {"registered", "waiting"}
        BY <1>4 DEF Interrupt
    <2>. QED BY <1>1, <2>1, SignalRun
<1>. QED BY <1>2, <1>3, <1>4

\* Any step of a command in a container
LEMMA StepRun == RunInv /\ RunNext => RunInv'
<1>. SUFFICES ASSUME RunInv, RunNext PROVE RunInv'
    OBVIOUS
<1>1. ASSUME NEW p \in Procs, ProcessSteps(p)
      PROVE  RunInv'
    <2>1. p \in Waiters
        BY <1>1 DEF ProcessSteps, Register, Spawn, OnChild, OnSignal
    <2>2. CASE Register(p) \/ Spawn(p)
        BY <2>1, <2>2, ProcessesMove
    <2>3. CASE OnChild(p)
        BY <2>1, <2>3, NotYetDone, HostReaps, OthersReap, Kin
    <2>4. CASE \E s \in {"INT", "TERM"} : OnSignal(p, s)
        BY <2>1, <2>4, SignalsRun
    <2>. QED BY <1>1, <2>2, <2>3, <2>4 DEF ProcessSteps
<1>2. ASSUME NEW p \in Procs, EntryFails(p) \/ SpawnFails(p)
      PROVE  RunInv'
    BY <1>2, EntryEnds, HostFails
<1>3. CASE StartSentinel \/ EndSentinel
    BY <1>3, SentinelStarts, SentinelEnds
<1>4. CASE CommandSteps \/ Obey("INT") \/ Ignore
    BY <1>4, CommandMoves, CommandEnds, CommandObeys DEF CommandSteps
<1>5. CASE ReaderSteps \/ CloseControl \/ JoinReader
    BY <1>5, ControlMoves
<1>6. CASE Terminate \/ Interrupt
    BY <1>6, SignalsRun
<1>. QED BY <1>1, <1>2, <1>3, <1>4, <1>5, <1>6 DEF RunNext

\* Steps that have nothing to do with a command
LEMMA StutterRun == RunInv /\ UNCHANGED runVars => RunInv'
BY DEF runVars, RunInv, RunTyping, StatesInv, PendingInv, ChainInv, Linked, StatusInv, PassesOn,
       TerminalInv, Alive, Gone, Returned

\* What the invariant says of the caller
LEMMA RunIsSafe == RunInv => RunTypeOK /\ StatusIsTheCommands /\ TerminalIsGivenBack
<1>. SUFFICES ASSUME RunInv PROVE RunTypeOK /\ StatusIsTheCommands /\ TerminalIsGivenBack
    OBVIOUS
<1>1. RunTypeOK
    <2>1. \A p \in Procs : pending[p] # {} => Alive(p)
        BY Kin DEF RunInv, PendingInv, Alive
    <2>. QED BY <2>1, Kin DEF RunTypeOK, RunInv, RunTyping, StatesInv
<1>2. StatusIsTheCommands
    <2>. SUFFICES ASSUME Returned PROVE StatusIsTheCommands
        BY DEF StatusIsTheCommands
    <2>1. \A p \in Procs \ {"host", "sentinel"} : ~Alive(p)
        BY Kin DEF Returned, RunInv, ChainInv, Linked, Alive
    <2>. QED BY <2>1, Kin DEF StatusIsTheCommands, RunInv, RunTyping, Statuses, StatusInv,
           ExitCode, Exited
<1>3. TerminalIsGivenBack
    BY DEF TerminalIsGivenBack, RunInv, RunTyping, StatesInv, TerminalInv, ChainInv, Linked,
           Alive
<1>. QED BY <1>1, <1>2, <1>3

\* The invariant is kept by every step of Container.
LEMMA ContainerStepRun == RunInv /\ [Next]_vars => RunInv'
<1>. SUFFICES ASSUME RunInv, [Next]_vars PROVE RunInv'
    OBVIOUS
<1>1. CASE Status
    <2>1. PICK mode \in BOOLEAN, untilTold \in BOOLEAN :
              \/ Call(mode, Control(Contents(Stack)), untilTold)
              \/ CallFails(mode, Control(Contents(Stack)))
        BY <1>1 DEF Status
    <2>2. st["host"] \in {"none", "done", "failed"}
        BY <1>1 DEF Status, InContainer
    <2>. QED BY <2>1, <2>2, CallRun, FreshRun DEF Call
<1>2. CASE Running
    BY <1>2, StepRun DEF Running
<1>3. CASE Drop \/ IntoUpper
    BY <1>3, FreshRun DEF Drop, IntoUpper, Forget
<1>4. CASE UNCHANGED runVars
    BY <1>4, StutterRun
<1>5. Next => \/ Status \/ Running \/ Drop \/ IntoUpper \/ UNCHANGED runVars
    BY Zenon DEF Next, PushArchive, PushDir, PushDurableTree, PushFails, AllPushed, Make,
           MakeFails, Made, Write,
           DropNext, Reuse, PushUpper, DropSettings
<1>. QED BY <1>1, <1>2, <1>3, <1>4, <1>5 DEF vars
----------------------------------------------------------------------------
(* Sequences of directories and of nodes                                   *)

\* A sequence with one more element at its end
LEMMA AppendTo ==
    ASSUME NEW S, NEW s \in Seq(S), NEW e \in S
    PROVE  /\ Append(s, e) \in Seq(S)
           /\ ToSet(Append(s, e)) = ToSet(s) \union {e}
           /\ Append(s, e)[Len(Append(s, e))] = e
           /\ IsInjective(s) /\ e \notin ToSet(s) => IsInjective(Append(s, e))
<1>1. /\ Len(Append(s, e)) = Len(s) + 1 /\ DOMAIN s = 1 .. Len(s) /\ DOMAIN Append(s, e) = 1 .. Len(s) + 1
      /\ \A i \in 1 .. Len(s) : Append(s, e)[i] = s[i]
      /\ Append(s, e)[Len(s) + 1] = e
      /\ Len(s) \in Nat
    OBVIOUS
<1>2. ToSet(Append(s, e)) = ToSet(s) \union {e}
    BY <1>1 DEF ToSet
<1>3. IsInjective(s) /\ e \notin ToSet(s) => IsInjective(Append(s, e))
    BY <1>1 DEF ToSet, IsInjective
<1>. QED BY <1>1, <1>2, <1>3

\* A sequence without its first element
LEMMA TailOf ==
    ASSUME NEW S, NEW s \in Seq(S), s # << >>, IsInjective(s)
    PROVE  /\ Tail(s) \in Seq(S)
           /\ Head(s) = s[1] /\ Head(s) \in ToSet(s)
           /\ ToSet(Tail(s)) = ToSet(s) \ {Head(s)}
           /\ IsInjective(Tail(s))
<1>1. /\ Len(s) \in Nat /\ Len(s) > 0 /\ DOMAIN s = 1 .. Len(s) /\ DOMAIN Tail(s) = 1 .. Len(s) - 1
      /\ \A i \in 1 .. Len(s) - 1 : Tail(s)[i] = s[i + 1]
      /\ Head(s) = s[1] /\ Tail(s) \in Seq(S)
    OBVIOUS
<1>2. IsInjective(Tail(s))
    BY <1>1 DEF IsInjective
<1>3. ASSUME NEW e \in ToSet(s), e # Head(s)
      PROVE  e \in ToSet(Tail(s))
    <2>1. PICK i \in 1 .. Len(s) : e = s[i]
        BY <1>1 DEF ToSet
    <2>2. i - 1 \in 1 .. Len(s) - 1 /\ e = Tail(s)[i - 1]
        BY <1>1, <1>3, <2>1
    <2>. QED BY <1>1, <2>2 DEF ToSet
<1>4. ASSUME NEW e \in ToSet(Tail(s))
      PROVE  e \in ToSet(s) /\ e # Head(s)
    <2>1. PICK i \in 1 .. Len(s) - 1 : e = s[i + 1]
        BY <1>1 DEF ToSet
    <2>2. i + 1 \in 1 .. Len(s) /\ i + 1 # 1
        BY <1>1
    <2>. QED BY <1>1, <2>1, <2>2 DEF ToSet, IsInjective
<1>5. Head(s) \in ToSet(s)
    BY <1>1 DEF ToSet
<1>. QED BY <1>1, <1>2, <1>3, <1>4, <1>5

\* One sequence after another
LEMMA ConcatOf ==
    ASSUME NEW S, NEW s \in Seq(S), NEW t \in Seq(S)
    PROVE  /\ s \o t \in Seq(S)
           /\ ToSet(s \o t) = ToSet(s) \union ToSet(t)
           /\ IsInjective(s) /\ IsInjective(t) /\ ToSet(s) \intersect ToSet(t) = {} => IsInjective(s \o t)
<1>1. /\ Len(s) \in Nat /\ Len(t) \in Nat /\ DOMAIN s = 1 .. Len(s) /\ DOMAIN t = 1 .. Len(t)
      /\ DOMAIN (s \o t) = 1 .. Len(s) + Len(t)
      /\ \A i \in 1 .. Len(s) + Len(t) : (s \o t)[i] = IF i <= Len(s) THEN s[i] ELSE t[i - Len(s)]
      /\ s \o t \in Seq(S)
    OBVIOUS
<1>2. ToSet(s \o t) \subseteq ToSet(s) \union ToSet(t)
    BY <1>1 DEF ToSet
<1>3. ToSet(s) \subseteq ToSet(s \o t)
    BY <1>1 DEF ToSet
<1>4. ASSUME NEW e \in ToSet(t)
      PROVE  e \in ToSet(s \o t)
    <2>1. PICK i \in 1 .. Len(t) : e = t[i]
        BY <1>1 DEF ToSet
    <2>2. i + Len(s) \in 1 .. Len(s) + Len(t) /\ (s \o t)[i + Len(s)] = e
        BY <1>1, <2>1
    <2>. QED BY <1>1, <2>2 DEF ToSet
<1>5. ASSUME IsInjective(s), IsInjective(t), ToSet(s) \intersect ToSet(t) = {}
      PROVE  IsInjective(s \o t)
    <2>. SUFFICES ASSUME NEW i \in 1 .. Len(s) + Len(t), NEW j \in 1 .. Len(s) + Len(t),
                         (s \o t)[i] = (s \o t)[j]
                  PROVE  i = j
        BY <1>1 DEF IsInjective
    <2>1. CASE i <= Len(s) /\ j <= Len(s)
        BY <1>1, <1>5, <2>1 DEF IsInjective
    <2>2. CASE i > Len(s) /\ j > Len(s)
        <3>1. i - Len(s) \in 1 .. Len(t) /\ j - Len(s) \in 1 .. Len(t) /\ t[i - Len(s)] = t[j - Len(s)]
            BY <1>1, <2>2
        <3>2. i - Len(s) = j - Len(s)
            BY <1>1, <1>5, <3>1 DEF IsInjective
        <3>. QED BY <1>1, <3>2
    <2>3. \A k \in 1 .. Len(s), l \in 1 .. Len(t) : s[k] # t[l]
        BY <1>1, <1>5 DEF ToSet
    <2>4. CASE i <= Len(s) /\ j > Len(s)
        BY <1>1, <1>5, <2>3, <2>4
    <2>5. CASE j <= Len(s) /\ i > Len(s)
        BY <1>1, <1>5, <2>3, <2>5
    <2>. QED BY <1>1, <2>1, <2>2, <2>4, <2>5
<1>. QED BY <1>1, <1>2, <1>3, <1>4, <1>5

\* A set of natural numbers with a bound has a greatest one.
LEMMA Greatest ==
    ASSUME NEW m \in Nat, NEW S, S \subseteq 1 .. m, S # {}
    PROVE  \E g \in S : \A k \in S : k <= g
<1>. DEFINE T == {m - k : k \in S}
<1>1. T \subseteq Nat /\ T # {}
    <2>1. \A k \in S : k \in 1 .. m /\ m - k \in Nat
        OBVIOUS
    <2>. QED BY <2>1
<1>2. PICK t \in T : \A u \in T : ~(<<u, t>> \in OpToRel(<, Nat))
    BY <1>1, WFMin, NatLessThanWellFounded
<1>3. PICK g \in S : t = m - g
    OBVIOUS
<1>4. \A k \in S : ~(m - k < m - g)
    BY <1>1, <1>2, <1>3 DEF OpToRel
<1>5. \A k \in S : k \in Nat /\ g \in Nat /\ k <= g
    BY <1>4
<1>. QED BY <1>5

\* A node on top hides those below, unless there is nothing.
LEMMA HighestOfAppend ==
    ASSUME NEW N, NEW nodes \in Seq(N), NEW n \in N
    PROVE  Highest(Append(nodes, n)) = IF n.kind = "absent" THEN Highest(nodes) ELSE n
<1>. DEFINE longer == Append(nodes, n)
            Has(list) == {i \in DOMAIN list : list[i].kind # "absent"}
            Greater(has) == CHOOSE i \in has : \A j \in has : j <= i
<1>1. /\ DOMAIN longer = 1 .. Len(nodes) + 1 /\ DOMAIN nodes = 1 .. Len(nodes) /\ Len(nodes) \in Nat
      /\ \A i \in 1 .. Len(nodes) : longer[i] = nodes[i]
      /\ longer[Len(nodes) + 1] = n
    OBVIOUS
<1>2. CASE n.kind = "absent"
    <2>1. Has(longer) = Has(nodes)
        BY <1>1, <1>2
    <2>2. Has(nodes) # {} => Greater(Has(nodes)) \in Has(nodes)
        <3>1. Has(nodes) \subseteq 1 .. Len(nodes)
            BY <1>1
        <3>. HIDE DEF Has
        <3>. QED BY <1>1, <3>1, Greatest
    <2>3. Has(nodes) # {} => longer[Greater(Has(nodes))] = nodes[Greater(Has(nodes))]
        BY <1>1, <2>2
    <2>. QED BY <1>2, <2>1, <2>3 DEF Highest
<1>3. CASE n.kind # "absent"
    <2>1. /\ Len(nodes) + 1 \in Has(longer)
          /\ \A i \in Has(longer) : i \in Nat /\ i <= Len(nodes) + 1
        BY <1>1, <1>3
    <2>. HIDE DEF Has
    <2>2. Greater(Has(longer)) = Len(nodes) + 1
        BY <1>1, <2>1
    <2>3. Has(longer) # {}
        BY <2>1
    <2>. QED BY <1>1, <1>3, <2>2, <2>3 DEF Highest, Has
<1>. QED BY <1>2, <1>3

\* What an overlay shows of directories with the contents in on
Shown(on, dirs) == Highest([i \in DOMAIN dirs |-> on[dirs[i]].node])

\* What an overlay shows, in the words of the model
LEMMA ShownIsTop ==
    ASSUME NEW D, NEW dirs \in Seq(D)
    PROVE  Top(Contents(dirs)) = Shown(disk, dirs)
<1>1. [i \in DOMAIN Contents(dirs) |-> Contents(dirs)[i].node] = [i \in DOMAIN dirs |-> disk[dirs[i]].node]
    BY DEF Contents
<1>. QED BY <1>1 DEF Top, Shown

\* Only what the directories of a stack have counts.
LEMMA ShownOfSame ==
    ASSUME NEW D, NEW dirs \in Seq(D), NEW f, NEW g, \A d \in ToSet(dirs) : g[d].node = f[d].node
    PROVE  Shown(g, dirs) = Shown(f, dirs)
<1>1. [i \in DOMAIN dirs |-> g[dirs[i]].node] = [i \in DOMAIN dirs |-> f[dirs[i]].node]
    BY DEF ToSet
<1>. QED BY <1>1 DEF Shown

\* One more directory on top of a stack
LEMMA ShownOfAppend ==
    ASSUME NEW D, NEW dirs \in Seq(D), NEW d \in D, NEW f
    PROVE  Shown(f, Append(dirs, d)) =
               IF f[d].node.kind = "absent" THEN Shown(f, dirs) ELSE f[d].node
<1>. DEFINE N == {f[e].node : e \in D}
            nodes == [i \in DOMAIN dirs |-> f[dirs[i]].node]
            longer == [i \in DOMAIN Append(dirs, d) |-> f[Append(dirs, d)[i]].node]
<1>1. nodes \in Seq(N) /\ f[d].node \in N
    <2>1. \A i \in 1 .. Len(dirs) : dirs[i] \in D
        OBVIOUS
    <2>2. DOMAIN dirs = 1 .. Len(dirs) /\ Len(dirs) \in Nat
        OBVIOUS
    <2>3. \A i \in 1 .. Len(dirs) : f[dirs[i]].node \in N
        BY <2>1
    <2>4. f[d].node \in N
        OBVIOUS
    <2>. HIDE DEF N
    <2>. QED BY <2>2, <2>3, <2>4
<1>2. longer = Append(nodes, f[d].node)
    <2>1. /\ DOMAIN Append(dirs, d) = 1 .. Len(dirs) + 1 /\ Len(dirs) \in Nat /\ DOMAIN dirs = 1 .. Len(dirs)
          /\ \A i \in 1 .. Len(dirs) : Append(dirs, d)[i] = dirs[i]
          /\ Append(dirs, d)[Len(dirs) + 1] = d
        OBVIOUS
    <2>2. Len(nodes) = Len(dirs) /\ \A i \in 1 .. Len(dirs) : nodes[i] = f[dirs[i]].node
        BY <2>1
    <2>. HIDE DEF N
    <2>3. /\ DOMAIN Append(nodes, f[d].node) = 1 .. Len(dirs) + 1
          /\ \A i \in 1 .. Len(dirs) : Append(nodes, f[d].node)[i] = nodes[i]
          /\ Append(nodes, f[d].node)[Len(dirs) + 1] = f[d].node
          /\ Append(nodes, f[d].node) \in Seq(N)
        BY <1>1, <2>1, <2>2
    <2>4. Append(nodes, f[d].node) = [i \in 1 .. Len(dirs) + 1 |-> Append(nodes, f[d].node)[i]]
        BY <2>3
    <2>5. \A i \in 1 .. Len(dirs) + 1 : f[Append(dirs, d)[i]].node = Append(nodes, f[d].node)[i]
        BY <2>1, <2>2, <2>3
    <2>. QED BY <2>1, <2>4, <2>5
<1>3. Highest(Append(nodes, f[d].node)) = IF f[d].node.kind = "absent" THEN Highest(nodes) ELSE f[d].node
    <2>. HIDE DEF N, nodes
    <2>. QED BY <1>1, HighestOfAppend
<1>. QED BY <1>2, <1>3 DEF Shown

\* The last directory shows, if it has something.
LEMMA ShownOfLast ==
    ASSUME NEW D, NEW dirs \in Seq(D), dirs # << >>, NEW f, f[dirs[Len(dirs)]].node.kind # "absent"
    PROVE  Shown(f, dirs) = f[dirs[Len(dirs)]].node
<1>. DEFINE n == Len(dirs)
            nodes == [i \in DOMAIN dirs |-> f[dirs[i]].node]
            has == {i \in DOMAIN nodes : nodes[i].kind # "absent"}
<1>1. /\ n \in Nat /\ n > 0 /\ DOMAIN nodes = 1 .. n /\ nodes[n] = f[dirs[n]].node
    OBVIOUS
<1>2. n \in has /\ \A i \in has : i \in Nat /\ i <= n
    BY <1>1
<1>. HIDE DEF has
<1>3. (CHOOSE i \in has : \A j \in has : j <= i) = n
    BY <1>1, <1>2
<1>. QED BY <1>1, <1>2, <1>3 DEF Shown, Highest, has
----------------------------------------------------------------------------
(* The steps of prepare() and mount()                                      *)

\* What prepare() and mount() make, in order
LEMMA StepsAre ==
    /\ Len(Steps) = IF request.use = "mount" THEN 4 ELSE 6
    /\ DOMAIN Steps = 1 .. Len(Steps)
    /\ IsInjective(Steps)
    /\ Steps \in Seq(ToSet(Steps))
    /\ ToSet(Steps) = {"root", "scratch", "upper", "overlay"}
                         \union (IF request.use = "mount" THEN {} ELSE {"stage", "bind"})
    /\ request.use = "mount" =>
        Steps[1] = "root" /\ Steps[2] = "scratch" /\ Steps[3] = "upper" /\ Steps[4] = "overlay"
    /\ request.use # "mount" =>
        /\ Steps[1] = "upper" /\ Steps[2] = "stage" /\ Steps[3] = "scratch"
        /\ Steps[4] = "root" /\ Steps[5] = "overlay" /\ Steps[6] = "bind"
<1>1. CASE request.use = "mount"
    <2>1. Steps = <<"root", "scratch", "upper", "overlay">>
        BY <1>1 DEF Steps
    <2>2. /\ DOMAIN Steps = 1 .. 4 /\ Len(Steps) = 4
          /\ Steps[1] = "root" /\ Steps[2] = "scratch" /\ Steps[3] = "upper" /\ Steps[4] = "overlay"
        BY <2>1
    <2>3. ToSet(Steps) = {"overlay", "root", "scratch", "upper"}
        BY <2>2 DEF ToSet
    <2>4. IsInjective(Steps)
        BY <2>2 DEF IsInjective
    <2>5. Steps \in Seq({"overlay", "root", "scratch", "upper"})
        BY <2>1
    <2>. QED BY <1>1, <2>2, <2>3, <2>4, <2>5
<1>2. CASE request.use # "mount"
    <2>1. Steps = <<"upper", "stage", "scratch", "root", "overlay", "bind">>
        BY <1>2 DEF Steps
    <2>2. /\ DOMAIN Steps = 1 .. 6 /\ Len(Steps) = 6
          /\ Steps[1] = "upper" /\ Steps[2] = "stage" /\ Steps[3] = "scratch"
          /\ Steps[4] = "root" /\ Steps[5] = "overlay" /\ Steps[6] = "bind"
        BY <2>1
    <2>3. ToSet(Steps) = {"overlay", "root", "scratch", "upper", "stage", "bind"}
        BY <2>2 DEF ToSet
    <2>4. IsInjective(Steps)
        BY <2>2 DEF IsInjective
    <2>5. Steps \in Seq({"root", "scratch", "upper", "overlay", "stage", "bind"})
        BY <2>1
    <2>. QED BY <1>2, <2>2, <2>3, <2>4, <2>5
<1>. QED BY <1>1, <1>2

\* What is dropped with a container, in order: the same, the overlay first
LEMMA FieldsAre ==
    /\ Len(Fields) \in {4, 5}
    /\ DOMAIN Fields = 1 .. Len(Fields)
    /\ IsInjective(Fields)
    /\ Fields \in Seq(ToSet(Steps))
    /\ Fields[1] = "overlay" /\ Fields[Len(Fields)] = "upper"
    /\ ToSet(Fields) = ToSet(Steps) \ {"bind"}
<1>1. CASE request.use = "mount"
    <2>1. Fields = <<"overlay", "root", "scratch", "upper">>
        BY <1>1 DEF Fields
    <2>2. /\ DOMAIN Fields = 1 .. 4 /\ Len(Fields) = 4
          /\ Fields[1] = "overlay" /\ Fields[2] = "root" /\ Fields[3] = "scratch" /\ Fields[4] = "upper"
        BY <2>1
    <2>3. ToSet(Fields) = {"overlay", "root", "scratch", "upper"}
        BY <2>2 DEF ToSet
    <2>4. ToSet(Steps) = {"overlay", "root", "scratch", "upper"}
        BY <1>1 DEF Steps, ToSet
    <2>5. IsInjective(Fields)
        BY <2>2 DEF IsInjective
    <2>6. Fields \in Seq({"overlay", "root", "scratch", "upper"})
        BY <2>1
    <2>. QED BY <2>2, <2>3, <2>4, <2>5, <2>6
<1>2. CASE request.use # "mount"
    <2>1. Fields = <<"overlay", "root", "stage", "scratch", "upper">>
        BY <1>2 DEF Fields
    <2>2. /\ DOMAIN Fields = 1 .. 5 /\ Len(Fields) = 5
          /\ Fields[1] = "overlay" /\ Fields[2] = "root" /\ Fields[3] = "stage"
          /\ Fields[4] = "scratch" /\ Fields[5] = "upper"
        BY <2>1
    <2>3. ToSet(Fields) = {"overlay", "root", "stage", "scratch", "upper"}
        BY <2>2 DEF ToSet
    <2>4. ToSet(Steps) = {"overlay", "root", "stage", "scratch", "upper", "bind"}
        BY <1>2 DEF Steps, ToSet
    <2>5. IsInjective(Fields)
        BY <2>2 DEF IsInjective
    <2>6. Fields \in Seq({"overlay", "root", "stage", "scratch", "upper", "bind"})
        BY <2>1
    <2>. QED BY <2>2, <2>3, <2>4, <2>5, <2>6
<1>. QED BY <1>1, <1>2
----------------------------------------------------------------------------
(* Directories and mounts                                                  *)

Dirs == {"archive", "dir", "tree", "root", "scratch", "upper", "stage", "overlay", "bind"} \X Nat

MadeDirs == {Temp(Steps[i]) : i \in 1 .. made}
Mounts == {Temp("overlay"), Temp("bind")}

\* What is still to be dropped of the container, what the settings hold, and
\* what stays when the container is gone
Rest == IF pc \in {"make", "ready"} THEN MadeDirs ELSE ToSet(drops)
SettingsHold == ToSet(archiveDirs) \union ToSet(trees)
Held == owned \union (IF pc = "end" THEN {} ELSE SettingsHold)

LayersTyped ==
    /\ request \in Requests
    /\ pc \in {"push", "make", "ready", "dropping", "upper", "end"}
    /\ pushed \in Seq(Node)
    /\ round \in Nat \ {0}
    /\ made \in 0 .. Len(Steps)
    /\ pc \in {"push", "dropping", "upper"} => made = 0
    /\ pc = "ready" => made = Len(Steps)
    /\ lowerDirs \in Seq(Dirs) /\ archiveDirs \in Seq(Dirs) /\ trees \in Seq(Dirs)
    /\ drops \in Seq(Dirs)
    /\ \A d \in DOMAIN disk : disk[d].node \in Node

\* Directories do not share names
NamesInv ==
    /\ ToSet(archiveDirs) \subseteq {"archive"} \X (1 .. Len(pushed))
    /\ ToSet(trees) \subseteq {"tree"} \X (1 .. Len(pushed))
    /\ owned \subseteq ({"dir"} \X (1 .. Len(pushed))) \union ({"upper"} \X (1 .. round))
    /\ pc \notin {"upper", "end"} => Temp("upper") \notin owned
    /\ pc = "upper" => Temp("upper") \in owned

\* The directories on disk are those that somebody will drop, once each, or
\* look after
DirsInv ==
    /\ DOMAIN disk = Held \union (Rest \ Mounts)
    /\ Rest \intersect Held = {}
    /\ pc \in {"push", "make", "ready"} => drops = << >>
    /\ IsInjective(drops) /\ IsInjective(archiveDirs) /\ IsInjective(trees)
    /\ ToSet(lowerDirs) \subseteq owned \union SettingsHold
    /\ SettingsHold \subseteq ToSet(lowerDirs)

\* A list of drops that starts with the unmount
Unmounts(list) == list # << >> /\ Head(list) = Temp("overlay")

\* As long as the overlay is mounted, it is the next to be dropped
MountInv ==
    mount # << >> =>
        /\ mount = Lowers
        /\ {Temp("root"), Temp("scratch"), Temp("upper")} \subseteq DOMAIN disk
        /\ request.use # "mount" => Temp("stage") \in DOMAIN disk
        /\ ToSet(lowerDirs) \subseteq DOMAIN disk
        /\ IF pc \in {"make", "ready"} THEN Temp("overlay") \in MadeDirs ELSE Unmounts(drops)

\* Nothing is ever put into a stage directory
StageInv == \A d \in DOMAIN disk : d[1] = "stage" => disk[d].node = Empty.node

\* The lower directories show what was pushed, and an archive directory that
\* takes more archives is the last of them
StackInv ==
    /\ pc # "end" \/ mount # << >> => Shown(disk, lowerDirs) = Highest(pushed)
    /\ reusable # NoDir =>
        /\ lowerDirs # << >> /\ reusable = lowerDirs[Len(lowerDirs)]
        /\ reusable \in ToSet(archiveDirs)

LayersInv == LayersTyped /\ NamesInv /\ DirsInv /\ MountInv /\ StageInv /\ StackInv

\* When there is nothing left to drop, the overlay is gone.
LEMMA NotMounted ==
    ASSUME LayersInv, drops = << >>, pc \notin {"make", "ready"}
    PROVE  mount = << >>
BY DEF LayersInv, MountInv, Unmounts

\* A layer is pushed into a directory of its own.
LEMMA FreshLayer ==
    ASSUME LayersInv, pc = "push", NEW type \in {"archive", "dir", "tree"},
           NEW node \in Node, NEW what, what.node \in Node,
           IF node.kind = "absent" THEN what.node.kind = "absent" ELSE what.node = node,
           NEW dir, dir = LayerDir(type, Len(pushed) + 1),
           disk' = With(dir, what),
           lowerDirs' = Append(lowerDirs, dir),
           archiveDirs' = IF type = "archive" THEN Append(archiveDirs, dir) ELSE archiveDirs,
           trees' = IF type = "tree" THEN Append(trees, dir) ELSE trees,
           owned' = IF type = "dir" THEN owned \union {dir} ELSE owned,
           reusable' = IF type = "archive" THEN dir ELSE NoDir,
           pushed' = Append(pushed, node),
           UNCHANGED <<request, pc, round, made, mount, drops>>
    PROVE  LayersInv'
<1>1. /\ pushed \in Seq(Node) /\ Len(pushed) \in Nat
      /\ pushed' \in Seq(Node) /\ Len(pushed') = Len(pushed) + 1
      /\ dir \in Dirs /\ drops = << >> /\ mount = << >> /\ Rest = {} /\ Rest' = {}
      /\ lowerDirs \in Seq(Dirs) /\ archiveDirs \in Seq(Dirs) /\ trees \in Seq(Dirs)
    <2>1. pushed \in Seq(Node) /\ lowerDirs \in Seq(Dirs) /\ archiveDirs \in Seq(Dirs) /\ trees \in Seq(Dirs)
        BY DEF LayersInv, LayersTyped
    <2>2. Len(pushed) \in Nat /\ pushed' \in Seq(Node) /\ Len(pushed') = Len(pushed) + 1
        BY <2>1
    <2>3. dir \in Dirs
        BY <2>2 DEF LayerDir, Dirs
    <2>4. drops = << >>
        BY DEF LayersInv, DirsInv
    <2>5. mount = << >>
        BY <2>4, NotMounted
    <2>6. ToSet(<< >>) = {}
        BY DEF ToSet
    <2>7. Rest = {} /\ Rest' = {}
        BY <2>4, <2>6 DEF Rest
    <2>. QED BY <2>1, <2>2, <2>3, <2>4, <2>5, <2>7
<1>2. DOMAIN disk = owned \union SettingsHold /\ dir \notin DOMAIN disk /\ dir # NoDir
    BY <1>1 DEF LayersInv, NamesInv, DirsInv, Held, SettingsHold, LayerDir, NoDir
<1>3. DOMAIN disk' = DOMAIN disk \union {dir} /\ disk'[dir] = what /\ \A d \in DOMAIN disk : disk'[d] = disk[d]
    BY <1>2 DEF With
<1>4. /\ lowerDirs' \in Seq(Dirs) /\ ToSet(lowerDirs') = ToSet(lowerDirs) \union {dir}
      /\ lowerDirs'[Len(lowerDirs')] = dir /\ lowerDirs' # << >>
    BY <1>1, AppendTo
<1>5. /\ archiveDirs' \in Seq(Dirs) /\ IsInjective(archiveDirs')
      /\ ToSet(archiveDirs') = ToSet(archiveDirs) \union (IF type = "archive" THEN {dir} ELSE {})
    BY <1>1, <1>2, AppendTo DEF SettingsHold, LayersInv, DirsInv
<1>6. /\ trees' \in Seq(Dirs) /\ IsInjective(trees')
      /\ ToSet(trees') = ToSet(trees) \union (IF type = "tree" THEN {dir} ELSE {})
    BY <1>1, <1>2, AppendTo DEF SettingsHold, LayersInv, DirsInv
<1>7. LayersTyped'
    BY <1>1, <1>3, <1>4, <1>5, <1>6 DEF LayersInv, LayersTyped, Steps
<1>8. NamesInv'
    <2>1. 1 .. Len(pushed) \subseteq 1 .. Len(pushed') /\ Len(pushed) + 1 \in 1 .. Len(pushed')
        BY <1>1
    <2>2. Temp("upper") = Temp("upper")' /\ (type = "dir" => dir # Temp("upper"))
        BY DEF Temp, LayerDir
    <2>3. ToSet(archiveDirs') \subseteq {"archive"} \X (1 .. Len(pushed'))
        <3>1. type = "archive" => dir \in {"archive"} \X (1 .. Len(pushed'))
            BY <2>1 DEF LayerDir
        <3>. QED BY <2>1, <3>1, <1>5 DEF LayersInv, NamesInv
    <2>4. ToSet(trees') \subseteq {"tree"} \X (1 .. Len(pushed'))
        <3>1. type = "tree" => dir \in {"tree"} \X (1 .. Len(pushed'))
            BY <2>1 DEF LayerDir
        <3>. QED BY <2>1, <3>1, <1>6 DEF LayersInv, NamesInv
    <2>5. owned' \subseteq ({"dir"} \X (1 .. Len(pushed'))) \union ({"upper"} \X (1 .. round'))
        BY <2>1 DEF LayersInv, NamesInv, LayerDir
    <2>6. Temp("upper")' \notin owned'
        BY <2>2 DEF LayersInv, NamesInv
    <2>. QED BY <2>3, <2>4, <2>5, <2>6 DEF NamesInv
<1>9. DirsInv'
    BY <1>1, <1>2, <1>3, <1>4, <1>5, <1>6 DEF LayersInv, DirsInv, Held, SettingsHold
<1>10. MountInv'
    BY <1>1 DEF MountInv
<1>11. StageInv'
    <2>1. dir[1] # "stage"
        BY DEF LayerDir
    <2>. QED BY <2>1, <1>3 DEF LayersInv, StageInv
<1>12. StackInv'
    <2>1. Shown(disk', lowerDirs) = Shown(disk, lowerDirs)
        BY <1>1, <1>2, <1>3, ShownOfSame DEF LayersInv, DirsInv
    <2>2. Shown(disk', lowerDirs') = IF what.node.kind = "absent" THEN Shown(disk, lowerDirs) ELSE what.node
        BY <1>1, <1>3, <2>1, ShownOfAppend
    <2>3. Highest(pushed') = IF node.kind = "absent" THEN Highest(pushed) ELSE node
        BY <1>1, HighestOfAppend
    <2>. QED BY <1>4, <1>5, <2>2, <2>3 DEF LayersInv, StackInv
<1>. QED BY <1>7, <1>8, <1>9, <1>10, <1>11, <1>12 DEF LayersInv

\* The next layer is one of the request.
LEMMA NextIsTyped ==
    ASSUME LayersInv, Len(pushed) < Len(request.layers)
    PROVE  NextLayer.node \in Node
<1>. DEFINE L == [type : {"archive", "dir", "tree"}, node : Node]
<1>1. request \in Requests /\ Len(pushed) \in Nat
    BY DEF LayersInv, LayersTyped
<1>2. request.layers \in Seq(L)
    BY <1>1, ContainerAssumption
<1>3. NextLayer \in L
    <2>. HIDE DEF L
    <2>. QED BY <1>1, <1>2 DEF NextLayer
<1>. QED BY <1>3

\* An archive is unpacked into a new directory, or into the one that was made
\* for the archive before it.
LEMMA PushArchiveLayers ==
    ASSUME LayersInv, PushArchive
    PROVE  LayersInv'
<1>. DEFINE node == NextLayer.node
<1>1. node \in Node /\ pc = "push" /\ pushed \in Seq(Node) /\ lowerDirs \in Seq(Dirs)
    BY NextIsTyped DEF PushArchive, ToPush, LayersInv, LayersTyped
<1>2. CASE reusable = NoDir
    <2>. DEFINE dir == LayerDir("archive", Len(pushed) + 1)
                what == [Empty EXCEPT !.node = Unpacked(Empty.node, node)]
    <2>1. /\ what.node \in Node
          /\ IF node.kind = "absent" THEN what.node.kind = "absent" ELSE what.node = node
        BY <1>1 DEF Empty, Unpacked, Node
    <2>2. /\ disk' = With(dir, what) /\ lowerDirs' = Append(lowerDirs, dir)
          /\ archiveDirs' = Append(archiveDirs, dir) /\ reusable' = dir
          /\ trees' = trees /\ owned' = owned /\ pushed' = Append(pushed, node)
          /\ UNCHANGED <<request, pc, round, made, mount, drops>>
        BY <1>2 DEF PushArchive
    <2>. HIDE DEF what, node
    <2>. QED BY <1>1, <2>1, <2>2, FreshLayer
<1>3. CASE reusable # NoDir
    <2>. DEFINE what == [Empty EXCEPT !.node = Unpacked(disk[reusable].node, node)]
    <2>1. /\ lowerDirs # << >> /\ reusable = lowerDirs[Len(lowerDirs)] /\ reusable \in ToSet(archiveDirs)
          /\ reusable \in DOMAIN disk /\ disk[reusable].node \in Node /\ reusable[1] = "archive"
        BY <1>1, <1>3 DEF LayersInv, LayersTyped, StackInv, DirsInv, Held, SettingsHold,
               NamesInv
    <2>2. /\ disk' = With(reusable, what) /\ reusable' = reusable /\ pushed' = Append(pushed, node)
          /\ UNCHANGED <<lowerDirs, archiveDirs, request, pc, trees, round, made, mount, drops, owned>>
        BY <1>3 DEF PushArchive
    <2>3. what.node = IF node.kind = "absent" THEN disk[reusable].node ELSE node
        BY DEF Empty, Unpacked
    <2>. HIDE DEF what, node
    <2>4. /\ DOMAIN disk' = DOMAIN disk /\ disk'[reusable] = what
          /\ \A d \in DOMAIN disk : d # reusable => disk'[d] = disk[d]
        BY <2>1, <2>2 DEF With
    <2>5. mount = << >> /\ drops = << >>
        BY <1>1, NotMounted DEF LayersInv, DirsInv
    <2>6. LayersTyped'
        <3>1. pushed' \in Seq(Node)
            BY <1>1, <2>2
        <3>2. \A d \in DOMAIN disk' : disk'[d].node \in Node
            BY <1>1, <2>1, <2>3, <2>4 DEF LayersInv, LayersTyped
        <3>. QED BY <2>2, <3>1, <3>2 DEF LayersInv, LayersTyped, Steps
    <2>7. NamesInv'
        <3>1. 1 .. Len(pushed) \subseteq 1 .. Len(pushed')
            BY <1>1, <2>2
        <3>. QED BY <2>2, <3>1 DEF LayersInv, NamesInv, Temp
    <2>8. DirsInv'
        BY <2>2, <2>4 DEF LayersInv, DirsInv, Held, SettingsHold, Rest, MadeDirs, Mounts,
               Temp, Steps
    <2>9. MountInv'
        BY <2>2, <2>5 DEF MountInv
    <2>10. StageInv'
        BY <2>1, <2>4 DEF LayersInv, StageInv
    <2>11. StackInv'
        <3>1. Highest(pushed') = IF node.kind = "absent" THEN Highest(pushed) ELSE node
            BY <1>1, <2>2, HighestOfAppend
        <3>2. Shown(disk', lowerDirs) = IF node.kind = "absent" THEN Shown(disk, lowerDirs) ELSE node
            <4>1. CASE node.kind = "absent"
                <5>1. \A d \in ToSet(lowerDirs) : disk'[d].node = disk[d].node
                    BY <1>1, <2>3, <2>4, <4>1 DEF LayersInv, DirsInv, Held
                <5>. QED BY <1>1, <4>1, <5>1, ShownOfSame
            <4>2. CASE node.kind # "absent"
                BY <1>1, <2>1, <2>3, <2>4, <4>2, ShownOfLast
            <4>. QED BY <4>1, <4>2
        <3>. QED BY <1>1, <2>1, <2>2, <3>1, <3>2 DEF LayersInv, StackInv
    <2>. QED BY <2>6, <2>7, <2>8, <2>9, <2>10, <2>11 DEF LayersInv
<1>. QED BY <1>2, <1>3

\* A directory or a durable tree is pushed.
LEMMA PushOtherLayers ==
    ASSUME LayersInv, PushDir \/ PushDurableTree
    PROVE  LayersInv'
<1>. DEFINE node == NextLayer.node
<1>1. node \in Node /\ pc = "push" /\ Here.node = node
    BY NextIsTyped DEF PushDir, PushDurableTree, ToPush, Here, Empty
<1>2. /\ Here.node \in Node
      /\ IF node.kind = "absent" THEN Here.node.kind = "absent" ELSE Here.node = node
    BY <1>1
<1>3. CASE PushDir
    <2>. DEFINE dir == LayerDir("dir", Len(pushed) + 1)
    <2>1. /\ disk' = With(dir, Here) /\ lowerDirs' = Append(lowerDirs, dir)
          /\ archiveDirs' = archiveDirs /\ reusable' = NoDir
          /\ trees' = trees /\ owned' = owned \union {dir} /\ pushed' = Append(pushed, node)
          /\ UNCHANGED <<request, pc, round, made, mount, drops>>
        BY <1>3 DEF PushDir, AfterOtherLayer
    <2>. HIDE DEF node
    <2>. QED BY <1>1, <1>2, <2>1, FreshLayer
<1>4. CASE PushDurableTree
    <2>. DEFINE dir == LayerDir("tree", Len(pushed) + 1)
    <2>1. /\ disk' = With(dir, Here) /\ lowerDirs' = Append(lowerDirs, dir)
          /\ archiveDirs' = archiveDirs /\ reusable' = NoDir
          /\ trees' = Append(trees, dir) /\ owned' = owned /\ pushed' = Append(pushed, node)
          /\ UNCHANGED <<request, pc, round, made, mount, drops>>
        BY <1>4 DEF PushDurableTree, AfterOtherLayer
    <2>. HIDE DEF node
    <2>. QED BY <1>1, <1>2, <2>1, FreshLayer
<1>. QED BY <1>3, <1>4

\* Temporary directories have names of their own.
LEMMA TempsAre ==
    ASSUME LayersInv
    PROVE  /\ \A s \in ToSet(Steps) : Temp(s) \in Dirs /\ Temp(s) \notin SettingsHold
           /\ \A s \in ToSet(Steps) \ {"upper"} : Temp(s) \notin owned
           /\ \A s, t \in ToSet(Steps) : Temp(s) = Temp(t) => s = t
           /\ MadeDirs \subseteq Dirs
           /\ SettingsHold \intersect owned = {} /\ SettingsHold \intersect Mounts = {}
           /\ ToSet(archiveDirs) \intersect ToSet(trees) = {}
<1>1. ToSet(Steps) \subseteq {"root", "scratch", "upper", "overlay", "stage", "bind"}
    BY StepsAre
<1>2. /\ round \in Nat
      /\ ToSet(archiveDirs) \subseteq {"archive"} \X (1 .. Len(pushed))
      /\ ToSet(trees) \subseteq {"tree"} \X (1 .. Len(pushed))
      /\ owned \subseteq ({"dir"} \X (1 .. Len(pushed))) \union ({"upper"} \X (1 .. round))
    BY DEF LayersInv, LayersTyped, NamesInv
<1>3. \A s \in ToSet(Steps) : Temp(s) \in Dirs
    BY <1>1, <1>2 DEF Temp, Dirs
<1>4. \A s \in ToSet(Steps) : Temp(s)[1] = s
    BY DEF Temp
<1>5. \A d \in SettingsHold : d[1] \in {"archive", "tree"}
    BY <1>2 DEF SettingsHold
<1>6. \A d \in owned : d[1] \in {"dir", "upper"}
    BY <1>2
<1>7. MadeDirs \subseteq Dirs
    <2>1. \A i \in 1 .. made : i \in DOMAIN Steps
        BY StepsAre DEF LayersInv, LayersTyped
    <2>2. \A i \in 1 .. made : Steps[i] \in ToSet(Steps)
        BY <2>1 DEF ToSet
    <2>. QED BY <1>3, <2>2 DEF MadeDirs
<1>8. Temp("overlay")[1] = "overlay" /\ Temp("bind")[1] = "bind"
    BY DEF Temp
<1>9. SettingsHold \intersect owned = {}
    BY <1>5, <1>6
<1>10. SettingsHold \intersect Mounts = {}
    BY <1>5, <1>8 DEF Mounts
<1>11. ToSet(archiveDirs) \intersect ToSet(trees) = {}
    BY <1>2
<1>12. \A s \in ToSet(Steps) : Temp(s) \notin SettingsHold
    BY <1>1, <1>4, <1>5
<1>13. \A s \in ToSet(Steps) \ {"upper"} : Temp(s) \notin owned
    BY <1>1, <1>4, <1>6
<1>14. \A s, t \in ToSet(Steps) : Temp(s) = Temp(t) => s = t
    BY <1>4
<1>. QED BY <1>3, <1>7, <1>9, <1>10, <1>11, <1>12, <1>13, <1>14

\* The directories of a finished container
LEMMA AllMade ==
    ASSUME LayersInv, made = Len(Steps)
    PROVE  MadeDirs = {Temp(s) : s \in ToSet(Steps)}
BY StepsAre DEF MadeDirs, ToSet

\* One step of prepare() or mount()
LEMMA MakeLayers ==
    ASSUME LayersInv, Make
    PROVE  LayersInv'
<1>. DEFINE step == Steps[made + 1]
            dir == Temp(step)
<1>1. /\ pc = "make" /\ made \in Nat /\ made + 1 \in 1 .. Len(Steps) /\ step \in ToSet(Steps)
      /\ made' = made + 1 /\ drops = << >>
      /\ UNCHANGED <<request, pc, pushed, lowerDirs, archiveDirs, trees, reusable, round, drops, owned>>
    <2>1. DOMAIN Steps = 1 .. Len(Steps) /\ Len(Steps) \in Nat
        BY StepsAre
    <2>2. made \in Nat /\ made + 1 \in 1 .. Len(Steps)
        BY <2>1 DEF Make, LayersInv, LayersTyped
    <2>3. step \in ToSet(Steps)
        BY <2>1, <2>2 DEF ToSet
    <2>4. /\ pc = "make" /\ made' = made + 1
          /\ UNCHANGED <<request, pc, pushed, lowerDirs, archiveDirs, trees, reusable, round, drops, owned>>
        BY DEF Make, settings
    <2>5. drops = << >>
        BY <2>4 DEF LayersInv, DirsInv
    <2>. QED BY <2>2, <2>3, <2>4, <2>5
<1>2. /\ Steps' = Steps /\ \A s : Temp(s)' = Temp(s)
      /\ Mounts' = Mounts /\ SettingsHold' = SettingsHold /\ Held' = Held
    BY <1>1 DEF Steps, Temp, Mounts, SettingsHold, Held
<1>3. MadeDirs' = MadeDirs \union {dir}
    BY <1>1, <1>2 DEF MadeDirs
<1>4. dir \notin Held /\ Held = owned \union SettingsHold
    <2>1. Temp("upper") \notin owned
        BY <1>1 DEF LayersInv, NamesInv
    <2>. QED BY <1>1, <2>1, TempsAre DEF Held
<1>5. Rest = MadeDirs /\ Rest' = MadeDirs' /\ DOMAIN disk = Held \union (MadeDirs \ Mounts)
    BY <1>1 DEF Rest, LayersInv, DirsInv
<1>6. step = "overlay" => {Temp("root"), Temp("scratch"), Temp("upper")} \subseteq MadeDirs
                          /\ (request.use # "mount" => Temp("stage") \in MadeDirs)
    <2>1. step = "overlay" => \A s \in ToSet(Steps) \ {"overlay", "bind"} : \E i \in 1 .. made : Steps[i] = s
        <3>1. CASE request.use = "mount"
            BY <1>1, <3>1, StepsAre
        <3>2. CASE request.use # "mount"
            BY <1>1, <3>2, StepsAre
        <3>. QED BY <3>1, <3>2
    <2>2. step = "overlay" => \A s \in ToSet(Steps) \ {"overlay", "bind"} : Temp(s) \in MadeDirs
        BY <2>1 DEF MadeDirs
    <2>3. /\ {"root", "scratch", "upper"} \subseteq ToSet(Steps) \ {"overlay", "bind"}
          /\ request.use # "mount" => "stage" \in ToSet(Steps) \ {"overlay", "bind"}
        BY StepsAre
    <2>. QED BY <2>2, <2>3
<1>7. /\ step = "overlay" => dir \in Mounts /\ disk' = disk /\ mount' = Lowers
      /\ step = "bind" => dir \in Mounts /\ disk' = disk /\ mount' = mount
      /\ step \notin {"overlay", "bind"} => disk' = With(dir, Empty) /\ mount' = mount
    BY DEF Make, Mounts
<1>8. step \notin {"overlay", "bind"} => dir \notin Mounts
    <2>1. "overlay" \in ToSet(Steps)
        BY StepsAre
    <2>2. Temp("bind")[1] = "bind" /\ dir[1] = step
        BY DEF Temp
    <2>. QED BY <1>1, <2>1, <2>2, TempsAre DEF Mounts
<1>9. /\ DOMAIN disk' = Held \union (MadeDirs' \ Mounts)
      /\ \A d \in DOMAIN disk : d # dir => disk'[d] = disk[d]
      /\ dir \in DOMAIN disk' => disk'[dir] = Empty \/ disk' = disk
    <2>. HIDE DEF step, dir
    <2>1. CASE step \in {"overlay", "bind"}
        BY <1>3, <1>5, <1>7, <2>1
    <2>2. CASE step \notin {"overlay", "bind"}
        <3>1. DOMAIN disk' = DOMAIN disk \union {dir} /\ \A d \in DOMAIN disk' : disk'[d] = IF d = dir THEN Empty ELSE disk[d]
            BY <1>7, <2>2 DEF With
        <3>. QED BY <1>3, <1>5, <1>8, <2>2, <3>1
    <2>. QED BY <2>1, <2>2
<1>10. DOMAIN disk \subseteq DOMAIN disk'
    BY <1>3, <1>5, <1>9
<1>11. Empty.node \in Node
    BY DEF Empty, Node
<1>12. \A d \in DOMAIN disk' : (d \in DOMAIN disk /\ disk'[d] = disk[d]) \/ disk'[d] = Empty
    BY <1>3, <1>5, <1>9
<1>. HIDE DEF dir
<1>13. LayersTyped'
    <2>1. \A d \in DOMAIN disk' : disk'[d].node \in Node
        BY <1>11, <1>12 DEF LayersInv, LayersTyped
    <2>. QED BY <1>1, <1>2, <2>1 DEF LayersInv, LayersTyped
<1>14. NamesInv'
    BY <1>1, <1>2 DEF LayersInv, NamesInv
<1>15. DirsInv'
    <2>1. Rest' \intersect Held' = {}
        BY <1>2, <1>3, <1>4, <1>5 DEF LayersInv, DirsInv
    <2>. QED BY <1>1, <1>2, <1>5, <1>9, <2>1 DEF LayersInv, DirsInv
<1>16. MountInv'
    <2>1. Lowers' = Lowers
        BY <1>1, <1>2 DEF Lowers
    <2>2. CASE step = "overlay"
        <3>1. ToSet(lowerDirs) \subseteq DOMAIN disk
            BY <1>4, <1>5 DEF LayersInv, DirsInv
        <3>2. Temp("root") \notin Mounts /\ Temp("scratch") \notin Mounts /\ Temp("upper") \notin Mounts /\ Temp("stage") \notin Mounts
            BY DEF Temp, Mounts
        <3>3. {Temp("root"), Temp("scratch"), Temp("upper")} \subseteq DOMAIN disk
            BY <1>5, <1>6, <2>2, <3>2
        <3>4. request.use # "mount" => Temp("stage") \in DOMAIN disk
            BY <1>5, <1>6, <2>2, <3>2
        <3>5. mount' = Lowers /\ Temp("overlay") \in MadeDirs'
            BY <1>3, <1>7, <2>2 DEF dir
        <3>. QED BY <1>1, <1>2, <1>10, <2>1, <3>1, <3>3, <3>4, <3>5 DEF MountInv
    <2>3. CASE step # "overlay"
        <3>1. mount' = mount
            BY <1>7, <2>3
        <3>. QED BY <1>1, <1>2, <1>3, <1>10, <2>1, <3>1 DEF LayersInv, MountInv
    <2>. QED BY <2>2, <2>3
<1>17. StageInv'
    BY <1>12 DEF LayersInv, StageInv
<1>18. StackInv'
    <2>1. Shown(disk', lowerDirs) = Shown(disk, lowerDirs)
        <3>1. \A d \in ToSet(lowerDirs) : disk'[d].node = disk[d].node
            BY <1>4, <1>5, <1>9 DEF LayersInv, DirsInv
        <3>2. lowerDirs \in Seq(Dirs)
            BY DEF LayersInv, LayersTyped
        <3>. QED BY <3>1, <3>2, ShownOfSame
    <2>. QED BY <1>1, <2>1 DEF LayersInv, StackInv
<1>. QED BY <1>13, <1>14, <1>15, <1>16, <1>17, <1>18 DEF LayersInv

\* Fields and locals are dropped by the names of their directories.
LEMMA NamedAre ==
    ASSUME LayersInv, NEW names \in Seq(ToSet(Steps)), IsInjective(names)
    PROVE  /\ Named(names) \in Seq(Dirs) /\ IsInjective(Named(names))
           /\ ToSet(Named(names)) = {Temp(s) : s \in ToSet(names)}
           /\ names # << >> => Named(names) # << >> /\ Head(Named(names)) = Temp(names[1])
<1>1. /\ DOMAIN names = 1 .. Len(names) /\ Len(names) \in Nat
      /\ \A i \in 1 .. Len(names) : names[i] \in ToSet(Steps)
    OBVIOUS
<1>2. Named(names) = [i \in 1 .. Len(names) |-> Temp(names[i])]
    BY <1>1 DEF Named
<1>3. \A i \in 1 .. Len(names) : Temp(names[i]) \in Dirs
    BY <1>1, TempsAre
<1>4. Named(names) \in Seq(Dirs)
    BY <1>1, <1>2, <1>3
<1>5. ToSet(Named(names)) = {Temp(s) : s \in ToSet(names)}
    BY <1>1, <1>2 DEF ToSet
<1>6. IsInjective(Named(names))
    <2>. SUFFICES ASSUME NEW i \in 1 .. Len(names), NEW j \in 1 .. Len(names), Named(names)[i] = Named(names)[j]
                  PROVE  i = j
        BY <1>2 DEF IsInjective
    <2>1. Temp(names[i]) = Temp(names[j])
        BY <1>2
    <2>2. names[i] = names[j]
        BY <1>1, <2>1, TempsAre
    <2>. QED BY <1>1, <2>2 DEF IsInjective
<1>7. names # << >> => Named(names) # << >> /\ Head(Named(names)) = Temp(names[1])
    <2>. SUFFICES ASSUME names # << >> PROVE Named(names) # << >> /\ Head(Named(names)) = Temp(names[1])
        OBVIOUS
    <2>1. Len(names) > 0 /\ Len(Named(names)) = Len(names)
        BY <1>1, <1>2, <1>4
    <2>2. Named(names)[1] = Temp(names[1])
        BY <1>1, <1>2, <2>1
    <2>3. Named(names) # << >> /\ Head(Named(names)) = Named(names)[1]
        BY <1>4, <2>1
    <2>. QED BY <2>2, <2>3
<1>. QED BY <1>4, <1>5, <1>6, <1>7

\* The locals of a function that fails: the last one made goes first.
LEMMA LocalsAre ==
    ASSUME LayersInv
    PROVE  /\ Locals \in Seq(ToSet(Steps)) /\ IsInjective(Locals)
           /\ {Temp(s) : s \in ToSet(Locals)} = MadeDirs
           /\ made > 0 => Locals # << >> /\ Locals[1] = Steps[made]
<1>1. made \in Nat /\ made <= Len(Steps) /\ DOMAIN Steps = 1 .. Len(Steps) /\ Len(Steps) \in Nat
    BY StepsAre DEF LayersInv, LayersTyped
<1>2. Steps \in Seq(ToSet(Steps))
    BY StepsAre
<1>3. /\ SubSeq(Steps, 1, made) \in Seq(ToSet(Steps)) /\ Len(SubSeq(Steps, 1, made)) = made
      /\ \A i \in 1 .. made : SubSeq(Steps, 1, made)[i] = Steps[i]
    BY <1>1, <1>2
<1>4. Locals = [i \in 1 .. made |-> Steps[made - i + 1]]
    <2>1. \A i \in 1 .. made : made - i + 1 \in 1 .. made
        BY <1>1
    <2>. QED BY <1>3, <2>1 DEF Locals, Reverse
<1>5. \A i \in 1 .. made : made - i + 1 \in 1 .. made /\ Steps[made - i + 1] \in ToSet(Steps)
    BY <1>1 DEF ToSet
<1>6. Locals \in Seq(ToSet(Steps)) /\ Len(Locals) = made
    BY <1>1, <1>4, <1>5
<1>7. IsInjective(Locals)
    <2>. SUFFICES ASSUME NEW i \in 1 .. made, NEW j \in 1 .. made, Locals[i] = Locals[j]
                  PROVE  i = j
        BY <1>4 DEF IsInjective
    <2>1. Steps[made - i + 1] = Steps[made - j + 1]
        BY <1>4
    <2>2. made - i + 1 = made - j + 1
        BY <1>1, <2>1, StepsAre DEF IsInjective
    <2>. QED BY <1>1, <2>2
<1>8. {Temp(s) : s \in ToSet(Locals)} = MadeDirs
    <2>1. ToSet(Locals) \subseteq {Steps[i] : i \in 1 .. made}
        BY <1>4, <1>5 DEF ToSet
    <2>2. ASSUME NEW i \in 1 .. made
          PROVE  Steps[i] \in ToSet(Locals)
        <3>1. made - i + 1 \in 1 .. made /\ made - (made - i + 1) + 1 = i
            BY <1>1
        <3>2. Locals[made - i + 1] = Steps[i]
            BY <1>4, <3>1
        <3>. QED BY <1>4, <3>1, <3>2 DEF ToSet
    <2>3. ToSet(Locals) = {Steps[i] : i \in 1 .. made}
        BY <2>1, <2>2
    <2>. QED BY <2>3 DEF MadeDirs
<1>9. made > 0 => Locals # << >> /\ Locals[1] = Steps[made]
    BY <1>1, <1>4, <1>6
<1>. QED BY <1>6, <1>7, <1>8, <1>9

\* The settings are dropped, after what is left of a container.
LEMMA SettingsDrop ==
    ASSUME LayersInv, pc # "end", drops = << >>, NEW first \in Seq(Dirs), IsInjective(first),
           ToSet(first) = Rest, mount # << >> => Unmounts(first),
           pc' = "end", drops' = first \o SettingsDrops,
           UNCHANGED <<request, pushed, settings, round, made, disk, mount, owned>>
    PROVE  LayersInv'
<1>1. UNCHANGED <<lowerDirs, archiveDirs, trees, reusable>>
    BY DEF settings
<1>2. /\ SettingsDrops \in Seq(Dirs) /\ ToSet(SettingsDrops) = SettingsHold /\ IsInjective(SettingsDrops)
    BY TempsAre, ConcatOf DEF SettingsDrops, SettingsHold, LayersInv, LayersTyped, DirsInv
<1>3. /\ Rest \intersect SettingsHold = {} /\ Held = owned \union SettingsHold
      /\ DOMAIN disk = Held \union (Rest \ Mounts)
    BY DEF LayersInv, DirsInv, Held
<1>4. /\ drops' \in Seq(Dirs) /\ ToSet(drops') = Rest \union SettingsHold /\ IsInjective(drops')
    BY <1>2, <1>3, ConcatOf
<1>5. /\ Rest' = Rest \union SettingsHold /\ Held' = owned
      /\ Mounts' = Mounts /\ Steps' = Steps /\ Lowers' = Lowers /\ SettingsHold' = SettingsHold
    <2>1. Rest' = ToSet(drops')
        BY DEF Rest
    <2>. QED BY <1>1, <1>4, <2>1 DEF Held, Mounts, Steps, Lowers, SettingsHold, Temp
<1>6. LayersTyped'
    BY <1>1, <1>4, <1>5 DEF LayersInv, LayersTyped
<1>7. NamesInv'
    BY <1>1 DEF LayersInv, NamesInv, Temp
<1>8. DirsInv'
    <2>1. DOMAIN disk' = Held' \union (Rest' \ Mounts')
        BY <1>3, <1>5, TempsAre
    <2>2. Rest' \intersect Held' = {}
        BY <1>3, <1>5, TempsAre DEF LayersInv, DirsInv
    <2>. QED BY <1>1, <1>4, <1>5, <2>1, <2>2 DEF LayersInv, DirsInv
<1>9. MountInv'
    <2>1. mount # << >> => Unmounts(drops')
        <3>. SUFFICES ASSUME mount # << >> PROVE Unmounts(drops')
            OBVIOUS
        <3>1. first # << >> /\ Head(first) = Temp("overlay")
            BY DEF Unmounts
        <3>2. drops' # << >> /\ Head(drops') = Head(first)
            BY <1>2, <3>1
        <3>. QED BY <3>1, <3>2 DEF Unmounts
    <2>2. Unmounts(drops') => Unmounts(drops)'
        BY DEF Unmounts, Temp
    <2>. QED BY <1>1, <1>5, <2>1, <2>2 DEF LayersInv, MountInv, Temp
<1>10. StageInv'
    BY DEF LayersInv, StageInv
<1>11. StackInv'
    BY <1>1 DEF LayersInv, StackInv, Shown
<1>. QED BY <1>6, <1>7, <1>8, <1>9, <1>10, <1>11 DEF LayersInv

\* The settings are dropped, whatever has failed before.
LEMMA EndLayers ==
    ASSUME LayersInv, PushFails \/ MakeFails \/ DropSettings
    PROVE  LayersInv'
<1>1. CASE PushFails \/ DropSettings
    <2>1. /\ pc \in {"push", "dropping", "upper"} /\ pc' = "end" /\ drops' = SettingsDrops
          /\ drops = << >>
          /\ UNCHANGED <<request, pushed, settings, round, made, disk, mount, owned>>
        BY <1>1 DEF PushFails, DropSettings, LayersInv, DirsInv
    <2>2. mount = << >>
        BY <2>1, NotMounted
    <2>3. ToSet(<< >>) = {} /\ IsInjective(<< >>) /\ << >> \in Seq(Dirs)
        BY DEF ToSet, IsInjective
    <2>4. Rest = {}
        BY <2>1, <2>3 DEF Rest
    <2>5. SettingsDrops \in Seq(Dirs)
        BY ConcatOf DEF SettingsDrops, LayersInv, LayersTyped
    <2>6. drops' = << >> \o SettingsDrops
        BY <2>1, <2>5
    <2>. QED BY <2>1, <2>2, <2>3, <2>4, <2>6, SettingsDrop
<1>2. CASE MakeFails
    <2>1. /\ pc = "make" /\ made < Len(Steps) /\ pc' = "end" /\ drops' = Named(Locals) \o SettingsDrops
          /\ drops = << >>
          /\ UNCHANGED <<request, pushed, settings, round, made, disk, mount, owned>>
        BY <1>2 DEF MakeFails, LayersInv, DirsInv
    <2>2. /\ Named(Locals) \in Seq(Dirs) /\ IsInjective(Named(Locals)) /\ ToSet(Named(Locals)) = MadeDirs
          /\ made > 0 => Named(Locals) # << >> /\ Head(Named(Locals)) = Temp(Steps[made])
        BY LocalsAre, NamedAre
    <2>3. Rest = MadeDirs
        BY <2>1 DEF Rest
    <2>4. mount # << >> => Unmounts(Named(Locals))
        <3>. SUFFICES ASSUME mount # << >> PROVE Unmounts(Named(Locals))
            OBVIOUS
        <3>1. Temp("overlay") \in MadeDirs
            BY <2>1 DEF LayersInv, MountInv
        <3>2. PICK i \in 1 .. made : Temp("overlay") = Temp(Steps[i])
            BY <3>1 DEF MadeDirs
        <3>3. made \in Nat /\ Steps[i] = "overlay"
            BY <3>2 DEF Temp, LayersInv, LayersTyped
        <3>4. Steps[made] = "overlay" /\ made > 0
            <4>1. CASE request.use = "mount"
                BY <2>1, <3>3, <4>1, StepsAre
            <4>2. CASE request.use # "mount"
                BY <2>1, <3>3, <4>2, StepsAre
            <4>. QED BY <4>1, <4>2
        <3>. QED BY <2>2, <3>4 DEF Unmounts
    <2>. QED BY <2>1, <2>2, <2>3, <2>4, SettingsDrop
<1>. QED BY <1>1, <1>2

\* What is in the container changes, but not the directories.
LEMMA UpperChanges ==
    ASSUME LayersInv, pc = "ready", NEW what, what.node \in Node,
           disk' = [disk EXCEPT ![Temp("upper")] = what],
           UNCHANGED <<request, pc, pushed, settings, round, made, mount, drops, owned>>
    PROVE  LayersInv'
<1>1. UNCHANGED <<lowerDirs, archiveDirs, trees, reusable>>
    BY DEF settings
<1>2. /\ DOMAIN disk' = DOMAIN disk
      /\ \A d \in DOMAIN disk : disk'[d] = IF d = Temp("upper") THEN what ELSE disk[d]
    OBVIOUS
<1>3. /\ Steps' = Steps /\ Mounts' = Mounts /\ MadeDirs' = MadeDirs /\ Rest' = Rest /\ Held' = Held
      /\ SettingsHold' = SettingsHold /\ Lowers' = Lowers
    BY <1>1 DEF Steps, Mounts, MadeDirs, Rest, Held, SettingsHold, Lowers, Temp
<1>4. Temp("upper") \notin Held
    <2>1. "upper" \in ToSet(Steps)
        BY StepsAre
    <2>2. Temp("upper") \notin SettingsHold /\ Temp("upper") \notin owned
        BY <2>1, TempsAre DEF LayersInv, NamesInv
    <2>. QED BY <2>2 DEF Held
<1>5. LayersTyped'
    BY <1>1, <1>2, <1>3 DEF LayersInv, LayersTyped
<1>6. NamesInv'
    BY <1>1 DEF LayersInv, NamesInv, Temp
<1>7. DirsInv'
    BY <1>1, <1>2, <1>3 DEF LayersInv, DirsInv
<1>8. MountInv'
    BY <1>1, <1>2, <1>3 DEF LayersInv, MountInv, Unmounts, Temp
<1>9. StageInv'
    <2>1. Temp("upper")[1] = "upper"
        BY DEF Temp
    <2>. QED BY <1>2, <2>1 DEF LayersInv, StageInv
<1>10. StackInv'
    <2>1. \A d \in ToSet(lowerDirs) : disk'[d].node = disk[d].node
        BY <1>2, <1>4 DEF LayersInv, DirsInv, Held
    <2>2. Shown(disk', lowerDirs) = Shown(disk, lowerDirs)
        BY <2>1, ShownOfSame DEF LayersInv, LayersTyped
    <2>. QED BY <1>1, <2>2 DEF LayersInv, StackInv
<1>. QED BY <1>5, <1>6, <1>7, <1>8, <1>9, <1>10 DEF LayersInv

\* A file is left in the container, or a command is run in it.
LEMMA UseLayers ==
    ASSUME LayersInv, Write \/ Status
    PROVE  LayersInv'
<1>1. Written \in Node
    BY DEF Written, Node, LayersInv, LayersTyped
<1>2. Temp("upper") \in DOMAIN disk
    <2>1. made = Len(Steps) /\ pc = "ready"
        BY DEF Write, Status, InContainer, LayersInv, LayersTyped
    <2>2. Temp("upper") \in MadeDirs
        BY <2>1, AllMade, StepsAre
    <2>3. Temp("upper") \notin Mounts
        BY DEF Temp, Mounts
    <2>. QED BY <2>1, <2>2, <2>3 DEF LayersInv, DirsInv, Rest
<1>3. CASE Write
    <2>. DEFINE what == [disk[Temp("upper")] EXCEPT !.node = Written]
    <2>1. disk' = [disk EXCEPT ![Temp("upper")] = what]
        BY <1>2, <1>3 DEF Write
    <2>2. what.node \in Node
        BY <1>1, <1>2
    <2>3. pc = "ready" /\ UNCHANGED <<request, pc, pushed, settings, round, made, mount, drops, owned>>
        BY <1>3 DEF Write, InContainer
    <2>. HIDE DEF what
    <2>. QED BY <2>1, <2>2, <2>3, UpperChanges
<1>4. CASE Status
    <2>1. PICK mode \in BOOLEAN :
              disk' = [disk EXCEPT ![Temp("upper")] =
                            [node |-> Written, control |-> disk[Temp("upper")].control \/ mode]]
        BY <1>4 DEF Status
    <2>. DEFINE what == [node |-> Written, control |-> disk[Temp("upper")].control \/ mode]
    <2>2. disk' = [disk EXCEPT ![Temp("upper")] = what] /\ what.node \in Node
        BY <1>1, <2>1
    <2>3. pc = "ready" /\ UNCHANGED <<request, pc, pushed, settings, round, made, mount, drops, owned>>
        BY <1>4 DEF Status, InContainer
    <2>. HIDE DEF what
    <2>. QED BY <2>2, <2>3, UpperChanges
<1>. QED BY <1>3, <1>4

\* Nothing but the program counter changes.
LEMMA ReadyLayers ==
    ASSUME LayersInv, AllPushed \/ Made
    PROVE  LayersInv'
<1>1. /\ UNCHANGED <<request, pushed, lowerDirs, archiveDirs, trees, reusable, round, made, disk, mount, drops, owned>>
      /\ drops = << >> /\ {pc, pc'} \subseteq {"push", "make", "ready"}
      /\ pc' = "make" => pc = "push" /\ made = 0 /\ mount = << >>
      /\ pc' = "ready" => made = Len(Steps) /\ pc = "make"
      /\ pc' # "push"
    BY NotMounted DEF AllPushed, Made, settings, files, LayersInv, LayersTyped, DirsInv
<1>2. /\ Steps' = Steps /\ Mounts' = Mounts /\ MadeDirs' = MadeDirs /\ Held' = Held
      /\ SettingsHold' = SettingsHold /\ Lowers' = Lowers
    BY <1>1 DEF Steps, Mounts, MadeDirs, Held, SettingsHold, Lowers, Temp
<1>3. Rest' = Rest
    <2>1. CASE pc' = "make"
        <3>1. ToSet(drops) = {} /\ MadeDirs = {}
            BY <1>1, <2>1 DEF ToSet, MadeDirs
        <3>. QED BY <1>1, <1>2, <2>1, <3>1 DEF Rest
    <2>2. CASE pc' = "ready"
        BY <1>1, <1>2, <2>2 DEF Rest
    <2>. QED BY <1>1, <2>1, <2>2
<1>4. LayersTyped'
    BY <1>1, <1>2 DEF LayersInv, LayersTyped
<1>5. NamesInv'
    BY <1>1 DEF LayersInv, NamesInv, Temp
<1>6. DirsInv'
    BY <1>1, <1>2, <1>3 DEF LayersInv, DirsInv
<1>7. MountInv'
    BY <1>1, <1>2 DEF LayersInv, MountInv, Unmounts, Temp
<1>8. StageInv' /\ StackInv'
    BY <1>1 DEF LayersInv, StageInv, StackInv, Shown
<1>. QED BY <1>4, <1>5, <1>6, <1>7, <1>8 DEF LayersInv

\* A container is dropped, or all of it but its upper directory.
LEMMA DropLayers ==
    ASSUME LayersInv, Drop \/ IntoUpper
    PROVE  LayersInv'
<1>1. /\ pc = "ready" /\ made = Len(Steps) /\ made' = 0 /\ pc' \in {"dropping", "upper"}
      /\ UNCHANGED <<request, pushed, lowerDirs, archiveDirs, trees, reusable, round, disk, mount>>
      /\ pc' = "dropping" => drops' = Named(Fields) /\ owned' = owned
      /\ pc' = "upper" => drops' = Named(Front(Fields)) /\ owned' = owned \union {Temp("upper")}
    BY DEF Drop, IntoUpper, InContainer, Forget, settings, LayersInv, LayersTyped
<1>2. /\ Steps' = Steps /\ Mounts' = Mounts /\ SettingsHold' = SettingsHold /\ Lowers' = Lowers
      /\ \A s : Temp(s)' = Temp(s)
    BY <1>1 DEF Steps, Mounts, SettingsHold, Lowers, Temp
<1>. DEFINE Upper == {d \in {Temp("upper")} : pc' = "upper"}
<1>3. owned' = owned \union Upper /\ Held' = Held \union Upper
    BY <1>1, <1>2 DEF Held
<1>4. Rest = {Temp(s) : s \in ToSet(Steps)}
    BY <1>1, AllMade DEF Rest
<1>5. /\ drops' \in Seq(Dirs) /\ IsInjective(drops')
      /\ ToSet(drops') = Rest \ ({Temp("bind")} \union Upper)
      /\ drops' # << >> /\ Head(drops') = Temp("overlay")
    <2>1. {Temp(s) : s \in ToSet(Fields)} = Rest \ {Temp("bind")}
        BY <1>4, StepsAre, FieldsAre DEF Temp
    <2>2. CASE pc' = "dropping"
        <3>1. Fields # << >>
            BY FieldsAre
        <3>. QED BY <1>1, <2>1, <2>2, <3>1, FieldsAre, NamedAre
    <2>3. CASE pc' = "upper"
        <3>1. /\ Front(Fields) \in Seq(ToSet(Steps)) /\ Len(Front(Fields)) = Len(Fields) - 1
              /\ \A i \in 1 .. Len(Fields) - 1 : Front(Fields)[i] = Fields[i]
            BY FieldsAre DEF Front
        <3>2. IsInjective(Front(Fields)) /\ Front(Fields) # << >> /\ Front(Fields)[1] = "overlay"
            BY <3>1, FieldsAre DEF IsInjective
        <3>3. ToSet(Front(Fields)) = ToSet(Fields) \ {"upper"}
            <4>1. ToSet(Front(Fields)) \subseteq ToSet(Fields) \ {"upper"}
                <5>1. \A i \in 1 .. Len(Fields) - 1 : i \in DOMAIN Fields /\ Fields[i] # "upper"
                    BY FieldsAre DEF IsInjective
                <5>. QED BY <3>1, <5>1 DEF ToSet
            <4>2. ASSUME NEW i \in DOMAIN Fields, Fields[i] # "upper"
                  PROVE  Fields[i] \in ToSet(Front(Fields))
                <5>1. i \in 1 .. Len(Fields) - 1
                    BY <4>2, FieldsAre
                <5>. QED BY <3>1, <5>1 DEF ToSet
            <4>. QED BY <4>1, <4>2 DEF ToSet
        <3>4. ToSet(Named(Front(Fields))) = {Temp(s) : s \in ToSet(Fields) \ {"upper"}}
            BY <3>1, <3>2, <3>3, NamedAre
        <3>5. {Temp(s) : s \in ToSet(Fields) \ {"upper"}} = {Temp(s) : s \in ToSet(Fields)} \ {Temp("upper")}
            BY DEF Temp
        <3>. QED BY <1>1, <2>1, <2>3, <3>1, <3>2, <3>4, <3>5, NamedAre
    <2>. QED BY <1>1, <2>2, <2>3
<1>6. Rest' = ToSet(drops')
    BY <1>1 DEF Rest
<1>7. Temp("upper") \in Rest /\ Temp("upper") \notin Mounts /\ Temp("bind") \in Mounts /\ Temp("upper") \notin owned
    <2>1. Temp("upper") \in Rest
        BY <1>4, StepsAre
    <2>. QED BY <1>1, <2>1 DEF Mounts, Temp, LayersInv, NamesInv
<1>8. DOMAIN disk = Held \union (Rest \ Mounts) /\ Rest \intersect Held = {}
    BY DEF LayersInv, DirsInv
<1>. HIDE DEF Upper
<1>9. LayersTyped'
    BY <1>1, <1>2, <1>5, StepsAre DEF LayersInv, LayersTyped
<1>10. NamesInv'
    <2>1. Temp("upper") \in {"upper"} \X (1 .. round)
        BY DEF Temp, LayersInv, LayersTyped
    <2>2. owned' \subseteq ({"dir"} \X (1 .. Len(pushed))) \union ({"upper"} \X (1 .. round))
        BY <1>3, <2>1 DEF Upper, LayersInv, NamesInv
    <2>. QED BY <1>1, <1>2, <1>3, <1>7, <2>2 DEF Upper, LayersInv, NamesInv
<1>11. DirsInv'
    <2>1. DOMAIN disk' = Held' \union (Rest' \ Mounts')
        BY <1>1, <1>2, <1>3, <1>5, <1>6, <1>7, <1>8 DEF Upper
    <2>2. Rest' \intersect Held' = {}
        BY <1>3, <1>5, <1>6, <1>8
    <2>. QED BY <1>1, <1>2, <1>3, <1>5, <2>1, <2>2 DEF LayersInv, DirsInv
<1>12. MountInv'
    BY <1>1, <1>2, <1>5 DEF LayersInv, MountInv, Unmounts
<1>13. StageInv' /\ StackInv'
    BY <1>1 DEF LayersInv, StageInv, StackInv, Shown
<1>. QED BY <1>9, <1>10, <1>11, <1>12, <1>13 DEF LayersInv

\* The first of the drops is dropped: the overlay, or a directory when the
\* overlay is gone.
LEMMA DropNextLayers ==
    ASSUME LayersInv, DropNext
    PROVE  LayersInv'
<1>. DEFINE d == Head(drops)
<1>1. /\ drops # << >> /\ drops' = Tail(drops) /\ pc \notin {"push", "make", "ready"}
      /\ UNCHANGED <<request, pc, pushed, lowerDirs, archiveDirs, trees, reusable, round, made, owned>>
      /\ drops \in Seq(Dirs) /\ IsInjective(drops)
    BY DEF DropNext, settings, LayersInv, LayersTyped, DirsInv
<1>2. /\ Steps' = Steps /\ Mounts' = Mounts /\ SettingsHold' = SettingsHold /\ Lowers' = Lowers
      /\ Held' = Held /\ \A s : Temp(s)' = Temp(s)
    BY <1>1 DEF Steps, Mounts, SettingsHold, Lowers, Temp, Held
<1>3. /\ drops' \in Seq(Dirs) /\ IsInjective(drops') /\ d \in ToSet(drops)
      /\ ToSet(drops') = ToSet(drops) \ {d}
    BY <1>1, TailOf
<1>4. Rest = ToSet(drops) /\ Rest' = Rest \ {d} /\ d \notin Held
    BY <1>1, <1>3 DEF Rest, LayersInv, DirsInv
<1>5. /\ DOMAIN disk = Held \union (Rest \ Mounts) /\ Rest \intersect Held = {}
      /\ ToSet(lowerDirs) \subseteq owned \union SettingsHold
    BY DEF LayersInv, DirsInv
<1>6. mount # << >> => d = Temp("overlay")
    BY <1>1 DEF LayersInv, MountInv, Unmounts
<1>7. mount' = << >>
    <2>1. Temp("overlay") # Temp("bind")
        BY DEF Temp
    <2>. QED BY <1>6, <2>1 DEF DropNext
<1>8. /\ d \in Mounts => disk' = disk
      /\ d \notin Mounts => disk' = [e \in DOMAIN disk \ {d} |-> disk[e]]
    BY DEF DropNext, Mounts, Restrict
<1>. HIDE DEF d
<1>9. /\ DOMAIN disk' = Held \union (Rest' \ Mounts)
      /\ DOMAIN disk' \subseteq DOMAIN disk
      /\ \A e \in DOMAIN disk' : disk'[e] = disk[e]
    BY <1>4, <1>5, <1>8
<1>10. LayersTyped'
    BY <1>1, <1>2, <1>3, <1>9 DEF LayersInv, LayersTyped
<1>11. NamesInv'
    BY <1>1, <1>2 DEF LayersInv, NamesInv
<1>12. DirsInv'
    BY <1>1, <1>2, <1>3, <1>4, <1>5, <1>9 DEF LayersInv, DirsInv
<1>13. MountInv'
    BY <1>7 DEF MountInv
<1>14. StageInv'
    BY <1>9 DEF LayersInv, StageInv
<1>15. StackInv'
    <2>1. ASSUME pc # "end"
          PROVE  Shown(disk', lowerDirs) = Shown(disk, lowerDirs)
        <3>1. \A e \in ToSet(lowerDirs) : disk'[e].node = disk[e].node
            BY <1>5, <1>9, <2>1 DEF Held
        <3>. QED BY <3>1, ShownOfSame DEF LayersInv, LayersTyped
    <2>. QED BY <1>1, <1>7, <2>1 DEF LayersInv, StackInv
<1>. QED BY <1>10, <1>11, <1>12, <1>13, <1>14, <1>15 DEF LayersInv

\* The next container is made, of the same layers or with one more.
LEMMA AgainLayers ==
    ASSUME LayersInv, Reuse \/ PushUpper
    PROVE  LayersInv'
<1>1. /\ pc \in {"dropping", "upper"} /\ pc' = "make" /\ drops = << >> /\ round' = round + 1 /\ made = 0
      /\ UNCHANGED <<request, archiveDirs, trees, made, disk, mount, drops, owned>>
      /\ round \in Nat \ {0} /\ pushed \in Seq(Node) /\ lowerDirs \in Seq(Dirs)
    BY DEF Reuse, PushUpper, Again, settings, files, LayersInv, LayersTyped
<1>2. mount = << >>
    BY <1>1, NotMounted
<1>3. /\ Rest = {} /\ Rest' = {} /\ Held = owned \union SettingsHold /\ DOMAIN disk = Held
      /\ Held' = Held /\ Steps' = Steps /\ SettingsHold' = SettingsHold
    <2>1. ToSet(<< >>) = {} /\ MadeDirs' = {}
        BY <1>1 DEF ToSet, MadeDirs
    <2>. QED BY <1>1, <2>1 DEF Rest, Held, Steps, SettingsHold, LayersInv, DirsInv
<1>4. \/ Reuse /\ UNCHANGED <<pushed, lowerDirs, reusable>>
      \/ /\ PushUpper /\ pc = "upper" /\ reusable' = NoDir
         /\ lowerDirs' = Append(lowerDirs, Temp("upper"))
         /\ pushed' = Append(pushed, disk[Temp("upper")].node)
    BY DEF Reuse, PushUpper, settings, AfterOtherLayer
<1>5. pc = "upper" => Temp("upper") \in owned /\ Temp("upper") \in Dirs
    <2>1. Temp("upper") \in Dirs
        BY TempsAre, StepsAre
    <2>. QED BY <2>1 DEF LayersInv, NamesInv
<1>6. /\ lowerDirs' \in Seq(Dirs) /\ pushed' \in Seq(Node) /\ Len(pushed) <= Len(pushed')
      /\ ToSet(lowerDirs) \subseteq ToSet(lowerDirs')
      /\ ToSet(lowerDirs') \subseteq owned \union SettingsHold
    <2>1. CASE Reuse /\ UNCHANGED <<pushed, lowerDirs, reusable>>
        BY <1>1, <2>1 DEF LayersInv, DirsInv
    <2>2. CASE /\ pc = "upper"
               /\ lowerDirs' = Append(lowerDirs, Temp("upper"))
               /\ pushed' = Append(pushed, disk[Temp("upper")].node)
        <3>1. disk[Temp("upper")].node \in Node
            BY <1>3, <1>5, <2>2 DEF LayersInv, LayersTyped
        <3>2. pushed' \in Seq(Node) /\ Len(pushed') = Len(pushed) + 1 /\ Len(pushed) \in Nat
            BY <1>1, <2>2, <3>1
        <3>3. lowerDirs' \in Seq(Dirs) /\ ToSet(lowerDirs') = ToSet(lowerDirs) \union {Temp("upper")}
            BY <1>1, <1>5, <2>2, AppendTo
        <3>. QED BY <1>5, <2>2, <3>2, <3>3 DEF LayersInv, DirsInv
    <2>. QED BY <1>4, <2>1, <2>2
<1>7. LayersTyped'
    BY <1>1, <1>3, <1>6 DEF LayersInv, LayersTyped
<1>8. NamesInv'
    <2>1. 1 .. Len(pushed) \subseteq 1 .. Len(pushed') /\ 1 .. round \subseteq 1 .. round' /\ round + 1 \notin 1 .. round
        BY <1>1, <1>6
    <2>2. Temp("upper")' = <<"upper", round + 1>>
        BY <1>1 DEF Temp
    <2>3. Temp("upper")' \notin owned
        BY <2>1, <2>2 DEF LayersInv, NamesInv
    <2>4. owned' \subseteq ({"dir"} \X (1 .. Len(pushed'))) \union ({"upper"} \X (1 .. round'))
        BY <1>1, <2>1 DEF LayersInv, NamesInv
    <2>5. /\ ToSet(archiveDirs)' \subseteq {"archive"} \X (1 .. Len(pushed'))
          /\ ToSet(trees)' \subseteq {"tree"} \X (1 .. Len(pushed'))
        BY <1>1, <2>1 DEF LayersInv, NamesInv
    <2>. QED BY <1>1, <2>3, <2>4, <2>5 DEF NamesInv
<1>9. DirsInv'
    <2>1. DOMAIN disk' = Held' \union (Rest' \ Mounts') /\ Rest' \intersect Held' = {}
        BY <1>1, <1>3
    <2>2. SettingsHold \subseteq ToSet(lowerDirs')
        BY <1>6 DEF LayersInv, DirsInv
    <2>. QED BY <1>1, <1>3, <1>6, <2>1, <2>2 DEF LayersInv, DirsInv
<1>10. MountInv'
    BY <1>1, <1>2 DEF MountInv
<1>11. StageInv'
    BY <1>1 DEF LayersInv, StageInv
<1>12. StackInv'
    <2>1. CASE Reuse /\ UNCHANGED <<pushed, lowerDirs, reusable>>
        BY <1>1, <2>1 DEF LayersInv, StackInv, Shown
    <2>2. CASE /\ pc = "upper" /\ reusable' = NoDir
               /\ lowerDirs' = Append(lowerDirs, Temp("upper"))
               /\ pushed' = Append(pushed, disk[Temp("upper")].node)
        <3>. DEFINE node == disk[Temp("upper")].node
        <3>1. node \in Node
            BY <1>3, <1>5, <2>2 DEF LayersInv, LayersTyped
        <3>2. Shown(disk, lowerDirs') = IF node.kind = "absent" THEN Shown(disk, lowerDirs) ELSE node
            BY <1>1, <1>5, <2>2, ShownOfAppend
        <3>3. Highest(pushed') = IF node.kind = "absent" THEN Highest(pushed) ELSE node
            BY <1>1, <2>2, <3>1, HighestOfAppend
        <3>4. Shown(disk, lowerDirs) = Highest(pushed)
            BY <2>2 DEF LayersInv, StackInv
        <3>5. Shown(disk', lowerDirs') = Highest(pushed')
            BY <1>1, <3>2, <3>3, <3>4
        <3>. QED BY <2>2, <3>5 DEF StackInv
    <2>. QED BY <1>4, <2>1, <2>2
<1>. QED BY <1>7, <1>8, <1>9, <1>10, <1>11, <1>12 DEF LayersInv

\* Before the first layer
LEMMA InitLayers == Init => LayersInv
<1>. SUFFICES ASSUME Init PROVE LayersInv
    OBVIOUS
<1>1. /\ request \in Requests /\ pc = "push" /\ pushed = << >> /\ DOMAIN disk = {} /\ lowerDirs = << >>
      /\ archiveDirs = << >> /\ trees = << >> /\ reusable = NoDir /\ round = 1 /\ made = 0
      /\ mount = << >> /\ drops = << >> /\ owned = {}
    BY DEF Init
<1>2. ToSet(<< >>) = {} /\ IsInjective(<< >>)
    BY DEF ToSet, IsInjective
<1>3. LayersTyped
    BY <1>1, StepsAre DEF LayersTyped
<1>4. NamesInv /\ DirsInv
    BY <1>1, <1>2 DEF NamesInv, DirsInv, Held, SettingsHold, Rest
<1>5. Highest(<< >>) = Empty.node /\ Shown(disk, << >>) = Empty.node
    BY DEF Highest, Shown
<1>6. MountInv /\ StageInv /\ StackInv
    BY <1>1, <1>5 DEF MountInv, StageInv, StackInv
<1>. QED BY <1>3, <1>4, <1>6 DEF LayersInv

\* Steps of a command leave the layers alone.
LEMMA StutterLayers ==
    ASSUME LayersInv, UNCHANGED <<request, pc, pushed, settings, round, made, files, owned>>
    PROVE  LayersInv'
<1>1. UNCHANGED <<request, pc, pushed, lowerDirs, archiveDirs, trees, reusable, round, made, disk, mount, drops, owned>>
    BY DEF settings, files
<1>2. /\ Steps' = Steps /\ Mounts' = Mounts /\ MadeDirs' = MadeDirs /\ Rest' = Rest /\ Held' = Held
      /\ SettingsHold' = SettingsHold /\ Lowers' = Lowers
    BY <1>1 DEF Steps, Mounts, MadeDirs, Rest, Held, SettingsHold, Lowers, Temp
<1>3. LayersTyped' /\ NamesInv' /\ DirsInv'
    BY <1>1, <1>2 DEF LayersInv, LayersTyped, NamesInv, DirsInv, Temp
<1>4. MountInv'
    BY <1>1, <1>2 DEF LayersInv, MountInv, Unmounts, Temp
<1>5. StageInv' /\ StackInv'
    BY <1>1 DEF LayersInv, StageInv, StackInv, Shown
<1>. QED BY <1>3, <1>4, <1>5 DEF LayersInv

\* The invariant of the layers is kept by every step.
LEMMA StepLayers == LayersInv /\ [Next]_vars => LayersInv'
<1>. SUFFICES ASSUME LayersInv, [Next]_vars PROVE LayersInv'
    OBVIOUS
<1>1. CASE PushArchive \/ PushDir \/ PushDurableTree
    BY <1>1, PushArchiveLayers, PushOtherLayers
<1>2. CASE PushFails \/ MakeFails \/ DropSettings
    BY <1>2, EndLayers
<1>3. CASE AllPushed \/ Made
    BY <1>3, ReadyLayers
<1>4. CASE Make
    BY <1>4, MakeLayers
<1>5. CASE Write \/ Status
    BY <1>5, UseLayers
<1>6. CASE Running
    BY <1>6, StutterLayers DEF Running, Meanwhile
<1>7. CASE Drop \/ IntoUpper
    BY <1>7, DropLayers
<1>8. CASE DropNext
    BY <1>8, DropNextLayers
<1>9. CASE Reuse \/ PushUpper
    BY <1>9, AgainLayers
<1>10. CASE UNCHANGED vars
    BY <1>10, StutterLayers DEF vars
<1>. QED BY <1>1, <1>2, <1>3, <1>4, <1>5, <1>6, <1>7, <1>8, <1>9, <1>10 DEF Next

\* What a mounted overlay shows.
LEMMA LayersAreStacked == LayersInv => LayersStackInPushOrder
<1>. SUFFICES ASSUME LayersInv, mount # << >>
              PROVE  Top(Contents(mount)) = Highest(pushed)
    BY DEF LayersStackInPushOrder
<1>1. /\ mount = Lowers /\ lowerDirs \in Seq(Dirs) /\ Shown(disk, lowerDirs) = Highest(pushed)
      /\ request.use # "mount" => Temp("stage") \in DOMAIN disk /\ Temp("stage") \in Dirs
    <2>1. Temp("stage") \in Dirs
        BY DEF Temp, Dirs, LayersInv, LayersTyped
    <2>. QED BY <2>1 DEF LayersInv, LayersTyped, MountInv, StackInv
<1>2. CASE request.use = "mount"
    BY <1>1, <1>2, ShownIsTop DEF Lowers
<1>3. CASE request.use # "mount"
    <2>1. mount = Append(lowerDirs, Temp("stage")) /\ mount \in Seq(Dirs)
        BY <1>1, <1>3 DEF Lowers
    <2>2. disk[Temp("stage")].node = Empty.node
        BY <1>1, <1>3 DEF LayersInv, StageInv, Temp
    <2>3. Empty.node.kind = "absent"
        BY DEF Empty
    <2>4. Shown(disk, mount) = Shown(disk, lowerDirs)
        BY <1>1, <1>3, <2>1, <2>2, <2>3, ShownOfAppend
    <2>. QED BY <1>1, <2>1, <2>4, ShownIsTop
<1>. QED BY <1>2, <1>3

\* A list of drops that starts with the unmount is orderly.
LEMMA DropsAreOrderly == LayersInv => TeardownIsOrderly
<1>. SUFFICES ASSUME LayersInv PROVE TeardownIsOrderly
    OBVIOUS
<1>1. ASSUME mount # << >>
      PROVE  ToSet(Stack) \union {Temp("root"), Temp("scratch")} \subseteq DOMAIN disk
    <2>1. /\ mount = Lowers /\ {Temp("root"), Temp("scratch"), Temp("upper")} \subseteq DOMAIN disk
          /\ request.use # "mount" => Temp("stage") \in DOMAIN disk
          /\ ToSet(lowerDirs) \subseteq DOMAIN disk /\ lowerDirs \in Seq(Dirs)
        BY <1>1 DEF LayersInv, LayersTyped, MountInv
    <2>2. Temp("stage") \in Dirs /\ Temp("upper") \in Dirs
        BY DEF Temp, Dirs, LayersInv, LayersTyped
    <2>3. mount \in Seq(Dirs) /\ ToSet(mount) \subseteq DOMAIN disk
        <3>1. CASE request.use = "mount"
            BY <2>1, <3>1 DEF Lowers
        <3>2. CASE request.use # "mount"
            BY <2>1, <2>2, <3>2, AppendTo DEF Lowers
        <3>. QED BY <3>1, <3>2
    <2>4. ToSet(Stack) = ToSet(mount) \union {Temp("upper")}
        BY <2>2, <2>3, AppendTo DEF Stack
    <2>. QED BY <2>1, <2>3, <2>4
<1>2. ASSUME pc = "end", drops = << >>
      PROVE  mount = << >> /\ DOMAIN disk = owned
    <2>1. mount = << >>
        BY <1>2, NotMounted
    <2>2. ToSet(<< >>) = {}
        BY DEF ToSet
    <2>. QED BY <1>2, <2>1, <2>2 DEF LayersInv, DirsInv, Held, Rest
<1>. QED BY <1>1, <1>2 DEF TeardownIsOrderly

\* Both invariants give the types.
LEMMA LayersAreTyped == LayersInv /\ RunTypeOK => TypeOK
<1>. SUFFICES ASSUME LayersInv, RunTypeOK PROVE TypeOK
    OBVIOUS
<1>1. \A i \in DOMAIN pushed : pushed[i] \in Node
    BY DEF LayersInv, LayersTyped
<1>2. ToSet(lowerDirs) \subseteq DOMAIN disk \/ pc = "end"
    BY DEF LayersInv, DirsInv, Held
<1>3. ToSet(archiveDirs) \subseteq ToSet(lowerDirs) /\ ToSet(trees) \subseteq ToSet(lowerDirs)
    BY DEF LayersInv, DirsInv, SettingsHold
<1>4. reusable \in ToSet(archiveDirs) \union {NoDir}
    BY DEF LayersInv, StackInv
<1>. QED BY <1>1, <1>2, <1>3, <1>4 DEF TypeOK, LayersInv, LayersTyped
----------------------------------------------------------------------------
(* Theorems                                                                *)

\* status() returns the status of the command, or a failure if the command
\* never ran, when no process of the container is left: whatever signals come,
\* wherever a process fails (processes.rs, container.rs, run_in_container,
\* dumb_init).
THEOREM StatusIsPassedOn == Spec => []StatusIsTheCommands
<1>1. Init => RunInv
    BY IdleRun DEF Init
<1>2. RunInv => StatusIsTheCommands
    BY RunIsSafe
<1>. QED BY <1>1, <1>2, ContainerStepRun, PTL DEF Spec

\* When status() returns after the shell ended, the terminal is ours again,
\* however the reader of .control and the end of the run race (control.rs).
THEOREM TerminalComesBack == Spec => []TerminalIsGivenBack
<1>1. Init => RunInv
    BY IdleRun DEF Init
<1>2. RunInv => TerminalIsGivenBack
    BY RunIsSafe
<1>. QED BY <1>1, <1>2, ContainerStepRun, PTL DEF Spec

\* A container shows its layers in the order they were pushed, although
\* archives share directories and the settings are used again with the upper
\* directory of a container as one more layer (container.rs:
\* request_archive_dir, push_layer).
THEOREM LayersStack == Spec => []LayersStackInPushOrder
BY InitLayers, StepLayers, LayersAreStacked, PTL DEF Spec

\* On every way out the overlay is unmounted before a directory it uses is
\* removed, and in the end only the caller's directories are left: the order
\* of the fields of the structs, and of the locals when a step fails.
THEOREM TeardownKeepsOrder == Spec => []TeardownIsOrderly
BY InitLayers, StepLayers, DropsAreOrderly, PTL DEF Spec

\* The types of both modules, and what the lists of ContainerSettings have in
\* common.
THEOREM ContainerTyping == Spec => []TypeOK
<1>1. Init => RunInv
    BY IdleRun DEF Init
<1>2. RunInv => RunTypeOK
    BY RunIsSafe
<1>. QED BY <1>1, <1>2, ContainerStepRun, InitLayers, StepLayers, LayersAreTyped, PTL DEF Spec
=============================================================================
