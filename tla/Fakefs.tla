-------------------------------- MODULE Fakefs --------------------------------
(***************************************************************************)
(* fakefs: a command runs as if it could change the owners of files.  What *)
(* it asks for is kept in an extended attribute, the override.  One tracer *)
(* (tracer.go) follows all threads of the command with ptrace.  A seccomp  *)
(* filter stops a thread that enters one of a dozen system calls; the      *)
(* tracer lets it pass, or blocks it and puts an answer of its own where   *)
(* the call returns.  Dynamic programs have a library preloaded, which     *)
(* keeps calls on files without an override away from the tracer.          *)
(*                                                                         *)
(* The kernel is external: threads run, stop, die and take the tid of      *)
(* their leader when they call execve, at any time, also while the tracer  *)
(* works on their last stop.                                               *)
(***************************************************************************)
EXTENDS Naturals, FiniteSets

CONSTANTS
    Files, Kind,        \* files, each "plain", "unreadable", "link" or "missing"
    Tids, Process,      \* threads, and the process of each: the tid of its leader
    Root,               \* the process of the command
    LinkTarget,         \* where links point to
    Keep,               \* -1, for an id that is not to change
    Original,           \* the owner, its uid and gid, that all files really have
    Asks,               \* system calls each thread may make
    MaxEnters,          \* how many of them it makes
    Signalled           \* threads that a signal reaches, once

Nobody == <<"nobody">>  \* neither a file, an owner nor an answer

ASSUME FakefsAssumption ==
    /\ Process \in [Tids -> Tids]
    /\ \A t \in Tids : Process[Process[t]] = Process[t]
    /\ Root \in Tids /\ Process[Root] = Root
    /\ Kind \in [Files -> {"plain", "unreadable", "link", "missing"}]
    /\ Nobody \notin Files /\ LinkTarget \in Files
    /\ \A t \in Tids : \A call \in Asks[t] :
           /\ \/ call.op \in {"stat", "list", "chown"} /\ call.file \in Files
              \/ call.op = "probe" /\ call.file = Nobody
           /\ DOMAIN call.owner = {"uid", "gid"}

Leaders == {Process[t] : t \in Tids}
Siblings(t) == {s \in Tids \ {t} : Process[s] = Process[t]}

VARIABLES
    override,   \* the override of a file, or Nobody
    thread,     \* the threads, as the kernel has them
    seen,       \* overrides of the file of its call a thread could have seen
    hooks,      \* threadStateIndex: what is put where the call of a thread returns
    tracer      \* what the tracer is at

vars == <<override, thread, seen, hooks, tracer>>

Call(op, file, how, owner) == [op |-> op, file |-> file, how |-> how, owner |-> owner]
NoCall == Call("none", Nobody, "none", Nobody)
Execve == Call("execve", Nobody, "none", Nobody)

(* at: "user", "checked" or "cleared" (in the library), "call" (in the     *)
(* kernel), "stopped", "listening", "dead" (not waited for), "none"        *)
Unborn == [at |-> "none", stop |-> "none", reported |-> FALSE, call |-> NoCall,
           blocked |-> FALSE, traced |-> FALSE, rax |-> Nobody, enters |-> 0, signalled |-> FALSE]
Gone(at) == [Unborn EXCEPT !.at = at, !.enters = MaxEnters]
Alive(t) == thread[t].at \notin {"none", "dead"}
Stopped(t) == thread[t].at = "stopped"

Idle == [at |-> "wait", tid |-> Root, stop |-> "none", action |-> "none", read |-> Nobody]
\* What system calls return
Error(name) == <<"error", name>>
Owner(owner) == <<"owner", owner>>
Names(names) == <<"names", names>>
Ok == <<"ok">>
NoSys == Error("ENOSYS")

Init ==
    /\ override = [f \in Files |-> Nobody]
    /\ thread = [t \in Tids |-> IF t = Root THEN [Unborn EXCEPT !.at = "listening"] ELSE Unborn]
    /\ seen = [t \in Tids |-> {}]
    /\ hooks = << >>
    /\ tracer = [Idle EXCEPT !.at = "start"]
----------------------------------------------------------------------------
(* The kernel                                                              *)

Stop(t, stop) == [thread[t] EXCEPT !.at = "stopped", !.stop = stop, !.reported = FALSE]

\* A call on a file that changes its owner while it runs may see either
Watchers(f) == {t \in Tids : thread[t].call.file = f /\ thread[t].at # "user"}
SetOverride(f, data) ==
    /\ override' = [override EXCEPT ![f] = data]
    /\ seen' = [t \in Tids |-> IF t \in Watchers(f) THEN seen[t] \union {data} ELSE seen[t]]

OwnerWith(data) == IF data = Nobody THEN Original ELSE data
SomeNames == {"user.other"}
OverrideName == "user.fakefs.override"
NamesWith(data) == SomeNames \union IF data = Nobody THEN {} ELSE {OverrideName}

\* What a call returns that the tracer lets pass
KernelResult(call) ==
    IF call.op \in {"execve", "none"} THEN Ok
    ELSE IF call.op = "probe" THEN NoSys
    ELSE IF Kind[call.file] = "missing" THEN Error("ENOENT")
    ELSE CASE call.op = "stat" -> Owner(Original)
           [] call.op = "list" -> Names(NamesWith(override[call.file]))
           [] OTHER -> Error("EPERM")

\* clone, fork or vfork: the stops of the two are reported in any order
Clone(t, child) ==
    /\ thread[t].at = "user"
    /\ thread[child].at = "none" /\ thread[child].enters = 0
    /\ Process[child] \in {child, Process[t]}
    /\ thread' = [thread EXCEPT ![t] = Stop(t, "clone"),
                                ![child] = [Stop(child, "start") EXCEPT !.enters = 1]]
    /\ UNCHANGED <<override, seen, hooks, tracer>>

\* Unless the library gives the backdoor key, the filter stops the thread
Begin(t, call, at) ==
    [thread[t] EXCEPT !.at = at, !.call = call, !.enters = @ + 1, !.rax = Nobody]
Enter(t, call) ==
    /\ thread[t].at = "user"
    /\ thread[t].enters < MaxEnters
    /\ thread' = [thread EXCEPT ![t] = [Begin(t, call, "stopped") EXCEPT
                                            !.stop = "seccomp", !.reported = FALSE]]
    /\ seen' = [seen EXCEPT ![t] = IF call.file = Nobody THEN {} ELSE {override[call.file]}]
    /\ UNCHANGED <<override, hooks, tracer>>

\* A call ends, or is skipped: blockSyscall has made it one that does not exist
Return(t) ==
    /\ thread[t].at = "call"
    /\ LET rax == IF thread[t].blocked THEN NoSys ELSE KernelResult(thread[t].call)
       IN  thread' = [thread EXCEPT ![t] =
               IF thread[t].traced THEN [Stop(t, "exit") EXCEPT !.rax = rax, !.traced = FALSE]
               ELSE [@ EXCEPT !.at = "user", !.rax = rax, !.blocked = FALSE]]
    /\ UNCHANGED <<override, seen, hooks, tracer>>

(* The other threads are gone and the caller has the tid of its leader,    *)
(* whatever the tracer knew of that; the death of neither is reported      *)
Exec(t) ==
    /\ thread[t].at = "user"
    /\ thread[t].enters < MaxEnters
    /\ \A s \in Siblings(t) \ {Process[t]} : thread[s].at = "none"
    /\ thread' = [[thread EXCEPT ![t] = Gone("none")] EXCEPT ![Process[t]] =
                      [Begin(t, Execve, "stopped") EXCEPT !.stop = "exec", !.reported = FALSE]]
    /\ UNCHANGED <<override, seen, hooks, tracer>>

Signal(t, stop) ==
    /\ thread[t].at = "user"
    /\ t \in Signalled /\ ~thread[t].signalled
    /\ thread' = [thread EXCEPT ![t] = [Stop(t, stop) EXCEPT !.signalled = TRUE]]
    /\ UNCHANGED <<override, seen, hooks, tracer>>

\* SIGCONT after a group-stop
Continue(t) ==
    /\ thread[t].at = "listening" /\ tracer.at # "start"
    /\ thread' = [thread EXCEPT ![t] = Stop(t, "start")]
    /\ UNCHANGED <<override, seen, hooks, tracer>>

\* A thread ends by itself
ExitThread(t) ==
    /\ thread[t].at = "user"
    /\ thread' = [thread EXCEPT ![t] = Gone("dead")]
    /\ UNCHANGED <<override, seen, hooks, tracer>>

\* A process ends, of itself or by SIGKILL
Die(p) ==
    /\ \E t \in Tids : Process[t] = p /\ Alive(t)
    /\ thread' = [t \in Tids |->
                     IF Process[t] = p /\ Alive(t)
                     THEN Gone("dead") ELSE thread[t]]
    /\ UNCHANGED <<override, seen, hooks, tracer>>
----------------------------------------------------------------------------
(* The preloaded library: calls on its fast path have the backdoor key     *)

Checked(t, call) ==
    /\ thread[t].at = "user"
    /\ thread[t].enters < MaxEnters
    /\ thread' = [thread EXCEPT ![t] = Begin(t, call, "checked")]
    /\ seen' = [seen EXCEPT ![t] = {override[call.file]}]
    /\ UNCHANGED <<override, hooks, tracer>>

\* has_no_override: it could look, and there is none
NoOverride(file) == Kind[file] # "unreadable" /\ override[file] = Nobody

\* wrap_fstatat, wrap_statx
FastStat(t, call) ==
    /\ call.op = "stat"
    /\ NoOverride(call.file)
    /\ Checked(t, call)

\* matches_original_ownership
MatchesOriginal(call) == Kind[call.file] # "missing" /\ call.owner = Original

\* wrap_fchownat, where the override can be cleared
FastChown(t, call) ==
    /\ call.op = "chown"
    /\ MatchesOriginal(call)
    /\ Kind[call.file] \in {"plain", "link"} /\ call.how = "path"
    /\ Checked(t, call)

\* backdoor_fstatat, backdoor_statx
Backdoor(t) ==
    /\ thread[t].at = "checked" /\ thread[t].call.op = "stat"
    /\ thread' = [thread EXCEPT ![t] = [@ EXCEPT !.at = "user", !.rax = KernelResult(thread[t].call)]]
    /\ UNCHANGED <<override, seen, hooks, tracer>>

(* clear_override; then the chown changes nothing.  lremovexattr is bound  *)
(* to removexattr of libc, so of a symbolic link given by its path it      *)
(* clears the override of the target                                       *)
Cleared(call) == IF Kind[call.file] = "link" THEN LinkTarget ELSE call.file
ClearOverride(t) ==
    /\ thread[t].at = "checked" /\ thread[t].call.op = "chown"
    /\ thread' = [thread EXCEPT ![t] = [@ EXCEPT !.at = "user", !.rax = Ok]]
    /\ SetOverride(Cleared(thread[t].call), Nobody)
    /\ UNCHANGED <<hooks, tracer>>
----------------------------------------------------------------------------
(* The tracer                                                              *)

End(how) == tracer' = [tracer EXCEPT !.at = "end", !.stop = how]
Fails == End("failed") /\ UNCHANGED <<override, thread, seen, hooks>>

\* startTracee
StartTracee ==
    /\ tracer.at = "start"
    /\ thread[Root].at = "listening"
    /\ \E stop \in {"start", "group"} : thread' = [thread EXCEPT ![Root] = Stop(Root, stop)]
    /\ tracer' = Idle
    /\ UNCHANGED <<override, seen, hooks>>
StartFails == tracer.at = "start" /\ thread[Root].at = "dead" /\ Fails

\* threadStateIndex.Put, of a thread that is new
Put(t) == [s \in DOMAIN hooks \union {t} |-> IF s \in DOMAIN hooks THEN hooks[s] ELSE Nobody]

\* Mutant: threads not known yet are left to their parent's stop
WaitForKnown(t) ==
    /\ tracer.at = "wait"
    /\ Stopped(t) /\ ~thread[t].reported
    /\ thread' = [thread EXCEPT ![t].reported = TRUE]
    /\ hooks' = Put(t)
    /\ tracer' = IF t \in DOMAIN hooks \union {Root}
                 THEN [Idle EXCEPT !.at = "stop", !.tid = t, !.stop = thread[t].stop] ELSE tracer
    /\ UNCHANGED <<override, seen>>

\* waitNextStop: of a thread that has stopped, maybe a new one
Wait(t) ==
    /\ tracer.at = "wait"
    /\ Stopped(t) /\ ~thread[t].reported
    /\ thread' = [thread EXCEPT ![t].reported = TRUE]
    /\ hooks' = Put(t)
    /\ tracer' = [Idle EXCEPT !.at = "stop", !.tid = t, !.stop = thread[t].stop]
    /\ UNCHANGED <<override, seen>>

\* A thread has died: one without a stop before cannot be looked up.  The
\* death of a leader is reported after that of all others of its process
Forget(tids) == hooks' = [t \in DOMAIN hooks \ tids |-> hooks[t]]

\* Mutant: the tracer ends with the first thread of the command
LastOfRootAny(t) == t \in DOMAIN hooks /\ Process[t] = Root

LastOfRoot(t) ==
    /\ t \in DOMAIN hooks /\ Process[t] = Root
    /\ \A s \in Siblings(t) : s \notin DOMAIN hooks
WaitDead(t) ==
    /\ tracer.at = "wait"
    /\ thread[t].at = "dead"
    /\ t = Process[t] => \A s \in Siblings(t) : thread[s].at = "none"
    /\ thread' = [thread EXCEPT ![t] = Gone("none")]
    /\ Forget({t})
    /\ IF LastOfRoot(t) THEN End("exit code") ELSE UNCHANGED tracer
    /\ UNCHANGED <<override, seen>>

\* wait4 has nothing to wait for
WaitFails == tracer.at = "wait" /\ (\A t \in Tids : thread[t].at = "none") /\ Fails
----------------------------------------------------------------------------
(* processStop.  Registers of a thread that is no longer stopped cannot be *)
(* read or written; if it has become another they are those of the other   *)

Stops(kind) == tracer.at = "stop" /\ tracer.stop = kind
Resume(action) == tracer' = [tracer EXCEPT !.at = "resume", !.action = action]

\* Mutant: one hook for all threads of a process
HookOfProcess(answer) == hooks' = [t \in DOMAIN hooks |->
    IF Process[t] = Process[tracer.tid] THEN answer ELSE hooks[t]]

Hook(answer) == hooks' = [hooks EXCEPT ![tracer.tid] = answer]

HasOverride(file) == override[file] # Nobody
Opens(file) == Kind[file] # "missing"

(* fsop.Fstat, Fstatx: to read the override, files and directories have to *)
(* be opened for reading                                                   *)
OverriddenStat(file) ==
    IF Kind[file] = "unreadable" THEN Error("EACCES")
    ELSE IF HasOverride(file) THEN Owner(override[file]) ELSE Nobody

\* simulateFstatat, simulateStatx: their answer, or Nobody to let it pass
StatAnswer(call) ==
    IF (call.how = "path" /\ ~HasOverride(call.file)) \/ ~Opens(call.file) THEN Nobody
    ELSE OverriddenStat(call.file)

\* doListxattr, with room for all names
Filtered(file) == Names(NamesWith(override[file]) \ {OverrideName})

\* simulateListxattr, simulateFlistxattr
ListAnswer(call) ==
    IF call.how = "fd" /\ Kind[call.file] \in {"unreadable", "missing"} THEN Error("EBADF")
    ELSE IF HasOverride(call.file) THEN Filtered(call.file)
    ELSE Nobody

\* OnSyscall, but for the calls that change the owner
Answer(call) ==
    CASE call.op = "stat" -> StatAnswer(call)
      [] call.op = "list" -> ListAnswer(call)
      [] call.op = "probe" -> Ok
      [] OTHER -> Nobody

\* blockSyscallAndReturn
Block(answer) ==
    /\ Hook(answer)
    /\ thread' = IF Stopped(tracer.tid) THEN [thread EXCEPT ![tracer.tid].blocked = TRUE] ELSE thread
    /\ Resume("syscall")

Pass == Hook(Nobody) /\ Resume("cont") /\ UNCHANGED thread

Asked == thread[tracer.tid].call
SyscallEntry ==
    /\ Stops("seccomp") /\ Stopped(tracer.tid) /\ Asked.op # "chown"
    /\ IF Answer(Asked) = Nobody THEN Pass ELSE Block(Answer(Asked))
    /\ UNCHANGED <<override, seen>>

\* fsop.Fchown, up to where it has read the owner
FchownReads ==
    /\ Stops("seccomp") /\ Stopped(tracer.tid) /\ Asked.op = "chown" /\ Kind[Asked.file] = "plain"
    /\ tracer' = [tracer EXCEPT !.at = "fchown", !.read = [call |-> Asked,
                                     owner |-> OwnerWith(override[Asked.file])]]
    /\ UNCHANGED <<override, thread, seen, hooks>>

With(owner, read) == [id \in DOMAIN owner |-> IF owner[id] = Keep THEN read[id] ELSE owner[id]]
FchownRefuses ==
    /\ Stops("seccomp") /\ Stopped(tracer.tid) /\ Asked.op = "chown" /\ Kind[Asked.file] # "plain"
    /\ Block(CASE ~Opens(Asked.file) -> Error("ENOENT")
               [] Kind[Asked.file] = "unreadable" -> OverriddenStat(Asked.file)
               [] OTHER -> IF With(Asked.owner, Original) = Original THEN Ok
                           ELSE Error("ENOTRECOVERABLE"))
    /\ UNCHANGED <<override, seen>>

\* The rest of it: an owner like the one it read clears the override

\* Mutant: the group does not count
SameUser(new, read) == new.uid = read.uid

SameOwner(new, read) == new = read
FchownWrites ==
    /\ tracer.at = "fchown"
    /\ LET new == With(tracer.read.call.owner, tracer.read.owner)
       IN  SetOverride(tracer.read.call.file, IF SameOwner(new, tracer.read.owner) THEN Nobody ELSE new)
    /\ Block(Ok)

AnswerIt ==
    /\ thread' = [thread EXCEPT ![tracer.tid].rax = hooks[tracer.tid]]
    /\ Hook(Nobody)
    /\ Resume("cont")
    /\ UNCHANGED <<override, seen>>
SyscallExit ==
    /\ Stops("exit") /\ (Stopped(tracer.tid) \/ hooks[tracer.tid] = Nobody)
    /\ IF hooks[tracer.tid] = Nobody THEN Fails ELSE AnswerIt

NoRegisters ==
    /\ tracer.at = "stop" /\ tracer.stop \in {"seccomp", "exit"} /\ ~Stopped(tracer.tid)
    /\ tracer.stop = "exit" => hooks[tracer.tid] # Nobody
    /\ Resume("cont")
    /\ UNCHANGED <<override, thread, seen, hooks>>

\* execve leaves the leader only
ForgetSiblings ==
    /\ Forget(Siblings(tracer.tid))
    /\ Resume("cont")
    /\ UNCHANGED <<override, thread, seen>>
ExecStop ==
    /\ Stops("exec")
    /\ IF tracer.tid = Process[tracer.tid] THEN ForgetSiblings ELSE Fails

OtherStop ==
    /\ tracer.at = "stop" /\ tracer.stop \in {"clone", "start", "group", "signal"}
    /\ Resume(IF tracer.stop = "group" THEN "listen" ELSE "cont")
    /\ UNCHANGED <<override, thread, seen, hooks>>

\* The end of the loop of Run: of a thread that is not stopped, nothing
Resumed(t, action) ==
    IF action = "listen" THEN [thread[t] EXCEPT !.at = "listening"]
    ELSE [thread[t] EXCEPT !.at = IF thread[t].stop \in {"seccomp", "exec"} THEN "call" ELSE "user",
                           !.traced = action = "syscall",
                           !.blocked = @ /\ thread[t].stop = "seccomp"]
Go ==
    /\ tracer.at = "resume"
    /\ thread' = IF /\ Stopped(tracer.tid)
                    /\ tracer.action = "listen" => thread[tracer.tid].stop \in {"group", "start"}
                 THEN [thread EXCEPT ![tracer.tid] = Resumed(tracer.tid, tracer.action)] ELSE thread
    /\ tracer' = Idle
    /\ UNCHANGED <<override, seen, hooks>>
----------------------------------------------------------------------------
Tracer ==
    \/ StartTracee \/ StartFails \/ WaitFails
    \/ \E t \in Tids : Wait(t) \/ WaitDead(t)
    \/ SyscallEntry \/ FchownReads \/ FchownRefuses \/ FchownWrites
    \/ SyscallExit \/ NoRegisters
    \/ ExecStop \/ OtherStop \/ Go

Library(t) ==
    \/ \E call \in Asks[t] : FastStat(t, call) \/ FastChown(t, call)
    \/ Backdoor(t) \/ ClearOverride(t)

Tracee(t) ==
    \/ Library(t)
    \/ \E child \in Tids : Clone(t, child)
    \/ \E call \in Asks[t] : Enter(t, call)
    \/ Exec(t) \/ ExitThread(t)
    \/ \E stop \in {"signal", "group"} : Signal(t, stop)
    \/ Continue(t)
    \/ Return(t)

\* When the tracer ends the kernel kills what is left of the tracees
Ended == tracer.at = "end" /\ UNCHANGED vars
Next ==
    \/ Tracer
    \/ tracer.at # "end" /\ \E t \in Tids : Tracee(t)
    \/ tracer.at # "end" /\ \E p \in Leaders : Die(p)
    \/ Ended

(* The tracer is scheduled, and so are threads in the kernel; programs may *)
(* do nothing                                                              *)
Spec == Init /\ [][Next]_vars /\ WF_vars(Tracer) /\ \A t \in Tids : WF_vars(Return(t))
----------------------------------------------------------------------------
Stopping == {"clone", "start", "group", "signal", "seccomp", "exit", "exec"}

TypeOK ==
    /\ DOMAIN override = Files
    /\ \A t \in Tids :
           /\ thread[t].at \in {"none", "user", "checked", "call", "stopped", "listening", "dead"}
           /\ Stopped(t) => thread[t].stop \in Stopping
           /\ thread[t].at = "call" => thread[t].call.op # "none"
           /\ thread[t].blocked => thread[t].at \in {"stopped", "call"}
    /\ DOMAIN hooks \subseteq Tids
    /\ tracer.at \in {"start", "wait", "stop", "fchown", "resume", "end"}

(* A program never sees the trick: what its call returns is what the call  *)
(* could have found of its own file while it ran, whichever of the library,*)
(* the kernel and the tracer answered, and whatever other threads, signals *)
(* and execve did to the thread or to the record the tracer keeps of it    *)
Truthful(call, rax, overrides) ==
    CASE call.op = "probe" -> rax = Ok
      [] call.op = "stat" -> rax \in {Error("ENOENT"), Error("EACCES")}
                                      \union {Owner(OwnerWith(d)) : d \in overrides}
      [] call.op = "list" -> rax \in {Error("EBADF"), Error("ENOENT"), Names(SomeNames)}
                                      \union {Names(NamesWith(d)) : d \in IF Nobody \in overrides
                                                                          THEN overrides ELSE {}}
      [] call.op = "chown" -> rax \in {Ok} \union {Error(e) : e \in
                                                      {"ENOENT", "EACCES", "ENOTRECOVERABLE"}}
      [] OTHER -> TRUE
AnswersAreTruthful ==
    \A t \in Tids : thread[t].at = "user" /\ thread[t].rax # Nobody =>
        Truthful(thread[t].call, thread[t].rax, seen[t])

(* A change of owner by the tracer that succeeds gives the file the owner  *)
(* it asks for and leaves other files alone, though the library may clear  *)
(* overrides meanwhile -- but a change to the owner the file was found to  *)
(* have takes it back to its original owner (fsop.go:225-228)              *)
Gives(owner, asked) == \A id \in DOMAIN asked : asked[id] \in {Keep, owner[id]}
ChownTakesEffect ==
    [][tracer.at = "fchown" /\ tracer'.at # "fchown" =>
           \A f \in Files :
               IF f # tracer.read.call.file THEN override'[f] = override[f]
               ELSE \/ Gives(OwnerWith(override'[f]), tracer.read.call.owner)
                    \/ Gives(tracer.read.owner, tracer.read.call.owner) /\ override'[f] = Nobody]_vars

(* fakefs ends only when the command has: with its exit code, or because   *)
(* there is nothing left to trace                                          *)
EndsAfterRoot == tracer.at = "end" => \A t \in Tids : Process[t] = Root => ~Alive(t)

(* No thread is left in a stop, in whatever order stops are reported: it   *)
(* goes on, dies, or fakefs has ended                                      *)
StopsEnd == \A t \in Tids : []<>(~Stopped(t) \/ tracer.at = "end")
===============================================================================
