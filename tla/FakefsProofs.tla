----------------------------- MODULE FakefsProofs -----------------------------
(***************************************************************************)
(* Theorems about fakefs, for any threads, processes and files, any calls  *)
(* in any order, and any signals, deaths and uses of execve.               *)
(*                                                                         *)
(* First what the steps of Fakefs make of the record of a thread, of the   *)
(* tracer, of its hooks and of the overrides; then the invariant, that a   *)
(* thread at each of its stops fits what the tracer keeps of it; then one  *)
(* lemma for each step.                                                    *)
(***************************************************************************)
EXTENDS Fakefs, TLAPS

Fields == {"at", "stop", "reported", "call", "blocked", "traced", "rax", "enters", "signalled"}

ShapeInv ==
    /\ override = [f \in Files |-> override[f]]
    /\ thread = [t \in Tids |-> thread[t]]
    /\ \A t \in Tids : DOMAIN thread[t] = Fields
    /\ seen = [t \in Tids |-> seen[t]]
    /\ hooks = [t \in DOMAIN hooks |-> hooks[t]]
    /\ DOMAIN hooks \subseteq Tids
    /\ DOMAIN tracer = {"at", "tid", "stop", "action", "read"}
    /\ tracer.tid \in Tids
-----------------------------------------------------------------------------
(* What the steps make of a thread                                         *)

\* The record of one thread changes
OnlyThread(t) ==
    /\ thread' = [s \in Tids |-> thread'[s]]
    /\ \A s \in Tids \ {t} : thread'[s] = thread[s]

LEMMA OneChange ==
    ASSUME ShapeInv, NEW t \in Tids, NEW record, thread' = [thread EXCEPT ![t] = record]
    PROVE  OnlyThread(t) /\ thread'[t] = record
BY DEF OnlyThread, ShapeInv

LEMMA StopShape ==
    ASSUME NEW t \in Tids, NEW stop, DOMAIN thread[t] = Fields
    PROVE  /\ DOMAIN Stop(t, stop) = Fields
           /\ Stop(t, stop).at = "stopped"
           /\ Stop(t, stop).stop = stop
           /\ Stop(t, stop).call = thread[t].call
           /\ Stop(t, stop).rax = thread[t].rax
           /\ Stop(t, stop).blocked = thread[t].blocked
           /\ Stop(t, stop).traced = thread[t].traced
BY DEF Stop, Fields

LEMMA BeginShape ==
    ASSUME NEW t \in Tids, NEW call, NEW at, DOMAIN thread[t] = Fields
    PROVE  /\ DOMAIN Begin(t, call, at) = Fields
           /\ Begin(t, call, at).at = at
           /\ Begin(t, call, at).stop = thread[t].stop
           /\ Begin(t, call, at).call = call
           /\ Begin(t, call, at).rax = Nobody
           /\ Begin(t, call, at).blocked = thread[t].blocked
BY DEF Begin, Fields

LEMMA GoneShape ==
    ASSUME NEW at
    PROVE  /\ DOMAIN Gone(at) = Fields
           /\ Gone(at).at = at /\ Gone(at).rax = Nobody /\ Gone(at).blocked = FALSE
BY DEF Gone, Unborn, Fields

LEMMA StoppedAt ==
    ASSUME NEW r, DOMAIN r = Fields, NEW stop
    PROVE  LET q == [r EXCEPT !.stop = stop, !.reported = FALSE]
           IN  /\ DOMAIN q = Fields
               /\ q.at = r.at /\ q.stop = stop /\ q.call = r.call /\ q.rax = r.rax
               /\ q.blocked = r.blocked
BY DEF Fields

LEMMA LeftAlone ==
    ASSUME NEW r, DOMAIN r = Fields, NEW f \in {"enters", "signalled", "reported"}, NEW v
    PROVE  LET q == [r EXCEPT ![f] = v]
           IN  /\ DOMAIN q = Fields
               /\ q.at = r.at /\ q.stop = r.stop /\ q.call = r.call /\ q.rax = r.rax
               /\ q.blocked = r.blocked /\ q.traced = r.traced
BY DEF Fields

LEMMA Returned ==
    ASSUME NEW r, DOMAIN r = Fields, NEW rax
    PROVE  /\ LET q == [r EXCEPT !.rax = rax, !.traced = FALSE]
              IN  /\ DOMAIN q = Fields
                  /\ q.at = r.at /\ q.stop = r.stop /\ q.call = r.call /\ q.rax = rax
           /\ LET q == [r EXCEPT !.at = "user", !.rax = rax, !.blocked = FALSE]
              IN  /\ DOMAIN q = Fields
                  /\ q.at = "user" /\ q.call = r.call /\ q.rax = rax /\ q.blocked = FALSE
           /\ LET q == [r EXCEPT !.at = "user", !.rax = rax]
              IN  /\ DOMAIN q = Fields
                  /\ q.at = "user" /\ q.call = r.call /\ q.rax = rax /\ q.blocked = r.blocked
BY DEF Fields

LEMMA ResumedShape ==
    ASSUME NEW t \in Tids, NEW action, DOMAIN thread[t] = Fields
    PROVE  LET q == Resumed(t, action)
           IN  /\ DOMAIN q = Fields
               /\ q.stop = thread[t].stop /\ q.call = thread[t].call /\ q.rax = thread[t].rax
BY DEF Resumed, Fields

LEMMA ResumedToListen ==
    ASSUME NEW t \in Tids, DOMAIN thread[t] = Fields
    PROVE  LET q == Resumed(t, "listen")
           IN  q.at = "listening" /\ q.blocked = thread[t].blocked
BY DEF Resumed, Fields

LEMMA ResumedToGo ==
    ASSUME NEW t \in Tids, NEW action, action # "listen", DOMAIN thread[t] = Fields
    PROVE  LET q == Resumed(t, action)
           IN  /\ q.at = IF thread[t].stop \in {"seccomp", "exec"} THEN "call" ELSE "user"
               /\ q.traced = (action = "syscall")
               /\ q.blocked = (thread[t].blocked /\ thread[t].stop = "seccomp")
BY DEF Resumed, Fields

LEMMA EnterDoes ==
    ASSUME ShapeInv, NEW t \in Tids, NEW call, Enter(t, call)
    PROVE  /\ OnlyThread(t) /\ DOMAIN thread'[t] = Fields
           /\ thread'[t].at = "stopped" /\ thread'[t].stop = "seccomp"
           /\ thread'[t].call = call /\ thread'[t].rax = Nobody
           /\ thread'[t].blocked = thread[t].blocked
<1> DEFINE b == Begin(t, call, "stopped")
           r == [b EXCEPT !.stop = "seccomp", !.reported = FALSE]
<1>1. /\ DOMAIN b = Fields
      /\ b.at = "stopped" /\ b.call = call /\ b.rax = Nobody /\ b.blocked = thread[t].blocked
    BY BeginShape DEF ShapeInv
<1>2. thread' = [thread EXCEPT ![t] = r]
    BY DEF Enter
<1> HIDE DEF b
<1>3. /\ DOMAIN r = Fields
      /\ r.at = b.at /\ r.stop = "seccomp" /\ r.call = b.call /\ r.rax = b.rax
      /\ r.blocked = b.blocked
    BY <1>1, StoppedAt
<1> HIDE DEF r
<1>4. OnlyThread(t) /\ thread'[t] = r
    BY <1>2, OneChange
<1> QED
    BY <1>1, <1>3, <1>4

LEMMA CheckedDoes ==
    ASSUME ShapeInv, NEW t \in Tids, NEW call, Checked(t, call)
    PROVE  /\ OnlyThread(t) /\ DOMAIN thread'[t] = Fields
           /\ thread'[t].at = "checked"
           /\ thread'[t].call = call
           /\ thread'[t].blocked = thread[t].blocked
<1> DEFINE b == Begin(t, call, "checked")
<1>1. /\ DOMAIN b = Fields
      /\ b.at = "checked" /\ b.call = call /\ b.blocked = thread[t].blocked
    BY BeginShape DEF ShapeInv
<1>2. thread' = [thread EXCEPT ![t] = b]
    BY DEF Checked
<1> HIDE DEF b
<1>3. OnlyThread(t) /\ thread'[t] = b
    BY <1>2, OneChange
<1> QED
    BY <1>1, <1>3

LEMMA ReturnDoes ==
    ASSUME ShapeInv, NEW t \in Tids, Return(t)
    PROVE  /\ OnlyThread(t) /\ DOMAIN thread'[t] = Fields
           /\ thread'[t].call = thread[t].call
           /\ thread[t].traced = TRUE => thread'[t].at = "stopped" /\ thread'[t].stop = "exit"
           /\ thread[t].traced = FALSE =>
                  /\ thread'[t].at = "user" /\ thread'[t].blocked = FALSE
                  /\ thread[t].blocked = FALSE => thread'[t].rax = KernelResult(thread[t].call)
<1> DEFINE rax == IF thread[t].blocked THEN NoSys ELSE KernelResult(thread[t].call)
           s == Stop(t, "exit")
           x == [s EXCEPT !.rax = rax, !.traced = FALSE]
           u == [thread[t] EXCEPT !.at = "user", !.rax = rax, !.blocked = FALSE]
<1>1. thread' = [thread EXCEPT ![t] = IF thread[t].traced THEN x ELSE u]
    BY DEF Return
<1>2. /\ DOMAIN s = Fields /\ s.at = "stopped" /\ s.stop = "exit" /\ s.call = thread[t].call
      /\ DOMAIN thread[t] = Fields
    BY StopShape DEF ShapeInv
<1>3. thread[t].blocked = FALSE => rax = KernelResult(thread[t].call)
    OBVIOUS
<1> HIDE DEF rax, s
<1>4. /\ DOMAIN x = Fields
      /\ x.at = s.at /\ x.stop = s.stop /\ x.call = s.call
    BY <1>2, Returned
<1>5. /\ DOMAIN u = Fields
      /\ u.at = "user" /\ u.call = thread[t].call /\ u.rax = rax /\ u.blocked = FALSE
    BY <1>2, Returned
<1> HIDE DEF x, u
<1>6. OnlyThread(t) /\ thread'[t] = IF thread[t].traced THEN x ELSE u
    BY <1>1, OneChange
<1> QED
    BY <1>2, <1>3, <1>4, <1>5, <1>6

LEMMA LibraryDoes ==
    ASSUME ShapeInv, NEW t \in Tids, Backdoor(t) \/ ClearOverride(t)
    PROVE  /\ OnlyThread(t) /\ DOMAIN thread'[t] = Fields
           /\ thread'[t].at = "user"
           /\ thread'[t].call = thread[t].call
           /\ thread'[t].blocked = thread[t].blocked
           /\ Backdoor(t) => thread'[t].rax = KernelResult(thread[t].call)
           /\ ClearOverride(t) => thread'[t].rax = Ok
<1> DEFINE q(rax) == [thread[t] EXCEPT !.at = "user", !.rax = rax]
<1>1. ASSUME NEW rax, thread' = [thread EXCEPT ![t] = q(rax)]
      PROVE  /\ OnlyThread(t) /\ DOMAIN thread'[t] = Fields
             /\ thread'[t].at = "user"
             /\ thread'[t].call = thread[t].call
             /\ thread'[t].blocked = thread[t].blocked
             /\ thread'[t].rax = rax
    <2> DEFINE r == q(rax)
    <2>1. DOMAIN thread[t] = Fields
        BY DEF ShapeInv
    <2>2. /\ DOMAIN r = Fields
          /\ r.at = "user" /\ r.call = thread[t].call /\ r.rax = rax /\ r.blocked = thread[t].blocked
        BY <2>1, Returned
    <2>3. thread' = [thread EXCEPT ![t] = r]
        BY <1>1
    <2> HIDE DEF r
    <2>4. OnlyThread(t) /\ thread'[t] = r
        BY <2>3, OneChange
    <2> QED
        BY <2>2, <2>4
<1>2. Backdoor(t) => thread' = [thread EXCEPT ![t] = q(KernelResult(thread[t].call))]
    BY DEF Backdoor
<1>3. ClearOverride(t) => thread' = [thread EXCEPT ![t] = q(Ok)]
    BY DEF ClearOverride
<1> HIDE DEF q
<1> QED
    BY <1>1, <1>2, <1>3

LEMMA SignalDoes ==
    ASSUME ShapeInv, NEW t \in Tids,
           \/ Continue(t)
           \/ \E stop \in {"signal", "group"} : Signal(t, stop)
    PROVE  /\ OnlyThread(t) /\ DOMAIN thread'[t] = Fields
           /\ thread[t].at \in {"user", "listening"}
           /\ thread'[t].at = "stopped" /\ thread'[t].stop \in {"start", "signal", "group"}
           /\ thread'[t].call = thread[t].call /\ thread'[t].rax = thread[t].rax
           /\ thread'[t].blocked = thread[t].blocked
<1>0. DOMAIN thread[t] = Fields
    BY DEF ShapeInv
<1>1. CASE Continue(t)
    <2>1. thread' = [thread EXCEPT ![t] = Stop(t, "start")] /\ thread[t].at = "listening"
        BY <1>1 DEF Continue
    <2>2. OnlyThread(t) /\ thread'[t] = Stop(t, "start")
        BY <2>1, OneChange
    <2> QED
        BY <1>0, <2>1, <2>2, StopShape
<1>2. ASSUME NEW stop \in {"signal", "group"}, Signal(t, stop)
      PROVE  /\ OnlyThread(t) /\ DOMAIN thread'[t] = Fields
             /\ thread[t].at = "user"
             /\ thread'[t].at = "stopped" /\ thread'[t].stop = stop
             /\ thread'[t].call = thread[t].call /\ thread'[t].rax = thread[t].rax
             /\ thread'[t].blocked = thread[t].blocked
    <2> DEFINE s == Stop(t, stop)
               q == [s EXCEPT !.signalled = TRUE]
    <2>1. thread' = [thread EXCEPT ![t] = q] /\ thread[t].at = "user"
        BY <1>2 DEF Signal
    <2>2. /\ DOMAIN s = Fields /\ s.at = "stopped" /\ s.stop = stop
          /\ s.call = thread[t].call /\ s.rax = thread[t].rax /\ s.blocked = thread[t].blocked
        BY <1>0, StopShape
    <2> HIDE DEF s
    <2>3. /\ DOMAIN q = Fields /\ q.at = s.at /\ q.stop = s.stop /\ q.call = s.call
          /\ q.rax = s.rax /\ q.blocked = s.blocked
        BY <2>2 DEF Fields
    <2> HIDE DEF q
    <2>4. OnlyThread(t) /\ thread'[t] = q
        BY <2>1, OneChange
    <2> QED
        BY <2>1, <2>2, <2>3, <2>4
<1> QED
    BY <1>1, <1>2

LEMMA CloneDoes ==
    ASSUME ShapeInv, NEW t \in Tids, NEW child \in Tids, Clone(t, child)
    PROVE  /\ t # child
           /\ thread' = [s \in Tids |-> thread'[s]]
           /\ \A s \in Tids \ {t, child} : thread'[s] = thread[s]
           /\ DOMAIN thread'[t] = Fields /\ DOMAIN thread'[child] = Fields
           /\ thread'[t].at = "stopped" /\ thread'[t].stop = "clone"
           /\ thread'[t].call = thread[t].call /\ thread'[t].rax = thread[t].rax
           /\ thread'[t].blocked = thread[t].blocked
           /\ thread'[child].at = "stopped" /\ thread'[child].stop = "start"
           /\ thread'[child].rax = thread[child].rax
           /\ thread'[child].blocked = thread[child].blocked
<1> DEFINE a == Stop(t, "clone")
           s == Stop(child, "start")
           b == [s EXCEPT !.enters = 1]
<1>1. /\ DOMAIN thread[t] = Fields /\ DOMAIN thread[child] = Fields
      /\ thread = [u \in Tids |-> thread[u]]
    BY DEF ShapeInv
<1>2. /\ thread[t].at = "user" /\ thread[child].at = "none"
      /\ thread' = [thread EXCEPT ![t] = a, ![child] = b]
    BY DEF Clone
<1>3. /\ DOMAIN a = Fields /\ a.at = "stopped" /\ a.stop = "clone"
      /\ a.call = thread[t].call /\ a.rax = thread[t].rax /\ a.blocked = thread[t].blocked
    BY <1>1, StopShape
<1>4. /\ DOMAIN s = Fields /\ s.at = "stopped" /\ s.stop = "start"
      /\ s.rax = thread[child].rax /\ s.blocked = thread[child].blocked
    BY <1>1, StopShape
<1> HIDE DEF a, s
<1>5. DOMAIN b = Fields /\ b.at = s.at /\ b.stop = s.stop /\ b.rax = s.rax /\ b.blocked = s.blocked
    BY <1>4 DEF Fields
<1> HIDE DEF b
<1>6. t # child
    BY <1>2
<1> DEFINE th == [thread EXCEPT ![t] = a]
<1>7. /\ th = [u \in Tids |-> th[u]] /\ th[t] = a
      /\ \A u \in Tids \ {t} : th[u] = thread[u]
    BY <1>1
<1>8. thread' = [th EXCEPT ![child] = b]
    BY <1>2
<1> HIDE DEF th
<1>9. /\ thread' = [u \in Tids |-> thread'[u]] /\ thread'[child] = b
      /\ \A u \in Tids \ {child} : thread'[u] = th[u]
    BY <1>7, <1>8
<1> QED
    BY <1>3, <1>4, <1>5, <1>6, <1>7, <1>9

LEMMA ExecDoes ==
    ASSUME ShapeInv, NEW t \in Tids, Exec(t)
    PROVE  LET p == Process[t]
           IN  /\ p \in Tids /\ Process[p] = p
               /\ thread' = [s \in Tids |-> thread'[s]]
               /\ \A s \in Tids \ {t, p} : thread'[s] = thread[s]
               /\ t # p => /\ DOMAIN thread'[t] = Fields /\ thread'[t].at = "none"
                           /\ thread'[t].rax = Nobody /\ thread'[t].blocked = FALSE
               /\ DOMAIN thread'[p] = Fields
               /\ thread'[p].at = "stopped" /\ thread'[p].stop = "exec"
               /\ thread'[p].call = Execve
<1> DEFINE p == Process[t]
           g == Gone("none")
           b == Begin(t, Execve, "stopped")
           r == [b EXCEPT !.stop = "exec", !.reported = FALSE]
           th == [thread EXCEPT ![t] = g]
<1>1. /\ thread = [u \in Tids |-> thread[u]] /\ DOMAIN thread[t] = Fields
      /\ p \in Tids /\ Process[p] = p
    BY FakefsAssumption DEF ShapeInv
<1>2. DOMAIN g = Fields /\ g.at = "none" /\ g.rax = Nobody /\ g.blocked = FALSE
    BY GoneShape
<1>3. DOMAIN b = Fields /\ b.at = "stopped" /\ b.call = Execve
    BY <1>1, BeginShape
<1>4. thread' = [th EXCEPT ![p] = r]
    BY DEF Exec
<1> HIDE DEF p, g, b
<1>5. DOMAIN r = Fields /\ r.at = b.at /\ r.stop = "exec" /\ r.call = b.call
    BY <1>3, StoppedAt
<1> HIDE DEF r
<1>6. /\ th = [u \in Tids |-> th[u]] /\ th[t] = g
      /\ \A u \in Tids \ {t} : th[u] = thread[u]
    BY <1>1
<1> HIDE DEF th
<1>7. /\ thread' = [u \in Tids |-> thread'[u]] /\ thread'[p] = r
      /\ \A u \in Tids \ {p} : thread'[u] = th[u]
    BY <1>1, <1>4, <1>6
<1>8. \A u \in Tids \ {t, p} : thread'[u] = thread[u]
    BY <1>6, <1>7
<1>9. t # p => thread'[t] = g
    BY <1>6, <1>7
<1> QED
    BY <1>1, <1>2, <1>3, <1>5, <1>7, <1>8, <1>9 DEF p

LEMMA ExitDoes ==
    ASSUME ShapeInv, NEW t \in Tids, NEW at, thread' = [thread EXCEPT ![t] = Gone(at)]
    PROVE  /\ OnlyThread(t) /\ DOMAIN thread'[t] = Fields
           /\ thread'[t].at = at /\ thread'[t].rax = Nobody /\ thread'[t].blocked = FALSE
<1>1. OnlyThread(t) /\ thread'[t] = Gone(at)
    BY OneChange
<1> QED
    BY <1>1, GoneShape

LEMMA DieDoes ==
    ASSUME ShapeInv, NEW p, Die(p)
    PROVE  /\ thread' = [s \in Tids |-> thread'[s]]
           /\ \A s \in Tids :
                  \/ thread'[s] = thread[s]
                  \/ /\ DOMAIN thread'[s] = Fields
                     /\ thread'[s].at = "dead" /\ thread'[s].blocked = FALSE
                     /\ thread[s].at # "none"
<1>1. thread' = [t \in Tids |-> IF Process[t] = p /\ Alive(t) THEN Gone("dead") ELSE thread[t]]
    BY DEF Die
<1>2. \A t \in Tids : Alive(t) => thread[t].at # "none"
    BY DEF Alive
<1> QED
    BY <1>1, <1>2, GoneShape

LEMMA StartDoes ==
    ASSUME ShapeInv, StartTracee
    PROVE  /\ OnlyThread(Root) /\ DOMAIN thread'[Root] = Fields
           /\ thread'[Root].at = "stopped" /\ thread'[Root].stop \in {"start", "group"}
           /\ thread'[Root].call = thread[Root].call /\ thread'[Root].rax = thread[Root].rax
           /\ thread'[Root].blocked = thread[Root].blocked
           /\ thread[Root].at = "listening"
<1>1. PICK stop \in {"start", "group"} : thread' = [thread EXCEPT ![Root] = Stop(Root, stop)]
    BY DEF StartTracee
<1>2. Root \in Tids /\ DOMAIN thread[Root] = Fields /\ thread[Root].at = "listening"
    BY FakefsAssumption DEF ShapeInv, StartTracee
<1>3. OnlyThread(Root) /\ thread'[Root] = Stop(Root, stop)
    BY <1>1, <1>2, OneChange
<1> QED
    BY <1>2, <1>3, StopShape

LEMMA WaitDoes ==
    ASSUME ShapeInv, NEW t \in Tids, Wait(t)
    PROVE  /\ OnlyThread(t) /\ DOMAIN thread'[t] = Fields
           /\ thread'[t].at = thread[t].at /\ thread'[t].stop = thread[t].stop
           /\ thread'[t].call = thread[t].call /\ thread'[t].rax = thread[t].rax
           /\ thread'[t].blocked = thread[t].blocked
<1> DEFINE q == [thread[t] EXCEPT !.reported = TRUE]
<1>1. thread' = [thread EXCEPT ![t] = q] /\ DOMAIN thread[t] = Fields
    BY DEF Wait, ShapeInv
<1>2. /\ DOMAIN q = Fields
      /\ q.at = thread[t].at /\ q.stop = thread[t].stop /\ q.call = thread[t].call
      /\ q.rax = thread[t].rax /\ q.blocked = thread[t].blocked
    BY <1>1 DEF Fields
<1> HIDE DEF q
<1>3. OnlyThread(t) /\ thread'[t] = q
    BY <1>1, OneChange
<1> QED
    BY <1>2, <1>3

LEMMA BlockDoes ==
    ASSUME ShapeInv, NEW answer, Block(answer)
    PROVE  LET t == tracer.tid
           IN  /\ OnlyThread(t) /\ DOMAIN thread'[t] = Fields
               /\ thread'[t].at = thread[t].at /\ thread'[t].stop = thread[t].stop
               /\ thread'[t].call = thread[t].call /\ thread'[t].rax = thread[t].rax
               /\ thread[t].at # "stopped" => thread'[t] = thread[t]
<1> DEFINE t == tracer.tid
           q == [thread[t] EXCEPT !.blocked = TRUE]
<1>1. /\ t \in Tids /\ DOMAIN thread[t] = Fields
      /\ thread = [s \in Tids |-> thread[s]]
      /\ thread' = IF Stopped(t) THEN [thread EXCEPT ![t] = q] ELSE thread
    BY DEF Block, ShapeInv
<1> HIDE DEF t
<1>2. /\ DOMAIN q = Fields
      /\ q.at = thread[t].at /\ q.stop = thread[t].stop /\ q.call = thread[t].call
      /\ q.rax = thread[t].rax
    BY <1>1 DEF Fields
<1> HIDE DEF q
<1>3. CASE Stopped(t)
    <2>1. thread' = [thread EXCEPT ![t] = q] /\ thread[t].at = "stopped"
        BY <1>1, <1>3 DEF Stopped
    <2>2. OnlyThread(t) /\ thread'[t] = q
        BY <1>1, <2>1, OneChange
    <2> QED
        BY <1>2, <2>1, <2>2 DEF t
<1>4. CASE ~Stopped(t)
    BY <1>1, <1>4 DEF OnlyThread, t
<1> QED
    BY <1>3, <1>4

LEMMA AnswerDoes ==
    ASSUME ShapeInv, AnswerIt
    PROVE  LET t == tracer.tid
           IN  /\ OnlyThread(t) /\ DOMAIN thread'[t] = Fields
               /\ thread'[t].at = thread[t].at /\ thread'[t].stop = thread[t].stop
               /\ thread'[t].call = thread[t].call /\ thread'[t].rax = hooks[t]
               /\ thread'[t].blocked = thread[t].blocked
<1> DEFINE t == tracer.tid
           q == [thread[t] EXCEPT !.rax = hooks[t]]
<1>1. /\ t \in Tids /\ DOMAIN thread[t] = Fields
      /\ thread' = [thread EXCEPT ![t] = q]
    BY DEF AnswerIt, ShapeInv
<1> HIDE DEF t
<1>2. /\ DOMAIN q = Fields
      /\ q.at = thread[t].at /\ q.stop = thread[t].stop /\ q.call = thread[t].call
      /\ q.rax = hooks[t] /\ q.blocked = thread[t].blocked
    BY <1>1 DEF Fields
<1> HIDE DEF q
<1>3. OnlyThread(t) /\ thread'[t] = q
    BY <1>1, OneChange
<1> QED
    BY <1>2, <1>3 DEF t

LEMMA GoDoes ==
    ASSUME ShapeInv, Go
    PROVE  LET t == tracer.tid
               applies == thread[t].at = "stopped" /\
                   (tracer.action = "listen" => thread[t].stop \in {"group", "start"})
           IN  /\ ~applies => thread' = thread
               /\ applies => /\ OnlyThread(t) /\ thread'[t] = Resumed(t, tracer.action)
                             /\ DOMAIN thread'[t] = Fields
<1> DEFINE t == tracer.tid
           applies == /\ Stopped(t)
                      /\ tracer.action = "listen" => thread[t].stop \in {"group", "start"}
<1>1. /\ t \in Tids /\ DOMAIN thread[t] = Fields
      /\ thread' = IF applies THEN [thread EXCEPT ![t] = Resumed(t, tracer.action)] ELSE thread
    BY DEF Go, ShapeInv
<1>2. applies => OnlyThread(t) /\ thread'[t] = Resumed(t, tracer.action)
    BY <1>1, OneChange
<1> HIDE DEF t
<1>3. DOMAIN Resumed(t, tracer.action) = Fields
    BY <1>1, ResumedShape
<1> QED
    BY <1>1, <1>2, <1>3 DEF Stopped, t
-----------------------------------------------------------------------------
(* What the steps make of the tracer, its record of hooks and the overrides *)
LEMMA TracerMoves ==
    ASSUME ShapeInv
    PROVE  /\ \A action : Resume(action) =>
                  /\ DOMAIN tracer' = DOMAIN tracer
                  /\ tracer'.at = "resume" /\ tracer'.action = action
                  /\ tracer'.tid = tracer.tid /\ tracer'.stop = tracer.stop
           /\ \A how : End(how) =>
                  DOMAIN tracer' = DOMAIN tracer /\ tracer'.at = "end" /\ tracer'.tid = tracer.tid
           /\ \A read : tracer' = [tracer EXCEPT !.at = "fchown", !.read = read] =>
                  /\ DOMAIN tracer' = DOMAIN tracer
                  /\ tracer'.at = "fchown" /\ tracer'.read = read
                  /\ tracer'.tid = tracer.tid /\ tracer'.stop = tracer.stop
           /\ tracer' = Idle =>
                  DOMAIN tracer' = DOMAIN tracer /\ tracer'.at = "wait" /\ tracer'.tid = Root
           /\ \A t, stop : tracer' = [Idle EXCEPT !.at = "stop", !.tid = t, !.stop = stop] =>
                  /\ DOMAIN tracer' = DOMAIN tracer
                  /\ tracer'.at = "stop" /\ tracer'.tid = t /\ tracer'.stop = stop
<1>1. DOMAIN tracer = {"at", "tid", "stop", "action", "read"}
    BY DEF ShapeInv
<1>2. /\ DOMAIN Idle = {"at", "tid", "stop", "action", "read"}
      /\ Idle.at = "wait" /\ Idle.tid = Root
    BY DEF Idle
<1>3. \A action : Resume(action) =>
                  /\ DOMAIN tracer' = DOMAIN tracer
                  /\ tracer'.at = "resume" /\ tracer'.action = action
                  /\ tracer'.tid = tracer.tid /\ tracer'.stop = tracer.stop
    BY <1>1 DEF Resume
<1>4. \A how : End(how) =>
                  DOMAIN tracer' = DOMAIN tracer /\ tracer'.at = "end" /\ tracer'.tid = tracer.tid
    BY <1>1 DEF End
<1>5. \A read : tracer' = [tracer EXCEPT !.at = "fchown", !.read = read] =>
                  /\ DOMAIN tracer' = DOMAIN tracer
                  /\ tracer'.at = "fchown" /\ tracer'.read = read
                  /\ tracer'.tid = tracer.tid /\ tracer'.stop = tracer.stop
    BY <1>1
<1>6. \A t, stop : tracer' = [Idle EXCEPT !.at = "stop", !.tid = t, !.stop = stop] =>
                  /\ DOMAIN tracer' = DOMAIN tracer
                  /\ tracer'.at = "stop" /\ tracer'.tid = t /\ tracer'.stop = stop
    BY <1>1, <1>2
<1> QED
    BY <1>1, <1>2, <1>3, <1>4, <1>5, <1>6

LEMMA HookMoves ==
    ASSUME ShapeInv
    PROVE  /\ \A answer : Hook(answer) =>
                  /\ hooks' = [s \in DOMAIN hooks' |-> hooks'[s]] /\ DOMAIN hooks' = DOMAIN hooks
                  /\ tracer.tid \in DOMAIN hooks => hooks'[tracer.tid] = answer
                  /\ \A s \in DOMAIN hooks : s # tracer.tid => hooks'[s] = hooks[s]
           /\ \A tids : Forget(tids) =>
                  /\ hooks' = [s \in DOMAIN hooks' |-> hooks'[s]] /\ DOMAIN hooks' = DOMAIN hooks \ tids
                  /\ \A s \in DOMAIN hooks' : hooks'[s] = hooks[s]
           /\ \A t \in Tids :
                  /\ Put(t) = [s \in DOMAIN Put(t) |-> Put(t)[s]] /\ DOMAIN Put(t) = DOMAIN hooks \union {t}
                  /\ \A s \in DOMAIN hooks : Put(t)[s] = hooks[s]
                  /\ t \notin DOMAIN hooks => Put(t)[t] = Nobody
<1>1. hooks = [s \in DOMAIN hooks |-> hooks[s]]
    BY DEF ShapeInv
<1>2. \A answer : Hook(answer) =>
                  /\ hooks' = [s \in DOMAIN hooks' |-> hooks'[s]] /\ DOMAIN hooks' = DOMAIN hooks
                  /\ tracer.tid \in DOMAIN hooks => hooks'[tracer.tid] = answer
                  /\ \A s \in DOMAIN hooks : s # tracer.tid => hooks'[s] = hooks[s]
    BY <1>1 DEF Hook
<1>3. \A tids : Forget(tids) =>
                  /\ hooks' = [s \in DOMAIN hooks' |-> hooks'[s]] /\ DOMAIN hooks' = DOMAIN hooks \ tids
                  /\ \A s \in DOMAIN hooks' : hooks'[s] = hooks[s]
    BY <1>1 DEF Forget
<1>4. \A t \in Tids :
                  /\ Put(t) = [s \in DOMAIN Put(t) |-> Put(t)[s]] /\ DOMAIN Put(t) = DOMAIN hooks \union {t}
                  /\ \A s \in DOMAIN hooks : Put(t)[s] = hooks[s]
                  /\ t \notin DOMAIN hooks => Put(t)[t] = Nobody
    BY DEF Put
<1> QED
    BY <1>2, <1>3, <1>4

LEMMA OverrideMoves ==
    ASSUME ShapeInv, NEW f, NEW data, SetOverride(f, data)
    PROVE  /\ override' = [g \in Files |-> override'[g]]
           /\ seen' = [t \in Tids |-> seen'[t]]
           /\ \A t \in Tids : seen[t] \subseteq seen'[t]
           /\ \A t \in Tids : \A g \in Files :
                  /\ thread[t].call.file = g /\ thread[t].at # "user"
                  /\ override[g] \in seen[t]
                  => override'[g] \in seen'[t]
<1>1. /\ override = [g \in Files |-> override[g]]
      /\ override' = [override EXCEPT ![f] = data]
      /\ seen' = [t \in Tids |-> IF t \in Watchers(f) THEN seen[t] \union {data} ELSE seen[t]]
    BY DEF SetOverride, ShapeInv
<1>2. \A g \in Files : override'[g] = IF g = f THEN data ELSE override[g]
    BY <1>1
<1>3. \A t \in Tids : t \in Watchers(f) <=> thread[t].call.file = f /\ thread[t].at # "user"
    BY DEF Watchers
<1> QED
    BY <1>1, <1>2, <1>3

LEMMA StepShape == ShapeInv /\ [Next]_vars => ShapeInv'
<1> SUFFICES ASSUME ShapeInv, [Next]_vars PROVE ShapeInv'
    OBVIOUS
<1> USE DEF ShapeInv
<1>1. CASE UNCHANGED vars
    BY <1>1 DEF vars
<1>2. ASSUME NEW t \in Tids, OnlyThread(t), DOMAIN thread'[t] = Fields
      PROVE  thread' = [s \in Tids |-> thread'[s]] /\ \A s \in Tids : DOMAIN thread'[s] = Fields
    BY <1>2 DEF OnlyThread
<1>3. ASSUME NEW t \in Tids, Tracee(t) PROVE ShapeInv'
    <2>1. ASSUME NEW child \in Tids, Clone(t, child) PROVE ShapeInv'
        <3>1. UNCHANGED <<override, seen, hooks, tracer>>
            BY <2>1 DEF Clone
        <3>2. /\ thread' = [s \in Tids |-> thread'[s]]
              /\ \A s \in Tids \ {t, child} : thread'[s] = thread[s]
              /\ DOMAIN thread'[t] = Fields /\ DOMAIN thread'[child] = Fields
            BY <2>1, CloneDoes
        <3> QED
            BY <3>1, <3>2
    <2>2. ASSUME NEW call, Enter(t, call) PROVE ShapeInv'
        <3>1. seen' = [s \in Tids |-> seen'[s]] /\ UNCHANGED <<override, hooks, tracer>>
            BY <2>2 DEF Enter
        <3> QED
            BY <1>2, <2>2, <3>1, EnterDoes
    <2>3. CASE Exec(t)
        <3>1. UNCHANGED <<override, seen, hooks, tracer>>
            BY <2>3 DEF Exec
        <3>2. /\ thread' = [s \in Tids |-> thread'[s]]
              /\ \A s \in Tids \ {t, Process[t]} : thread'[s] = thread[s]
              /\ t # Process[t] => DOMAIN thread'[t] = Fields
              /\ DOMAIN thread'[Process[t]] = Fields
            BY <2>3, ExecDoes
        <3> QED
            BY <3>1, <3>2
    <2>4. CASE ExitThread(t)
        <3>1. /\ UNCHANGED <<override, seen, hooks, tracer>>
              /\ thread' = [thread EXCEPT ![t] = Gone("dead")]
            BY <2>4 DEF ExitThread
        <3>2. OnlyThread(t) /\ DOMAIN thread'[t] = Fields
            BY <3>1, ExitDoes
        <3> QED
            BY <1>2, <3>1, <3>2
    <2>5. CASE (\E stop \in {"signal", "group"} : Signal(t, stop)) \/ Continue(t)
        <3>1. UNCHANGED <<override, seen, hooks, tracer>>
            BY <2>5 DEF Signal, Continue
        <3> QED
            BY <1>2, <2>5, <3>1, SignalDoes
    <2>6. CASE Return(t)
        <3>1. UNCHANGED <<override, seen, hooks, tracer>>
            BY <2>6 DEF Return
        <3>2. thread' = [s \in Tids |-> thread'[s]] /\ \A s \in Tids : DOMAIN thread'[s] = Fields
            BY <1>2, <2>6, ReturnDoes
        <3> QED
            BY <3>1, <3>2
    <2>7. ASSUME NEW call, FastStat(t, call) \/ FastChown(t, call) PROVE ShapeInv'
        <3>1. Checked(t, call)
            BY <2>7 DEF FastStat, FastChown
        <3>2. seen' = [s \in Tids |-> seen'[s]] /\ UNCHANGED <<override, hooks, tracer>>
            BY <3>1 DEF Checked
        <3> QED
            BY <1>2, <3>1, <3>2, CheckedDoes
    <2>8. CASE Backdoor(t) \/ ClearOverride(t)
        <3>1. /\ override' = [g \in Files |-> override'[g]] /\ seen' = [s \in Tids |-> seen'[s]]
              /\ UNCHANGED <<hooks, tracer>>
            BY <2>8, OverrideMoves DEF Backdoor, ClearOverride
        <3> QED
            BY <1>2, <2>8, <3>1, LibraryDoes
    <2> QED
        BY <1>3, <2>1, <2>2, <2>3, <2>4, <2>5, <2>6, <2>7, <2>8 DEF Tracee, Library
<1>4. ASSUME NEW p, Die(p) PROVE ShapeInv'
    BY <1>4, DieDoes DEF Die
<1>5. CASE Ended
    BY <1>5 DEF Ended, vars
<1>6. CASE Tracer
    <2>1. CASE Fails
        BY <2>1, TracerMoves DEF Fails
    <2>2. CASE StartTracee
        <3>1. UNCHANGED <<override, seen, hooks>> /\ tracer' = Idle /\ Root \in Tids
            BY <2>2, FakefsAssumption DEF StartTracee
        <3> QED
            BY <1>2, <2>2, <3>1, StartDoes, TracerMoves
    <2>3. ASSUME NEW t \in Tids, Wait(t) PROVE ShapeInv'
        <3>1. /\ UNCHANGED <<override, seen>> /\ hooks' = Put(t)
              /\ tracer' = [Idle EXCEPT !.at = "stop", !.tid = t, !.stop = thread[t].stop]
            BY <2>3 DEF Wait
        <3>2. DOMAIN tracer' = DOMAIN tracer /\ tracer'.tid = t
            BY <3>1, TracerMoves
        <3>3. hooks' = [s \in DOMAIN hooks' |-> hooks'[s]] /\ DOMAIN hooks' = DOMAIN hooks \union {t}
            BY <3>1, HookMoves
        <3>4. OnlyThread(t) /\ DOMAIN thread'[t] = Fields
            BY <2>3, WaitDoes
        <3> QED
            BY <1>2, <3>1, <3>2, <3>3, <3>4
    <2>4. ASSUME NEW t \in Tids, WaitDead(t) PROVE ShapeInv'
        <3>1. /\ UNCHANGED <<override, seen>> /\ Forget({t}) /\ thread' = [thread EXCEPT ![t] = Gone("none")]
              /\ (End("exit code") \/ UNCHANGED tracer)
            BY <2>4 DEF WaitDead
        <3>2. DOMAIN tracer' = DOMAIN tracer /\ tracer'.tid = tracer.tid
            BY <3>1, TracerMoves
        <3>3. hooks' = [s \in DOMAIN hooks' |-> hooks'[s]] /\ DOMAIN hooks' = DOMAIN hooks \ {t}
            BY <3>1, HookMoves
        <3>4. OnlyThread(t) /\ DOMAIN thread'[t] = Fields
            BY <3>1, ExitDoes
        <3> QED
            BY <1>2, <3>1, <3>2, <3>3, <3>4
    <2>5. ASSUME \E answer : Block(answer), UNCHANGED override \/ \E f, data : SetOverride(f, data),
                 UNCHANGED seen \/ \E f, data : SetOverride(f, data)
          PROVE  ShapeInv'
        <3>1. PICK answer : Block(answer)
            BY <2>5
        <3>2. /\ Hook(answer) /\ Resume("syscall")
              /\ OnlyThread(tracer.tid) /\ DOMAIN thread'[tracer.tid] = Fields
            BY <3>1, BlockDoes DEF Block
        <3>3. DOMAIN tracer' = DOMAIN tracer /\ tracer'.tid = tracer.tid
            BY <3>2, TracerMoves
        <3>4. hooks' = [s \in DOMAIN hooks' |-> hooks'[s]] /\ DOMAIN hooks' = DOMAIN hooks
            BY <3>2, HookMoves
        <3>5. override' = [g \in Files |-> override'[g]] /\ seen' = [s \in Tids |-> seen'[s]]
            BY <2>5, OverrideMoves
        <3> QED
            BY <1>2, <3>2, <3>3, <3>4, <3>5
    <2>6. ASSUME UNCHANGED <<override, seen>>, UNCHANGED thread \/ AnswerIt,
                 UNCHANGED hooks \/ (\E answer : Hook(answer)) \/ (\E tids : Forget(tids)),
                 \/ \E action : Resume(action)
                 \/ \E read : tracer' = [tracer EXCEPT !.at = "fchown", !.read = read]
          PROVE  ShapeInv'
        <3>1. DOMAIN tracer' = DOMAIN tracer /\ tracer'.tid = tracer.tid
            BY <2>6, TracerMoves
        <3>2. hooks' = [s \in DOMAIN hooks' |-> hooks'[s]] /\ DOMAIN hooks' \subseteq DOMAIN hooks
            <4>1. CASE UNCHANGED hooks
                BY <4>1
            <4>2. ASSUME NEW answer, Hook(answer)
                  PROVE  hooks' = [s \in DOMAIN hooks' |-> hooks'[s]] /\ DOMAIN hooks' = DOMAIN hooks
                BY <4>2, HookMoves
            <4>3. ASSUME NEW tids, Forget(tids)
                  PROVE  hooks' = [s \in DOMAIN hooks' |-> hooks'[s]] /\ DOMAIN hooks' = DOMAIN hooks \ tids
                BY <4>3, HookMoves
            <4> QED
                BY <2>6, <4>1, <4>2, <4>3
        <3>3. thread' = [s \in Tids |-> thread'[s]] /\ \A s \in Tids : DOMAIN thread'[s] = Fields
            BY <1>2, <2>6, AnswerDoes
        <3> QED
            BY <2>6, <3>1, <3>2, <3>3
    <2>7. CASE Go
        <3>1. UNCHANGED <<override, seen, hooks>> /\ tracer' = Idle /\ Root \in Tids
            BY <2>7, FakefsAssumption DEF Go
        <3>2. thread' = [s \in Tids |-> thread'[s]] /\ \A s \in Tids : DOMAIN thread'[s] = Fields
            BY <1>2, <2>7, GoDoes
        <3> QED
            BY <3>1, <3>2, TracerMoves
    <2> HIDE DEF ShapeInv
    <2>8. SyscallEntry => ShapeInv'
        BY <2>5, <2>6 DEF SyscallEntry, Pass
    <2>9. FchownReads => ShapeInv'
        BY <2>6 DEF FchownReads
    <2>10. FchownRefuses \/ FchownWrites => ShapeInv'
        BY <2>5 DEF FchownRefuses, FchownWrites
    <2>11. SyscallExit => ShapeInv'
        BY <2>1, <2>6 DEF SyscallExit, AnswerIt
    <2>12. NoRegisters \/ OtherStop => ShapeInv'
        BY <2>6 DEF NoRegisters, OtherStop
    <2>3a. ExecStop => ShapeInv'
        BY <2>1, <2>6 DEF ExecStop, ForgetSiblings
    <2> QED
        BY <1>6, <2>1, <2>2, <2>3, <2>4, <2>7, <2>8, <2>9, <2>10, <2>11, <2>12, <2>3a
        DEF Tracer, StartFails, WaitFails
<1> QED
    BY <1>1, <1>3, <1>4, <1>5, <1>6 DEF Next
-----------------------------------------------------------------------------
(* The invariant                                                           *)

\* What is put where the call of a thread returns, and how it is resumed
HookOf(t) == IF t \in DOMAIN hooks THEN hooks[t] ELSE Nobody
Mode(t) == IF tracer.at = "resume" /\ tracer.tid = t THEN tracer.action ELSE "no"

\* A hook answers the call; a call that is let pass needs no answer
Answers(hook, call, overrides) == hook # Nobody /\ Truthful(call, hook, overrides)
Passes(call, overrides) ==
    \/ call = Execve
    \/ call.op \in {"stat", "list"} /\ (Kind[call.file] = "missing" \/ Nobody \in overrides)

Resting == {"clone", "start", "group", "signal"}
Outside(r, mode) ==
    \/ r.at \in {"user", "listening"}
    \/ r.at = "stopped" /\ (r.stop \in Resting \/ (r.stop = "exit" /\ mode # "no"))
InCall(r) ==
    \/ r.at \in {"checked", "call"}
    \/ r.at = "stopped" /\ r.stop \in {"seccomp", "exec"}

\* A thread at each of its stops, with its hook, the overrides it could have seen, and its mode
Fits(r, hook, overrides, mode) ==
    /\ Outside(r, mode) /\ r.rax # Nobody => Truthful(r.call, r.rax, overrides)
    /\ r.at \in {"none", "user", "checked", "call", "stopped", "listening", "dead"}
    /\ r.at \notin {"stopped", "call"} => r.blocked = FALSE
    /\ r.at = "none" => r.rax = Nobody
    /\ r.at = "checked" => r.call.op = "chown" \/ (r.call.op = "stat" /\ Passes(r.call, overrides))
    /\ r.at = "call" => /\ r.traced \in BOOLEAN
                        /\ r.traced = TRUE => Answers(hook, r.call, overrides)
                        /\ r.traced = FALSE => r.blocked = FALSE /\ Passes(r.call, overrides)
    /\ r.at = "stopped" =>
           /\ r.stop \in Stopping
           /\ r.stop \in Resting => r.blocked = FALSE
           /\ r.stop = "seccomp" =>
                  /\ mode = "syscall" => Answers(hook, r.call, overrides)
                  /\ mode # "syscall" => r.blocked = FALSE
                  /\ mode \notin {"syscall", "no"} => Passes(r.call, overrides)
           /\ r.stop = "exit" /\ mode = "no" => Answers(hook, r.call, overrides)
           /\ r.stop = "exec" => r.call = Execve /\ (mode = "syscall" => hook # Nobody)

Known(call) ==
    \/ /\ call.op \in {"stat", "list", "chown"} /\ call.file \in Files
       /\ DOMAIN call.owner = {"uid", "gid"}
    \/ call = Execve \/ (call.op = "probe" /\ call.file = Nobody)
Watched(t) ==
    /\ Known(thread[t].call)
    /\ thread[t].call.file \in Files => override[thread[t].call.file] \in seen[t]

ThreadOK(t) ==
    /\ Fits(thread[t], HookOf(t), seen[t], Mode(t))
    /\ InCall(thread[t]) => Watched(t)
ThreadInv == \A t \in Tids : ThreadOK(t)

\* The tracer at work on a stop of a thread: it may have died, or have become its leader
Alone(t) == t = Process[t] /\ \A s \in Siblings(t) : thread[s].at = "none"
Working == {"stop", "fchown", "resume"}
TracerInv ==
    tracer.at \in Working =>
        /\ tracer.tid \in DOMAIN hooks
        /\ thread[tracer.tid].at \in {"dead", "stopped"}
        /\ thread[tracer.tid].at = "stopped" => thread[tracer.tid].stop \in {tracer.stop, "exec"}
        /\ tracer.stop = "exec" => Alone(tracer.tid)
        /\ tracer.at = "stop" /\ tracer.stop = "exit" => hooks[tracer.tid] # Nobody
        /\ tracer.at = "fchown" => /\ tracer.stop = "seccomp"
                                   /\ DOMAIN tracer.read.call.owner = {"uid", "gid"}
                                   /\ \/ thread[tracer.tid].at # "stopped"
                                      \/ thread[tracer.tid].stop = "exec"
                                      \/ thread[tracer.tid].call.op = "chown"
        /\ tracer.at = "resume" => /\ tracer.action # "no"
                                   /\ tracer.action = "listen" => tracer.stop = "group"
                                   /\ tracer.action = "syscall" => hooks[tracer.tid] # Nobody

\* Only a leader is in the stop of execve, when the others are gone
ExecInv == \A t \in Tids : Stopped(t) /\ thread[t].stop = "exec" => Alone(t)

\* The tracer knows the leader of the command before it lets it go on
RootInv ==
    /\ tracer.at = "start" => /\ thread[Root].at \in {"listening", "dead"}
                              /\ \A t \in Tids \ {Root} : thread[t].at = "none"
    /\ Root \notin DOMAIN hooks => thread[Root].at \in {"listening", "stopped", "dead", "none"}
    /\ \A t \in Tids \ {Root} :
           Process[t] = Root /\ thread[t].at # "none" => Root \in DOMAIN hooks

PhaseInv == tracer.at \in {"start", "wait", "stop", "fchown", "resume", "end"}

Inv == ShapeInv /\ PhaseInv /\ ThreadInv /\ TracerInv /\ ExecInv /\ RootInv /\ EndsAfterRoot
-----------------------------------------------------------------------------
(* Answers                                                                 *)

LEMMA Results ==
    /\ Ok # Nobody /\ NoSys # Nobody
    /\ \A e : Error(e) # Nobody /\ Names(e) # Nobody /\ Owner(e) # Nobody
    /\ Execve.op = "execve" /\ Execve.file = Nobody /\ NoCall.op = "none"
BY DEF Ok, NoSys, Nobody, Error, Names, Owner, Execve, NoCall, Call

LEMMA TruthIsKept ==
    ASSUME NEW call, NEW rax, NEW S, NEW T, S \subseteq T, Truthful(call, rax, S)
    PROVE  Truthful(call, rax, T)
<1>1. CASE call.op = "stat"
    BY <1>1 DEF Truthful
<1>2. CASE call.op = "list"
    BY <1>2 DEF Truthful
<1>3. CASE call.op \notin {"stat", "list"}
    BY <1>3 DEF Truthful
<1> QED
    BY <1>1, <1>2, <1>3

LEMMA FitsIsKept ==
    ASSUME NEW r, NEW hook, NEW mode, NEW S, NEW T, S \subseteq T, Fits(r, hook, S, mode)
    PROVE  Fits(r, hook, T, mode)
<1>1. \A call, rax : Truthful(call, rax, S) => Truthful(call, rax, T)
    BY TruthIsKept
<1>2. \A call : Answers(hook, call, S) => Answers(hook, call, T)
    BY <1>1 DEF Answers
<1>3. \A call : Passes(call, S) => Passes(call, T)
    BY DEF Passes
<1> QED
    BY <1>1, <1>2, <1>3 DEF Fits

\* What the kernel returns for a call that passes could be found
LEMMA KernelIsTruthful ==
    ASSUME NEW call, NEW S, Passes(call, S),
           call = Execve \/ (call.file \in Files /\ override[call.file] \in S)
    PROVE  Truthful(call, KernelResult(call), S)
<1>1. CASE call = Execve
    BY <1>1, Results DEF Truthful
<1>2. CASE call.op = "stat"
    <2>1. CASE Kind[call.file] = "missing"
        <3>1. KernelResult(call) = Error("ENOENT")
            BY <1>2, <2>1 DEF KernelResult
        <3> QED
            BY <1>2, <3>1 DEF Truthful
    <2>2. CASE Kind[call.file] # "missing"
        <3>1. KernelResult(call) = Owner(Original) /\ OwnerWith(Nobody) = Original
            BY <1>2, <2>2 DEF KernelResult, OwnerWith
        <3>2. Nobody \in S
            BY <1>2, <2>2, Results DEF Passes
        <3> QED
            BY <1>2, <3>1, <3>2 DEF Truthful
    <2> QED
        BY <2>1, <2>2
<1>3. CASE call.op = "list"
    <2>1. CASE Kind[call.file] = "missing"
        <3>1. KernelResult(call) = Error("ENOENT")
            BY <1>3, <2>1 DEF KernelResult
        <3> QED
            BY <1>3, <3>1 DEF Truthful
    <2>2. CASE Kind[call.file] # "missing"
        <3>1. KernelResult(call) = Names(NamesWith(override[call.file]))
            BY <1>3, <2>2 DEF KernelResult
        <3>2. Nobody \in S /\ override[call.file] \in S
            BY <1>3, <2>2, Results DEF Passes
        <3> QED
            BY <1>3, <3>1, <3>2 DEF Truthful
    <2> QED
        BY <2>1, <2>2
<1> QED
    BY <1>1, <1>2, <1>3 DEF Passes

\* What the tracer answers could be found too; what it lets pass needs no answer
LEMMA TracerIsTruthful ==
    ASSUME NEW call, NEW S, call.op # "chown",
           call = Execve \/ call.op = "probe" \/
               (call.op \in {"stat", "list"} /\ call.file \in Files /\ override[call.file] \in S)
    PROVE  /\ Answer(call) = Nobody => Passes(call, S)
           /\ Answer(call) # Nobody => Answers(Answer(call), call, S)
<1>1. CASE call = Execve
    BY <1>1, Results DEF Passes, Answer
<1>2. CASE call.op = "probe"
    BY <1>2, Results DEF Answers, Answer, Truthful
<1>3. CASE call.op = "stat"
    <2> DEFINE o == override[call.file]
    <2>1. Answer(call) = StatAnswer(call)
        BY <1>3 DEF Answer
    <2>2. o \in S
        BY <1>3, Results
    <2>3. CASE Kind[call.file] = "missing"
        BY <1>3, <2>1, <2>3 DEF StatAnswer, Opens, Passes
    <2>4. CASE Kind[call.file] # "missing" /\ Kind[call.file] = "unreadable" /\ ~(call.how = "path" /\ ~HasOverride(call.file))
        <3>1. Answer(call) = Error("EACCES")
            BY <2>1, <2>4 DEF StatAnswer, Opens, OverriddenStat
        <3> QED
            BY <1>3, <3>1, Results DEF Answers, Truthful
    <2>5. CASE o = Nobody /\ ~(Kind[call.file] = "unreadable" /\ ~(call.how = "path" /\ ~HasOverride(call.file)))
        <3>1. Answer(call) = Nobody
            BY <2>1, <2>5 DEF StatAnswer, Opens, OverriddenStat, HasOverride
        <3> QED
            BY <1>3, <2>2, <2>5, <3>1 DEF Passes
    <2>6. CASE Kind[call.file] \notin {"missing", "unreadable"} /\ o # Nobody
        <3>1. Answer(call) = Owner(o) /\ OwnerWith(o) = o
            BY <2>1, <2>6 DEF StatAnswer, Opens, OverriddenStat, HasOverride, OwnerWith
        <3> QED
            BY <1>3, <2>2, <3>1, Results DEF Answers, Truthful
    <2> QED
        BY <2>3, <2>4, <2>5, <2>6 DEF HasOverride
<1>4. CASE call.op = "list"
    <2> DEFINE o == override[call.file]
    <2>1. Answer(call) = ListAnswer(call) /\ o \in S
        BY <1>4, Results DEF Answer
    <2>2. CASE call.how = "fd" /\ Kind[call.file] \in {"unreadable", "missing"}
        BY <1>4, <2>1, <2>2, Results DEF ListAnswer, Answers, Truthful
    <2>3. CASE o = Nobody /\ ~(call.how = "fd" /\ Kind[call.file] \in {"unreadable", "missing"})
        <3>1. Answer(call) = Nobody
            BY <2>1, <2>3 DEF ListAnswer, HasOverride
        <3> QED
            BY <1>4, <2>1, <2>3, <3>1 DEF Passes
    <2>4. CASE o # Nobody /\ ~(call.how = "fd" /\ Kind[call.file] \in {"unreadable", "missing"})
        <3>1. Answer(call) = Names(NamesWith(o) \ {OverrideName})
            BY <2>1, <2>4 DEF ListAnswer, HasOverride, Filtered
        <3>2. NamesWith(o) \ {OverrideName} = SomeNames
            BY DEF NamesWith, SomeNames, OverrideName
        <3> QED
            BY <1>4, <3>1, <3>2, Results DEF Answers, Truthful
    <2> QED
        BY <2>2, <2>3, <2>4
<1> QED
    BY <1>1, <1>2, <1>3, <1>4
-----------------------------------------------------------------------------
(* What a step leaves alone                                                *)

LEMMA Framed ==
    ASSUME ThreadInv, NEW t \in Tids, thread'[t] = thread[t],
           HookOf(t)' = HookOf(t), Mode(t)' = Mode(t), seen[t] \subseteq seen'[t],
           \A g \in Files : /\ thread[t].call.file = g /\ thread[t].at # "user"
                            /\ override[g] \in seen[t]
                            => override'[g] \in seen'[t]
    PROVE  ThreadOK(t)'
<1>1. Fits(thread[t], HookOf(t), seen[t], Mode(t)) /\ (InCall(thread[t]) => Watched(t))
    BY DEF ThreadInv, ThreadOK
<1>2. Fits(thread'[t], HookOf(t)', seen'[t], Mode(t)')
    BY <1>1, FitsIsKept
<1>3. InCall(thread'[t]) => Watched(t)'
    BY <1>1 DEF Watched, InCall
<1> QED
    BY <1>2, <1>3 DEF ThreadOK

LEMMA OthersFramed ==
    ASSUME ThreadInv, NEW t \in Tids, OnlyThread(t), UNCHANGED <<hooks, tracer>>,
           \A s \in Tids \ {t} : seen[s] \subseteq seen'[s],
           \A s \in Tids \ {t} : \A g \in Files :
               /\ thread[s].call.file = g /\ thread[s].at # "user"
               /\ override[g] \in seen[s]
               => override'[g] \in seen'[s],
           ThreadOK(t)'
    PROVE  ThreadInv'
<1>1. ASSUME NEW s \in Tids, s # t PROVE ThreadOK(s)'
    <2>1. thread'[s] = thread[s] /\ HookOf(s)' = HookOf(s) /\ Mode(s)' = Mode(s)
        BY <1>1 DEF OnlyThread, HookOf, Mode
    <2> QED
        BY <1>1, <2>1, Framed
<1> QED
    BY <1>1 DEF ThreadInv

\* A thread of the command that does something of its own
Runs == {"user", "checked", "call", "listening"}
LEMMA MinorKeeps ==
    ASSUME ShapeInv, TracerInv, ExecInv, RootInv, tracer.at # "end",
           NEW t \in Tids, OnlyThread(t), UNCHANGED <<hooks, tracer>>,
           thread[t].at \in Runs, thread'[t].at # "none",
           thread'[t].at = "stopped" => thread'[t].stop # "exec",
           thread[t].at = "listening" => thread'[t].at \in {"stopped", "dead"} /\ tracer.at # "start"
    PROVE  (TracerInv /\ ExecInv /\ RootInv /\ EndsAfterRoot)'
<1>1. \A s \in Tids : s # t => thread'[s] = thread[s]
    BY DEF OnlyThread
<1>2. \A s \in Tids : Alone(s) => Alone(s)'
    BY <1>1 DEF Alone, Siblings, Runs
<1>3. tracer.at \in Working => tracer.tid # t
    BY DEF TracerInv, Runs
<1>4. TracerInv'
    <2>1. SUFFICES ASSUME tracer.at \in Working PROVE TracerInv'
        BY DEF TracerInv
    <2>2. /\ tracer.tid \in DOMAIN hooks
          /\ thread'[tracer.tid] = thread[tracer.tid]
          /\ tracer.tid \in Tids
        BY <1>1, <1>3, <2>1 DEF TracerInv, ShapeInv
    <2> QED
        BY <1>2, <2>1, <2>2 DEF TracerInv
<1>5. ExecInv'
    BY <1>1, <1>2 DEF ExecInv, Stopped
<1>6. RootInv'
    BY <1>1, FakefsAssumption DEF RootInv, Runs
<1>7. EndsAfterRoot'
    BY DEF EndsAfterRoot
<1> QED
    BY <1>4, <1>5, <1>6, <1>7
-----------------------------------------------------------------------------
(* Threads of the command                                                  *)

LEMMA ThreadSteps ==
    ASSUME Inv, tracer.at # "end", NEW t \in Tids,
           \/ \E call \in Asks[t] : Enter(t, call)
           \/ \E call \in Asks[t] : FastStat(t, call) \/ FastChown(t, call)
           \/ Backdoor(t) \/ ClearOverride(t)
           \/ Return(t) \/ ExitThread(t) \/ Continue(t)
           \/ \E stop \in {"signal", "group"} : Signal(t, stop)
    PROVE  (ThreadInv /\ TracerInv /\ ExecInv /\ RootInv /\ EndsAfterRoot)'
<1> USE DEF Inv
<1>1. Fits(thread[t], HookOf(t), seen[t], Mode(t)) /\ (InCall(thread[t]) => Watched(t))
    BY DEF ThreadInv, ThreadOK
<1>2. thread[t].at \in Runs => Mode(t) = "no"
    BY DEF TracerInv, Working, Mode, Runs
<1>3. UNCHANGED <<hooks, tracer>> => HookOf(t)' = HookOf(t) /\ Mode(t)' = Mode(t)
    BY DEF HookOf, Mode
<1>4. ASSUME NEW call \in Asks[t], Enter(t, call)
      PROVE  (ThreadInv /\ TracerInv /\ ExecInv /\ RootInv /\ EndsAfterRoot)'
    <2>1. /\ thread[t].at = "user" /\ UNCHANGED <<override, hooks, tracer>>
          /\ seen' = [seen EXCEPT ![t] = IF call.file = Nobody THEN {} ELSE {override[call.file]}]
          /\ seen = [s \in Tids |-> seen[s]]
        BY <1>4 DEF Enter, ShapeInv
    <2>2. /\ OnlyThread(t)
          /\ thread'[t].at = "stopped" /\ thread'[t].stop = "seccomp"
          /\ thread'[t].call = call /\ thread'[t].rax = Nobody
          /\ thread'[t].blocked = thread[t].blocked
        BY <1>4, EnterDoes
    <2>3. Watched(t)'
        BY <2>1, <2>2, FakefsAssumption DEF Watched, Known
    <2>4. Fits(thread'[t], HookOf(t)', seen'[t], Mode(t)')
        BY <1>1, <1>2, <1>3, <2>1, <2>2 DEF Fits, Outside, Stopping, Resting, Runs
    <2>5. ThreadInv'
        BY <2>1, <2>2, <2>3, <2>4, OthersFramed DEF ThreadOK
    <2> QED
        BY <2>1, <2>2, <2>5, MinorKeeps DEF Runs
<1>5. ASSUME NEW call \in Asks[t], FastStat(t, call) \/ FastChown(t, call)
      PROVE  (ThreadInv /\ TracerInv /\ ExecInv /\ RootInv /\ EndsAfterRoot)'
    <2>0. Checked(t, call)
        BY <1>5 DEF FastStat, FastChown
    <2>1. /\ thread[t].at = "user" /\ UNCHANGED <<override, hooks, tracer>>
          /\ seen' = [seen EXCEPT ![t] = {override[call.file]}]
          /\ seen = [s \in Tids |-> seen[s]]
        BY <2>0 DEF Checked, ShapeInv
    <2>2. /\ OnlyThread(t)
          /\ thread'[t].at = "checked" /\ thread'[t].call = call
          /\ thread'[t].blocked = thread[t].blocked
        BY <2>0, CheckedDoes
    <2>3. call.op = "chown" \/ (call.op = "stat" /\ Passes(call, seen'[t]))
        BY <1>5, <2>1 DEF FastStat, FastChown, NoOverride, Passes
    <2>4. Watched(t)'
        BY <2>1, <2>2, FakefsAssumption DEF Watched, Known
    <2>5. Fits(thread'[t], HookOf(t)', seen'[t], Mode(t)')
        BY <1>1, <2>1, <2>2, <2>3 DEF Fits, Outside
    <2>6. ThreadInv'
        BY <2>1, <2>2, <2>4, <2>5, OthersFramed DEF ThreadOK
    <2> QED
        BY <2>1, <2>2, <2>6, MinorKeeps DEF Runs
<1>6. CASE Backdoor(t) \/ ClearOverride(t)
    <2>1. /\ OnlyThread(t)
          /\ thread'[t].at = "user" /\ thread'[t].call = thread[t].call
          /\ thread'[t].blocked = thread[t].blocked
          /\ Backdoor(t) => thread'[t].rax = KernelResult(thread[t].call)
          /\ ClearOverride(t) => thread'[t].rax = Ok
        BY <1>6, LibraryDoes
    <2>2. /\ thread[t].at = "checked" /\ UNCHANGED <<hooks, tracer>>
          /\ Backdoor(t) => thread[t].call.op = "stat" /\ UNCHANGED <<override, seen>>
          /\ ClearOverride(t) => /\ thread[t].call.op = "chown"
                                 /\ SetOverride(Cleared(thread[t].call), Nobody)
        BY <1>6 DEF Backdoor, ClearOverride
    <2>3. /\ \A s \in Tids : seen[s] \subseteq seen'[s]
          /\ \A s \in Tids : \A g \in Files :
                 /\ thread[s].call.file = g /\ thread[s].at # "user"
                 /\ override[g] \in seen[s]
                 => override'[g] \in seen'[s]
        BY <1>6, <2>2, OverrideMoves
    <2>4. Watched(t) /\ (Passes(thread[t].call, seen[t]) \/ thread[t].call.op = "chown")
        BY <1>1, <2>2 DEF Fits, InCall
    <2>5. Truthful(thread'[t].call, thread'[t].rax, seen'[t])
        <3>1. CASE Backdoor(t)
            <4>1. /\ thread[t].call.op = "stat"
                  /\ thread[t].call.file \in Files /\ override[thread[t].call.file] \in seen[t]
                BY <2>2, <2>4, <3>1, Results DEF Watched, Known
            <4>2. Truthful(thread[t].call, KernelResult(thread[t].call), seen[t])
                BY <2>4, <4>1, KernelIsTruthful
            <4> QED
                BY <2>1, <2>2, <3>1, <4>2
        <3>2. CASE ClearOverride(t)
            BY <2>1, <2>2, <3>2 DEF Truthful
        <3> QED
            BY <1>6, <3>1, <3>2
    <2>6. Fits(thread'[t], HookOf(t)', seen'[t], Mode(t)')
        BY <1>1, <2>1, <2>2, <2>5 DEF Fits
    <2>7. ThreadInv'
        BY <2>1, <2>2, <2>3, <2>6, OthersFramed DEF ThreadOK, InCall
    <2> QED
        BY <2>1, <2>2, <2>7, MinorKeeps DEF Runs
<1>7. CASE Return(t)
    <2>1. /\ OnlyThread(t) /\ thread'[t].call = thread[t].call
          /\ thread[t].traced = TRUE => thread'[t].at = "stopped" /\ thread'[t].stop = "exit"
          /\ thread[t].traced = FALSE =>
                 /\ thread'[t].at = "user" /\ thread'[t].blocked = FALSE
                 /\ thread[t].blocked = FALSE => thread'[t].rax = KernelResult(thread[t].call)
        BY <1>7, ReturnDoes
    <2>2. thread[t].at = "call" /\ UNCHANGED <<override, seen, hooks, tracer>>
        BY <1>7 DEF Return
    <2>3. Watched(t) /\ thread[t].traced \in BOOLEAN
        BY <1>1, <2>2 DEF Fits, InCall
    <2>4. Watched(t)'
        BY <2>1, <2>2, <2>3 DEF Watched
    <2>5. CASE thread[t].traced = TRUE
        <3>1. Answers(HookOf(t), thread[t].call, seen[t])
            BY <1>1, <2>2, <2>5 DEF Fits
        <3>2. Fits(thread'[t], HookOf(t)', seen'[t], Mode(t)')
            BY <1>2, <1>3, <2>1, <2>2, <2>5, <3>1 DEF Fits, Outside, Stopping, Resting, Runs
        <3>3. ThreadInv'
            BY <2>1, <2>2, <2>4, <3>2, OthersFramed DEF ThreadOK
        <3> QED
            BY <2>1, <2>2, <2>5, <3>3, MinorKeeps DEF Runs
    <2>6. CASE thread[t].traced = FALSE
        <3>1. thread[t].blocked = FALSE /\ Passes(thread[t].call, seen[t])
            BY <1>1, <2>2, <2>6 DEF Fits
        <3>2. Truthful(thread[t].call, KernelResult(thread[t].call), seen[t])
            <4>1. \/ thread[t].call = Execve
                  \/ thread[t].call.file \in Files /\ override[thread[t].call.file] \in seen[t]
                BY <2>3, <3>1, Results DEF Watched, Known, Passes
            <4> QED
                BY <3>1, <4>1, KernelIsTruthful
        <3>3. Fits(thread'[t], HookOf(t)', seen'[t], Mode(t)')
            BY <2>1, <2>2, <2>6, <3>1, <3>2 DEF Fits
        <3>4. ThreadInv'
            BY <2>1, <2>2, <2>4, <3>3, OthersFramed DEF ThreadOK
        <3> QED
            BY <2>1, <2>2, <2>6, <3>4, MinorKeeps DEF Runs
    <2> QED
        BY <2>3, <2>5, <2>6
<1>8. CASE ExitThread(t)
    <2>1. /\ OnlyThread(t) /\ thread'[t].at = "dead" /\ thread'[t].blocked = FALSE
          /\ thread[t].at = "user" /\ UNCHANGED <<override, seen, hooks, tracer>>
        BY <1>8, ExitDoes DEF ExitThread
    <2>2. Fits(thread'[t], HookOf(t)', seen'[t], Mode(t)') /\ ~InCall(thread'[t])
        BY <2>1 DEF Fits, Outside, InCall
    <2>3. ThreadInv'
        BY <2>1, <2>2, OthersFramed DEF ThreadOK
    <2> QED
        BY <2>1, <2>3, MinorKeeps DEF Runs
<1>9. CASE Continue(t) \/ \E stop \in {"signal", "group"} : Signal(t, stop)
    <2>1. /\ OnlyThread(t)
          /\ thread[t].at \in {"user", "listening"}
          /\ thread'[t].at = "stopped" /\ thread'[t].stop \in {"start", "signal", "group"}
          /\ thread'[t].call = thread[t].call /\ thread'[t].rax = thread[t].rax
          /\ thread'[t].blocked = thread[t].blocked
        BY <1>9, SignalDoes
    <2>2. /\ UNCHANGED <<override, seen, hooks, tracer>>
          /\ thread[t].at = "listening" => tracer.at # "start"
        BY <1>9 DEF Continue, Signal
    <2>3. Fits(thread'[t], HookOf(t)', seen'[t], Mode(t)') /\ ~InCall(thread'[t])
        BY <1>1, <2>1, <2>2 DEF Fits, Outside, InCall, Stopping, Resting
    <2>4. ThreadInv'
        BY <2>1, <2>2, <2>3, OthersFramed DEF ThreadOK
    <2> QED
        BY <2>1, <2>2, <2>4, MinorKeeps DEF Runs
<1> QED
    BY <1>4, <1>5, <1>6, <1>7, <1>8, <1>9
LEMMA CloneStep ==
    ASSUME Inv, tracer.at # "end", NEW t \in Tids, NEW child \in Tids, Clone(t, child)
    PROVE  (ThreadInv /\ TracerInv /\ ExecInv /\ RootInv /\ EndsAfterRoot)'
<1> USE DEF Inv
<1>1. /\ thread[t].at = "user" /\ thread[child].at = "none"
      /\ Process[child] \in {child, Process[t]}
      /\ UNCHANGED <<override, seen, hooks, tracer>>
    BY DEF Clone
<1>2. /\ t # child
      /\ \A s \in Tids \ {t, child} : thread'[s] = thread[s]
      /\ thread'[t].at = "stopped" /\ thread'[t].stop = "clone"
      /\ thread'[t].call = thread[t].call /\ thread'[t].rax = thread[t].rax
      /\ thread'[t].blocked = thread[t].blocked
      /\ thread'[child].at = "stopped" /\ thread'[child].stop = "start"
      /\ thread'[child].rax = thread[child].rax
      /\ thread'[child].blocked = thread[child].blocked
    BY CloneDoes
<1>3. \A s \in Tids : HookOf(s)' = HookOf(s) /\ Mode(s)' = Mode(s)
    BY <1>1 DEF HookOf, Mode
<1>4. ThreadInv'
    <2>1. Fits(thread[t], HookOf(t), seen[t], Mode(t))
        BY DEF ThreadInv, ThreadOK
    <2>2. ThreadOK(t)'
        <3>1. Fits(thread'[t], HookOf(t)', seen'[t], Mode(t)')
            BY <1>1, <1>2, <2>1 DEF Fits, Outside, Stopping, Resting
        <3> QED
            BY <1>2, <3>1 DEF ThreadOK, InCall
    <2>3. Fits(thread[child], HookOf(child), seen[child], Mode(child))
        BY DEF ThreadInv, ThreadOK
    <2>4. ThreadOK(child)'
        <3>1. Fits(thread'[child], HookOf(child)', seen'[child], Mode(child)')
            BY <1>1, <1>2, <2>3 DEF Fits, Outside, Stopping, Resting
        <3> QED
            BY <1>2, <3>1 DEF ThreadOK, InCall
    <2>5. ASSUME NEW s \in Tids, s \notin {t, child} PROVE ThreadOK(s)'
        BY <1>1, <1>2, <1>3, <2>5, Framed
    <2> QED
        BY <2>2, <2>4, <2>5 DEF ThreadInv
<1>5. \A s \in Tids : s # t /\ Alone(s) => Alone(s)'
    BY <1>1, <1>2 DEF Alone, Siblings
<1>6. tracer.at \in Working =>
          /\ tracer.tid # t /\ tracer.tid # child /\ tracer.tid \in Tids
          /\ thread'[tracer.tid] = thread[tracer.tid]
    BY <1>1, <1>2 DEF TracerInv, ShapeInv
<1>7. TracerInv'
    <2>1. SUFFICES ASSUME tracer.at \in Working PROVE TracerInv'
        BY <1>1 DEF TracerInv
    <2> QED
        BY <1>1, <1>5, <1>6, <2>1 DEF TracerInv
<1>8. ExecInv'
    BY <1>1, <1>2, <1>5 DEF ExecInv, Stopped
<1>9. RootInv'
    BY <1>1, <1>2, FakefsAssumption DEF RootInv
<1> QED
    BY <1>1, <1>4, <1>7, <1>8, <1>9 DEF EndsAfterRoot

LEMMA ExecStep ==
    ASSUME Inv, tracer.at # "end", NEW t \in Tids, Exec(t)
    PROVE  (ThreadInv /\ TracerInv /\ ExecInv /\ RootInv /\ EndsAfterRoot)'
<1> USE DEF Inv
<1> DEFINE p == Process[t]
<1>1. /\ thread[t].at = "user" /\ UNCHANGED <<override, seen, hooks, tracer>>
      /\ \A s \in Siblings(t) \ {p} : thread[s].at = "none"
    BY DEF Exec
<1>2. /\ p \in Tids /\ Process[p] = p
      /\ \A s \in Tids \ {t, p} : thread'[s] = thread[s]
      /\ t # p => thread'[t].at = "none" /\ thread'[t].rax = Nobody /\ thread'[t].blocked = FALSE
      /\ thread'[p].at = "stopped" /\ thread'[p].stop = "exec"
      /\ thread'[p].call = Execve
    BY ExecDoes
<1>3. \A s \in Tids : HookOf(s)' = HookOf(s) /\ Mode(s)' = Mode(s)
    BY <1>1 DEF HookOf, Mode
<1> HIDE DEF p
<1>4. tracer.at \in Working => tracer.tid # t /\ tracer.tid \in Tids
    BY <1>1 DEF TracerInv, ShapeInv
<1>5. ThreadInv'
    <2>1. ThreadOK(p)'
        <3>1. Mode(p) = "syscall" => HookOf(p) # Nobody
            BY DEF Mode, HookOf, TracerInv, Working
        <3>2. Fits(thread'[p], HookOf(p)', seen'[p], Mode(p)')
            BY <1>2, <1>3, <3>1 DEF Fits, Outside, Stopping, Resting
        <3>3. Watched(p)'
            BY <1>2, Results, FakefsAssumption DEF Watched, Known
        <3> QED
            BY <3>2, <3>3 DEF ThreadOK
    <2>2. CASE t # p
        <3>1. Fits(thread'[t], HookOf(t)', seen'[t], Mode(t)')
            BY <1>2, <2>2 DEF Fits, Outside
        <3> QED
            <4>1. ThreadOK(t)'
                BY <1>2, <2>2, <3>1 DEF ThreadOK, InCall
            <4>2. ASSUME NEW s \in Tids, s \notin {t, p} PROVE ThreadOK(s)'
                BY <1>1, <1>2, <1>3, <4>2, Framed
            <4> QED
                BY <2>1, <4>1, <4>2 DEF ThreadInv
    <2>3. CASE t = p
        <3>1. ASSUME NEW s \in Tids, s # p PROVE ThreadOK(s)'
            BY <1>1, <1>2, <1>3, <2>3, <3>1, Framed
        <3> QED
            BY <2>1, <3>1 DEF ThreadInv
    <2> QED
        BY <2>2, <2>3
<1>6. \A s \in Tids : s # p /\ Alone(s) => Alone(s)'
    BY <1>2 DEF Alone, Siblings
<1>7. Alone(p)'
    BY <1>1, <1>2 DEF Alone, Siblings, p
<1>8. TracerInv'
    <2>1. SUFFICES ASSUME tracer.at \in Working PROVE TracerInv'
        BY <1>1 DEF TracerInv
    <2>2. CASE tracer.tid = p
        BY <1>1, <1>2, <1>7, <2>1, <2>2 DEF TracerInv
    <2>3. CASE tracer.tid # p
        <3>1. thread'[tracer.tid] = thread[tracer.tid]
            BY <1>2, <1>4, <2>1, <2>3
        <3> QED
            BY <1>1, <1>4, <1>6, <2>1, <2>3, <3>1 DEF TracerInv
    <2> QED
        BY <2>2, <2>3
<1>9. ExecInv'
    BY <1>1, <1>2, <1>6, <1>7 DEF ExecInv, Stopped
<1>10. RootInv'
    <2>1. tracer.at # "start"
        BY <1>1 DEF RootInv
    <2>2. t = Root => p = t
        BY FakefsAssumption DEF p
    <2> QED
        BY <1>1, <1>2, <2>1, <2>2, FakefsAssumption DEF RootInv
<1> QED
    BY <1>1, <1>5, <1>8, <1>9, <1>10 DEF EndsAfterRoot

LEMMA DieStep ==
    ASSUME Inv, tracer.at # "end", NEW p, Die(p)
    PROVE  (ThreadInv /\ TracerInv /\ ExecInv /\ RootInv /\ EndsAfterRoot)'
<1> USE DEF Inv
<1>1. UNCHANGED <<override, seen, hooks, tracer>>
    BY DEF Die
<1>2. \A s \in Tids : \/ thread'[s] = thread[s]
                      \/ thread'[s].at = "dead" /\ thread'[s].blocked = FALSE /\ thread[s].at # "none"
    BY DieDoes
<1>3. \A s \in Tids : HookOf(s)' = HookOf(s) /\ Mode(s)' = Mode(s)
    BY <1>1 DEF HookOf, Mode
<1>4. ThreadInv'
    <2>1. ASSUME NEW s \in Tids, thread'[s] = thread[s] PROVE ThreadOK(s)'
        BY <1>1, <1>3, <2>1, Framed
    <2>2. ASSUME NEW s \in Tids, thread'[s].at = "dead", thread'[s].blocked = FALSE PROVE ThreadOK(s)'
        BY <2>2 DEF ThreadOK, Fits, Outside, InCall
    <2> QED
        BY <1>2, <2>1, <2>2 DEF ThreadInv
<1>5. \A s \in Tids : Alone(s) => Alone(s)'
    BY <1>2 DEF Alone, Siblings
<1>6. TracerInv'
    <2>1. SUFFICES ASSUME tracer.at \in Working PROVE TracerInv'
        BY <1>1 DEF TracerInv
    <2>2. tracer.tid \in Tids
        BY DEF ShapeInv
    <2> QED
        BY <1>1, <1>2, <1>5, <2>1, <2>2 DEF TracerInv
<1>7. ExecInv'
    BY <1>2, <1>5 DEF ExecInv, Stopped
<1>8. RootInv'
    BY <1>1, <1>2, FakefsAssumption DEF RootInv
<1> QED
    BY <1>1, <1>4, <1>6, <1>7, <1>8 DEF EndsAfterRoot
-----------------------------------------------------------------------------
(* The tracer                                                              *)

LEMMA StartStep ==
    ASSUME Inv, StartTracee
    PROVE  (ThreadInv /\ TracerInv /\ ExecInv /\ RootInv /\ EndsAfterRoot)'
<1> USE DEF Inv
<1>1. tracer.at = "start" /\ tracer' = Idle /\ UNCHANGED <<override, seen, hooks>> /\ Root \in Tids
    BY FakefsAssumption DEF StartTracee
<1>2. /\ OnlyThread(Root)
      /\ thread'[Root].at = "stopped" /\ thread'[Root].stop \in {"start", "group"}
      /\ thread'[Root].call = thread[Root].call /\ thread'[Root].rax = thread[Root].rax
      /\ thread'[Root].blocked = thread[Root].blocked
      /\ thread[Root].at = "listening"
    BY StartDoes
<1>3. tracer'.at = "wait"
    BY <1>1, TracerMoves
<1>4. \A s \in Tids : HookOf(s)' = HookOf(s) /\ Mode(s)' = Mode(s)
    BY <1>1, <1>3 DEF HookOf, Mode
<1>5. ThreadInv'
    <2>1. Fits(thread[Root], HookOf(Root), seen[Root], Mode(Root))
        BY <1>1 DEF ThreadInv, ThreadOK
    <2>2. Fits(thread'[Root], HookOf(Root)', seen'[Root], Mode(Root)')
        BY <1>1, <1>2, <2>1 DEF Fits, Outside, Stopping, Resting
    <2>3. ThreadOK(Root)'
        BY <1>2, <2>2 DEF ThreadOK, InCall
    <2>4. ASSUME NEW s \in Tids, s # Root PROVE ThreadOK(s)'
        <3>1. thread'[s] = thread[s]
            BY <1>2, <2>4 DEF OnlyThread
        <3> QED
            BY <1>1, <1>4, <3>1, Framed
    <2> QED
        BY <2>3, <2>4 DEF ThreadInv
<1>6. TracerInv'
    BY <1>3 DEF TracerInv, Working
<1>7. \A s \in Tids \ {Root} : thread'[s].at = "none"
    BY <1>1, <1>2 DEF RootInv, OnlyThread
<1>8. ExecInv' /\ RootInv'
    BY <1>2, <1>3, <1>7 DEF ExecInv, RootInv, Stopped
<1> QED
    BY <1>3, <1>5, <1>6, <1>8 DEF EndsAfterRoot

LEMMA FailsStep ==
    ASSUME Inv, StartFails \/ WaitFails
    PROVE  (ThreadInv /\ TracerInv /\ ExecInv /\ RootInv /\ EndsAfterRoot)'
<1> USE DEF Inv
<1>1. /\ UNCHANGED <<override, thread, seen, hooks>> /\ End("failed")
      /\ \/ tracer.at = "start" /\ thread[Root].at = "dead"
         \/ tracer.at = "wait" /\ \A t \in Tids : thread[t].at = "none"
    BY DEF StartFails, WaitFails, Fails
<1>2. tracer'.at = "end"
    BY <1>1, TracerMoves
<1>3. \A s \in Tids : HookOf(s)' = HookOf(s) /\ Mode(s)' = Mode(s)
    BY <1>1, <1>2 DEF HookOf, Mode
<1>4. ThreadInv'
    <2>1. ASSUME NEW s \in Tids PROVE ThreadOK(s)'
        BY <1>1, <1>3, Framed
    <2> QED
        BY <2>1 DEF ThreadInv
<1>5. TracerInv'
    BY <1>2 DEF TracerInv, Working
<1>6. ExecInv'
    BY <1>1 DEF ExecInv, Stopped, Alone
<1>7. RootInv'
    BY <1>1, <1>2 DEF RootInv
<1>8. EndsAfterRoot'
    BY <1>1 DEF EndsAfterRoot, RootInv, Alive
<1> QED
    BY <1>4, <1>5, <1>6, <1>7, <1>8

LEMMA WaitStep ==
    ASSUME Inv, NEW t \in Tids, Wait(t)
    PROVE  (ThreadInv /\ TracerInv /\ ExecInv /\ RootInv /\ EndsAfterRoot)'
<1> USE DEF Inv
<1>1. /\ tracer.at = "wait" /\ thread[t].at = "stopped"
      /\ hooks' = Put(t) /\ UNCHANGED <<override, seen>>
      /\ tracer' = [Idle EXCEPT !.at = "stop", !.tid = t, !.stop = thread[t].stop]
    BY DEF Wait, Stopped
<1>2. tracer'.at = "stop" /\ tracer'.tid = t /\ tracer'.stop = thread[t].stop
    BY <1>1, TracerMoves
<1>3. /\ OnlyThread(t)
      /\ thread'[t].at = "stopped" /\ thread'[t].stop = thread[t].stop
      /\ thread'[t].call = thread[t].call /\ thread'[t].rax = thread[t].rax
      /\ thread'[t].blocked = thread[t].blocked
    BY <1>1, WaitDoes
<1>4. /\ DOMAIN hooks' = DOMAIN hooks \union {t}
      /\ \A s \in DOMAIN hooks : hooks'[s] = hooks[s]
      /\ t \notin DOMAIN hooks => hooks'[t] = Nobody
    BY <1>1, HookMoves
<1>5. \A s \in Tids : HookOf(s)' = HookOf(s) /\ Mode(s) = "no" /\ Mode(s)' = "no"
    BY <1>1, <1>2, <1>4 DEF HookOf, Mode
<1>6. Fits(thread[t], HookOf(t), seen[t], "no") /\ (InCall(thread[t]) => Watched(t))
    BY <1>5 DEF ThreadInv, ThreadOK
<1>7. ThreadInv'
    <2>1. Fits(thread'[t], HookOf(t)', seen'[t], Mode(t)')
        BY <1>1, <1>3, <1>5, <1>6 DEF Fits, Outside
    <2>2. ThreadOK(t)'
        BY <1>1, <1>3, <1>6, <2>1 DEF ThreadOK, InCall, Watched
    <2>3. ASSUME NEW s \in Tids, s # t PROVE ThreadOK(s)'
        <3>1. thread'[s] = thread[s]
            BY <1>3, <2>3 DEF OnlyThread
        <3> QED
            BY <1>1, <1>5, <3>1, Framed
    <2> QED
        BY <2>2, <2>3 DEF ThreadInv
<1>8. \A s \in Tids : thread'[s].at = thread[s].at /\ thread'[s].stop = thread[s].stop
    BY <1>1, <1>3 DEF OnlyThread
<1>9. \A s \in Tids : Alone(s) => Alone(s)'
    BY <1>8 DEF Alone, Siblings
<1>10. ExecInv'
    BY <1>8, <1>9 DEF ExecInv, Stopped
<1>11. TracerInv'
    <2>1. thread[t].stop = "exit" => hooks'[t] # Nobody
        BY <1>1, <1>4, <1>6 DEF Fits, Answers, HookOf
    <2>2. thread[t].stop = "exec" => Alone(t)'
        BY <1>1, <1>9 DEF ExecInv, Stopped
    <2> QED
        BY <1>2, <1>3, <1>4, <2>1, <2>2 DEF TracerInv
<1>12. RootInv'
    BY <1>2, <1>4, <1>8, FakefsAssumption DEF RootInv
<1> QED
    BY <1>2, <1>7, <1>10, <1>11, <1>12 DEF EndsAfterRoot

LEMMA WaitDeadStep ==
    ASSUME Inv, NEW t \in Tids, WaitDead(t)
    PROVE  (ThreadInv /\ TracerInv /\ ExecInv /\ RootInv /\ EndsAfterRoot)'
<1> USE DEF Inv
<1>1. /\ tracer.at = "wait" /\ thread[t].at = "dead"
      /\ t = Process[t] => \A s \in Siblings(t) : thread[s].at = "none"
      /\ thread' = [thread EXCEPT ![t] = Gone("none")]
      /\ Forget({t}) /\ UNCHANGED <<override, seen>>
      /\ IF LastOfRoot(t) THEN End("exit code") ELSE UNCHANGED tracer
    BY DEF WaitDead
<1>2. tracer'.at \in {"wait", "end"} /\ (tracer'.at = "end" => LastOfRoot(t))
    BY <1>1, TracerMoves
<1>3. /\ OnlyThread(t) /\ thread'[t].at = "none"
      /\ thread'[t].rax = Nobody /\ thread'[t].blocked = FALSE
    BY <1>1, ExitDoes
<1>4. DOMAIN hooks' = DOMAIN hooks \ {t} /\ \A s \in DOMAIN hooks' : hooks'[s] = hooks[s]
    BY <1>1, HookMoves
<1>5. \A s \in Tids : s # t => HookOf(s)' = HookOf(s) /\ Mode(s)' = Mode(s)
    BY <1>1, <1>2, <1>4 DEF HookOf, Mode
<1>6. \A s \in Tids : s # t => thread'[s] = thread[s]
    BY <1>3 DEF OnlyThread
<1>7. ThreadInv'
    <2>1. ThreadOK(t)'
        BY <1>3 DEF ThreadOK, Fits, Outside, InCall
    <2>2. ASSUME NEW s \in Tids, s # t PROVE ThreadOK(s)'
        BY <1>1, <1>5, <1>6, <2>2, Framed
    <2> QED
        BY <2>1, <2>2 DEF ThreadInv
<1>8. TracerInv'
    BY <1>2 DEF TracerInv, Working
<1>9. \A s \in Tids : Alone(s) => Alone(s)'
    BY <1>3, <1>6 DEF Alone, Siblings
<1>10. ExecInv'
    BY <1>3, <1>6, <1>9 DEF ExecInv, Stopped
<1>11. RootInv'
    <2>1. t = Root => \A s \in Tids \ {Root} : Process[s] = Root => thread'[s].at = "none"
        BY <1>1, <1>6, FakefsAssumption DEF Siblings
    <2> QED
        BY <1>2, <1>3, <1>4, <1>6, <2>1, FakefsAssumption DEF RootInv
<1>12. EndsAfterRoot'
    <2>1. SUFFICES ASSUME LastOfRoot(t) PROVE \A s \in Tids : Process[s] = Root => thread'[s].at = "none"
        BY <1>2 DEF EndsAfterRoot, Alive
    <2>2. Process[t] = Root /\ \A s \in Siblings(t) : s \notin DOMAIN hooks
        BY <2>1 DEF LastOfRoot
    <2>3. t = Root
        BY <1>1, <2>2, FakefsAssumption DEF Siblings, RootInv
    <2>4. \A s \in Siblings(t) : thread[s].at = "none"
        BY <1>1, <2>2, <2>3
    <2>5. \A s \in Tids : Process[s] = Root => s = t \/ s \in Siblings(t)
        BY <2>2 DEF Siblings
    <2> QED
        BY <1>3, <1>6, <2>4, <2>5
<1> QED
    BY <1>7, <1>8, <1>10, <1>11, <1>12
(* A step of the tracer between a stop and the end of its work on it       *)
LEMMA WorkKeeps ==
    ASSUME Inv, tracer.at \in {"stop", "fchown"},
           tracer'.at \in {"fchown", "resume"}, tracer'.tid = tracer.tid, tracer'.stop = tracer.stop,
           OnlyThread(tracer.tid),
           thread'[tracer.tid].at = thread[tracer.tid].at,
           thread'[tracer.tid].stop = thread[tracer.tid].stop,
           thread'[tracer.tid].call = thread[tracer.tid].call,
           DOMAIN hooks' = DOMAIN hooks,
           \A s \in DOMAIN hooks : s # tracer.tid => hooks'[s] = hooks[s],
           \A s \in Tids : seen[s] \subseteq seen'[s],
           \A s \in Tids : \A g \in Files :
               /\ thread[s].call.file = g /\ thread[s].at # "user"
               /\ override[g] \in seen[s]
               => override'[g] \in seen'[s],
           Fits(thread'[tracer.tid], HookOf(tracer.tid)', seen'[tracer.tid], Mode(tracer.tid)'),
           tracer'.at = "fchown" => /\ tracer.stop = "seccomp"
                                    /\ DOMAIN tracer'.read.call.owner = {"uid", "gid"}
                                    /\ \/ thread[tracer.tid].at # "stopped"
                                       \/ thread[tracer.tid].stop = "exec"
                                       \/ thread[tracer.tid].call.op = "chown",
           tracer'.at = "resume" => /\ tracer'.action # "no"
                                    /\ tracer'.action = "listen" => tracer.stop = "group"
                                    /\ tracer'.action = "syscall" => hooks'[tracer.tid] # Nobody
    PROVE  (ThreadInv /\ TracerInv /\ ExecInv /\ RootInv /\ EndsAfterRoot)'
<1> USE DEF Inv
<1> DEFINE t == tracer.tid
<1>1. /\ t \in Tids /\ t \in DOMAIN hooks
      /\ thread[t].at \in {"dead", "stopped"}
      /\ thread[t].at = "stopped" => thread[t].stop \in {tracer.stop, "exec"}
      /\ tracer.stop = "exec" => Alone(t)
    BY DEF TracerInv, ShapeInv, Working
<1>2. \A s \in Tids : s # t => thread'[s] = thread[s]
    BY DEF OnlyThread
<1>3. \A s \in Tids : s # t => HookOf(s)' = HookOf(s) /\ Mode(s)' = Mode(s)
    BY DEF HookOf, Mode
<1>4. ThreadInv'
    <2>1. ThreadOK(t)'
        <3>1. InCall(thread[t]) => Watched(t)
            BY <1>1 DEF ThreadInv, ThreadOK
        <3>2. InCall(thread'[t]) => Watched(t)'
            BY <1>1, <3>1 DEF InCall, Watched
        <3> QED
            BY <3>2 DEF ThreadOK
    <2>2. ASSUME NEW s \in Tids, s # t PROVE ThreadOK(s)'
        <3>1. thread'[s] = thread[s] /\ HookOf(s)' = HookOf(s) /\ Mode(s)' = Mode(s)
            BY <1>2, <1>3, <2>2
        <3>2. /\ seen[s] \subseteq seen'[s]
              /\ \A g \in Files : /\ thread[s].call.file = g /\ thread[s].at # "user"
                                  /\ override[g] \in seen[s]
                                  => override'[g] \in seen'[s]
            OBVIOUS
        <3> HIDE DEF Inv, t
        <3> QED
            BY <3>1, <3>2, Framed DEF Inv
    <2> QED
        BY <2>1, <2>2 DEF ThreadInv
<1>5. \A s \in Tids : thread'[s].at = thread[s].at /\ thread'[s].stop = thread[s].stop
    BY <1>2
<1>6. \A s \in Tids : Alone(s) => Alone(s)'
    BY <1>5 DEF Alone, Siblings
<1>7. ExecInv'
    BY <1>5, <1>6 DEF ExecInv, Stopped
<1>8. TracerInv'
    BY <1>1, <1>6 DEF TracerInv
<1>9. RootInv'
    BY <1>5, FakefsAssumption DEF RootInv
<1> QED
    BY <1>4, <1>7, <1>8, <1>9 DEF EndsAfterRoot

\* blockSyscallAndReturn
LEMMA BlockStep ==
    ASSUME Inv, tracer.at \in {"stop", "fchown"}, tracer.stop = "seccomp",
           NEW answer, Block(answer), answer # Nobody,
           \A s \in Tids : seen[s] \subseteq seen'[s],
           \A s \in Tids : \A g \in Files :
               /\ thread[s].call.file = g /\ thread[s].at # "user"
               /\ override[g] \in seen[s]
               => override'[g] \in seen'[s],
           /\ thread[tracer.tid].at = "stopped"
           /\ thread[tracer.tid].stop = "seccomp"
           => Truthful(thread[tracer.tid].call, answer, seen'[tracer.tid])
    PROVE  (ThreadInv /\ TracerInv /\ ExecInv /\ RootInv /\ EndsAfterRoot)'
<1> USE DEF Inv
<1> DEFINE t == tracer.tid
<1>1. /\ t \in Tids /\ t \in DOMAIN hooks
      /\ thread[t].at \in {"dead", "stopped"}
      /\ thread[t].at = "stopped" => thread[t].stop \in {"seccomp", "exec"}
    BY DEF TracerInv, ShapeInv, Working
<1>2. Hook(answer) /\ Resume("syscall")
    BY DEF Block
<1>3. /\ DOMAIN hooks' = DOMAIN hooks /\ hooks'[t] = answer
      /\ \A s \in DOMAIN hooks : s # t => hooks'[s] = hooks[s]
    BY <1>1, <1>2, HookMoves
<1>4. /\ tracer'.at = "resume" /\ tracer'.action = "syscall"
      /\ tracer'.tid = t /\ tracer'.stop = tracer.stop
    BY <1>2, TracerMoves
<1>5. /\ OnlyThread(t)
      /\ thread'[t].at = thread[t].at /\ thread'[t].stop = thread[t].stop
      /\ thread'[t].call = thread[t].call
      /\ thread[t].at # "stopped" => thread'[t] = thread[t]
    BY BlockDoes
<1>6. HookOf(t)' = answer /\ Mode(t)' = "syscall" /\ Mode(t) # "syscall"
    BY <1>1, <1>3, <1>4 DEF HookOf, Mode
<1>7. Fits(thread[t], HookOf(t), seen[t], Mode(t))
    BY <1>1 DEF ThreadInv, ThreadOK
<1>8. Fits(thread'[t], HookOf(t)', seen'[t], Mode(t)')
    BY <1>1, <1>5, <1>6, <1>7 DEF Fits, Outside, Answers, Stopping, Resting
<1> HIDE DEF Inv, t
<1> QED
    BY <1>3, <1>4, <1>5, <1>8, WorkKeeps DEF t

\* What does not touch overrides and threads
LEMMA PassStep ==
    ASSUME Inv, tracer.at = "stop", UNCHANGED <<override, thread, seen>>,
           NEW action, Resume(action), action \notin {"syscall", "no"},
           action = "listen" => tracer.stop = "group",
           UNCHANGED hooks \/ Hook(Nobody),
           thread[tracer.tid].at = "stopped" =>
               \/ thread[tracer.tid].stop \in Resting \union {"exec"}
               \/ /\ thread[tracer.tid].stop = "seccomp"
                  /\ Passes(thread[tracer.tid].call, seen[tracer.tid])
    PROVE  (ThreadInv /\ TracerInv /\ ExecInv /\ RootInv /\ EndsAfterRoot)'
<1> USE DEF Inv
<1> DEFINE t == tracer.tid
<1>1. t \in Tids /\ t \in DOMAIN hooks /\ thread[t].at \in {"dead", "stopped"}
    BY DEF TracerInv, ShapeInv, Working
<1>2. /\ DOMAIN hooks' = DOMAIN hooks
      /\ \A s \in DOMAIN hooks : s # t => hooks'[s] = hooks[s]
    BY <1>1, HookMoves
<1>3. /\ tracer'.at = "resume" /\ tracer'.action = action
      /\ tracer'.tid = t /\ tracer'.stop = tracer.stop
    BY TracerMoves
<1>4. OnlyThread(t)
    BY DEF OnlyThread, ShapeInv
<1>5. Mode(t)' = action /\ Mode(t) # "syscall"
    BY <1>1, <1>3 DEF Mode
<1>6. Fits(thread[t], HookOf(t), seen[t], Mode(t))
    BY <1>1 DEF ThreadInv, ThreadOK
<1>7. Fits(thread'[t], HookOf(t)', seen'[t], Mode(t)')
    BY <1>1, <1>5, <1>6 DEF Fits, Outside, Stopping, Resting
<1> HIDE DEF Inv, t
<1> QED
    BY <1>2, <1>3, <1>4, <1>7, WorkKeeps DEF t
LEMMA StopSteps ==
    ASSUME Inv,
           \/ SyscallEntry \/ FchownReads \/ FchownRefuses \/ FchownWrites
           \/ SyscallExit \/ NoRegisters \/ OtherStop
    PROVE  (ThreadInv /\ TracerInv /\ ExecInv /\ RootInv /\ EndsAfterRoot)'
<1> DEFINE t == tracer.tid
           Goal == (ThreadInv /\ TracerInv /\ ExecInv /\ RootInv /\ EndsAfterRoot)'
<1>1. tracer.at \in Working =>
          /\ t \in Tids /\ t \in DOMAIN hooks
          /\ thread[t].at \in {"dead", "stopped"}
          /\ thread[t].at = "stopped" => thread[t].stop \in {tracer.stop, "exec"}
    BY DEF Inv, TracerInv, ShapeInv
<1>2. /\ t \in Tids => Fits(thread[t], HookOf(t), seen[t], Mode(t))
      /\ t \in Tids => (InCall(thread[t]) => Watched(t))
    BY DEF Inv, ThreadInv, ThreadOK
<1>3. tracer.at = "stop" => Mode(t) = "no"
    BY DEF Mode
<1>4. ASSUME tracer.at = "stop", tracer.stop = "seccomp", thread[t].at = "stopped"
      PROVE  Watched(t)
    <2>1. t \in Tids /\ thread[t].stop \in {"seccomp", "exec"}
        BY <1>1, <1>4 DEF Working
    <2> HIDE DEF t
    <2>2. InCall(thread[t])
        BY <1>4, <2>1 DEF InCall
    <2> QED
        BY <1>2, <2>1, <2>2
<1>5. UNCHANGED <<override, seen>> =>
          /\ \A s \in Tids : seen[s] \subseteq seen'[s]
          /\ \A s \in Tids : \A g \in Files :
                 /\ thread[s].call.file = g /\ thread[s].at # "user"
                 /\ override[g] \in seen[s]
                 => override'[g] \in seen'[s]
    OBVIOUS
<1>6. CASE SyscallEntry
    <2>1. /\ tracer.at = "stop" /\ tracer.stop = "seccomp" /\ thread[t].at = "stopped"
          /\ thread[t].call.op # "chown" /\ UNCHANGED <<override, seen>>
          /\ IF Answer(thread[t].call) = Nobody THEN Pass ELSE Block(Answer(thread[t].call))
        BY <1>6 DEF SyscallEntry, Stops, Stopped, Asked
    <2>2. \/ thread[t].call.op = "probe"
          \/ thread[t].call = Execve
          \/ /\ thread[t].call.op \in {"stat", "list"} /\ thread[t].call.file \in Files
             /\ override[thread[t].call.file] \in seen[t]
        BY <1>4, <2>1 DEF Watched, Known
    <2>3. /\ Answer(thread[t].call) = Nobody => Passes(thread[t].call, seen[t])
          /\ Answer(thread[t].call) # Nobody => Answers(Answer(thread[t].call), thread[t].call, seen[t])
        BY <2>1, <2>2, TracerIsTruthful
    <2>4. CASE Answer(thread[t].call) = Nobody
        <3>1. Hook(Nobody) /\ Resume("cont") /\ UNCHANGED thread
            BY <2>1, <2>4 DEF Pass
        <3>2. thread[t].stop \in {"seccomp", "exec"} /\ Passes(thread[t].call, seen[t])
            BY <1>1, <2>1, <2>3, <2>4 DEF Working
        <3> HIDE DEF t
        <3> QED
            BY <2>1, <3>1, <3>2, PassStep DEF t
    <2>5. CASE Answer(thread[t].call) # Nobody
        <3>1. Block(Answer(thread[t].call)) /\ Truthful(thread[t].call, Answer(thread[t].call), seen'[t])
            BY <2>1, <2>3, <2>5 DEF Answers
        <3> QED
            BY <1>5, <2>1, <2>5, <3>1, BlockStep
    <2> QED
        BY <2>4, <2>5
<1>7. CASE FchownReads
    <2>1. /\ tracer.at = "stop" /\ tracer.stop = "seccomp" /\ thread[t].call.op = "chown"
          /\ UNCHANGED <<override, thread, seen, hooks>>
          /\ \E read : read.call = thread[t].call /\ tracer' = [tracer EXCEPT !.at = "fchown", !.read = read]
        BY <1>7 DEF FchownReads, Stops, Asked
    <2>2. /\ tracer'.at = "fchown" /\ tracer'.tid = t /\ tracer'.stop = tracer.stop
          /\ tracer'.read.call = thread[t].call
        BY <2>1, TracerMoves DEF Inv
    <2>3. OnlyThread(t)
        BY <2>1 DEF OnlyThread, Inv, ShapeInv
    <2>4. Fits(thread'[t], HookOf(t)', seen'[t], Mode(t)')
        BY <1>1, <1>2, <1>3, <2>1, <2>2 DEF Mode, HookOf, Working
    <2>5. DOMAIN tracer'.read.call.owner = {"uid", "gid"}
        <3>1. Watched(t)
            BY <1>4, <1>7, <2>1 DEF FchownReads, Stopped
        <3>2. thread[t].call # Execve
            BY <2>1, Results
        <3> QED
            BY <2>1, <2>2, <3>1, <3>2 DEF Watched, Known
    <2> HIDE DEF t
    <2> QED
        BY <1>5, <2>1, <2>2, <2>3, <2>4, <2>5, WorkKeeps DEF t
<1>8. CASE FchownRefuses
    <2> DEFINE call == thread[t].call
               answer == CASE ~Opens(call.file) -> Error("ENOENT")
                           [] Kind[call.file] = "unreadable" -> OverriddenStat(call.file)
                           [] OTHER -> IF With(call.owner, Original) = Original THEN Ok
                                       ELSE Error("ENOTRECOVERABLE")
    <2>1. /\ tracer.at = "stop" /\ tracer.stop = "seccomp"
          /\ call.op = "chown" /\ UNCHANGED <<override, seen>>
          /\ Block(answer)
        BY <1>8 DEF FchownRefuses, Stops, Asked
    <2>2. answer \in {Ok, Error("ENOENT"), Error("EACCES"), Error("ENOTRECOVERABLE")}
        BY DEF Opens, OverriddenStat
    <2> HIDE DEF answer
    <2>3. answer # Nobody /\ Truthful(call, answer, seen'[t])
        BY <2>1, <2>2, Results DEF Truthful
    <2> QED
        BY <1>5, <2>1, <2>3, BlockStep
<1>9. CASE FchownWrites
    <2>1. /\ tracer.at = "fchown" /\ Block(Ok)
          /\ \E f, data : SetOverride(f, data)
        BY <1>9 DEF FchownWrites
    <2>2. /\ \A s \in Tids : seen[s] \subseteq seen'[s]
          /\ \A s \in Tids : \A g \in Files :
                 /\ thread[s].call.file = g /\ thread[s].at # "user"
                 /\ override[g] \in seen[s]
                 => override'[g] \in seen'[s]
        BY <2>1, OverrideMoves DEF Inv
    <2>3. /\ tracer.stop = "seccomp"
          /\ thread[t].at = "stopped" /\ thread[t].stop = "seccomp" => thread[t].call.op = "chown"
        BY <2>1 DEF Inv, TracerInv, Working
    <2>4. /\ thread[t].at = "stopped" /\ thread[t].stop = "seccomp"
          => Truthful(thread[t].call, Ok, seen'[t])
        BY <2>3 DEF Truthful
    <2> QED
        BY <2>1, <2>2, <2>3, <2>4, Results, BlockStep
<1>10. CASE SyscallExit
    <2>1. hooks[t] # Nobody /\ tracer.at = "stop" /\ tracer.stop = "exit"
        BY <1>10 DEF SyscallExit, Stops, Inv, TracerInv, Working
    <2>2. AnswerIt /\ thread[t].at = "stopped"
        BY <1>10, <2>1 DEF SyscallExit, Stopped
    <2>3. Hook(Nobody) /\ Resume("cont") /\ UNCHANGED <<override, seen>>
        BY <2>2 DEF AnswerIt
    <2>4. /\ DOMAIN hooks' = DOMAIN hooks
          /\ \A s \in DOMAIN hooks : s # t => hooks'[s] = hooks[s]
        BY <2>3, HookMoves DEF Inv
    <2>5. /\ tracer'.at = "resume" /\ tracer'.action = "cont"
          /\ tracer'.tid = t /\ tracer'.stop = tracer.stop
        BY <2>3, TracerMoves DEF Inv
    <2>6. /\ OnlyThread(t)
          /\ thread'[t].at = thread[t].at /\ thread'[t].stop = thread[t].stop
          /\ thread'[t].call = thread[t].call /\ thread'[t].rax = hooks[t]
        BY <2>2, AnswerDoes DEF Inv
    <2>7. thread[t].stop \in {"exit", "exec"} /\ HookOf(t) = hooks[t] /\ Mode(t)' = "cont"
        BY <1>1, <2>1, <2>2, <2>5 DEF Working, HookOf, Mode
    <2>8. thread[t].stop = "exit" => Truthful(thread[t].call, hooks[t], seen[t])
        BY <1>1, <1>2, <1>3, <2>1, <2>2, <2>7 DEF Fits, Answers, Working
    <2>9. thread[t].stop = "exec" => thread[t].call = Execve
        BY <1>1, <1>2, <2>1, <2>2 DEF Fits, Working
    <2>10. Fits(thread'[t], HookOf(t)', seen'[t], Mode(t)')
        BY <2>2, <2>3, <2>6, <2>7, <2>8, <2>9 DEF Fits, Outside, Stopping, Resting
    <2> QED
        BY <1>5, <2>1, <2>3, <2>4, <2>5, <2>6, <2>10, WorkKeeps
<1>11. CASE NoRegisters
    <2>1. /\ tracer.at = "stop" /\ thread[t].at # "stopped"
          /\ Resume("cont") /\ UNCHANGED <<override, thread, seen, hooks>>
        BY <1>11 DEF NoRegisters, Stopped
    <2> QED
        BY <2>1, PassStep
<1>12. CASE OtherStop
    <2>1. /\ tracer.at = "stop" /\ tracer.stop \in Resting
          /\ UNCHANGED <<override, thread, seen, hooks>>
          /\ Resume(IF tracer.stop = "group" THEN "listen" ELSE "cont")
        BY <1>12 DEF OtherStop, Resting
    <2> DEFINE action == IF tracer.stop = "group" THEN "listen" ELSE "cont"
    <2>2. action \notin {"syscall", "no"} /\ (action = "listen" => tracer.stop = "group")
        OBVIOUS
    <2>3. thread[t].at = "stopped" => thread[t].stop \in Resting \union {"exec"}
        BY <1>1, <2>1 DEF Working
    <2> HIDE DEF action
    <2> QED
        BY <2>1, <2>2, <2>3, PassStep DEF action
<1> QED
    BY <1>6, <1>7, <1>8, <1>9, <1>10, <1>11, <1>12

LEMMA ExecStopStep ==
    ASSUME Inv, ExecStop
    PROVE  (ThreadInv /\ TracerInv /\ ExecInv /\ RootInv /\ EndsAfterRoot)'
<1> USE DEF Inv
<1>0. PICK t \in Tids : t = tracer.tid
    BY DEF ShapeInv
<1>1. /\ tracer.at = "stop" /\ tracer.stop = "exec" /\ t \in Tids
      /\ t \in DOMAIN hooks /\ thread[t].at \in {"dead", "stopped"}
      /\ thread[t].at = "stopped" => thread[t].stop = "exec"
      /\ t = Process[t] /\ \A s \in Siblings(t) : thread[s].at = "none"
    BY <1>0 DEF ExecStop, Stops, TracerInv, ShapeInv, Working, Alone
<1>2. Forget(Siblings(t)) /\ Resume("cont") /\ UNCHANGED <<override, thread, seen>>
    BY <1>0, <1>1 DEF ExecStop, ForgetSiblings
<1>3. /\ tracer'.at = "resume" /\ tracer'.action = "cont"
      /\ tracer'.tid = t /\ tracer'.stop = tracer.stop
    BY <1>0, <1>2, TracerMoves
<1>4. DOMAIN hooks' = DOMAIN hooks \ Siblings(t) /\ \A s \in DOMAIN hooks' : hooks'[s] = hooks[s]
    BY <1>2, HookMoves
<1>5. t \in DOMAIN hooks' /\ hooks'[t] = hooks[t]
    BY <1>1, <1>4 DEF Siblings
<1>6. ThreadInv'
    <2>1. ASSUME NEW s \in Siblings(t) PROVE ThreadOK(s)'
        <3>1. Fits(thread[s], HookOf(s), seen[s], Mode(s)) /\ thread[s].at = "none"
            BY <1>1, <2>1 DEF ThreadInv, ThreadOK, Siblings
        <3>2. Fits(thread'[s], HookOf(s)', seen'[s], Mode(s)')
            BY <1>2, <3>1 DEF Fits, Outside
        <3> QED
            BY <1>2, <3>1, <3>2 DEF ThreadOK, InCall
    <2>2. ThreadOK(t)'
        <3>1. Fits(thread[t], HookOf(t), seen[t], Mode(t)) /\ (InCall(thread[t]) => Watched(t))
            BY <1>1 DEF ThreadInv, ThreadOK
        <3>2. Mode(t)' = "cont"
            BY <1>3 DEF Mode
        <3>3. Fits(thread'[t], HookOf(t)', seen'[t], Mode(t)')
            BY <1>1, <1>2, <3>1, <3>2 DEF Fits, Outside, Stopping, Resting
        <3> QED
            BY <1>2, <3>1, <3>3 DEF ThreadOK, Watched
    <2>3. ASSUME NEW s \in Tids, s \notin Siblings(t), s # t PROVE ThreadOK(s)'
        <3>1. HookOf(s)' = HookOf(s) /\ Mode(s)' = Mode(s)
            BY <1>0, <1>1, <1>3, <1>4, <2>3 DEF HookOf, Mode
        <3> QED
            BY <1>2, <3>1, Framed
    <2> QED
        BY <2>1, <2>2, <2>3 DEF ThreadInv
<1>7. \A s : Alone(s) => Alone(s)'
    BY <1>2 DEF Alone
<1>8. ExecInv'
    BY <1>2, <1>7 DEF ExecInv, Stopped
<1>9. TracerInv'
    BY <1>1, <1>2, <1>3, <1>5, <1>7 DEF TracerInv, Alone
<1>10. RootInv'
    <2>1. Root \in DOMAIN hooks => Root \in DOMAIN hooks'
        BY <1>1, <1>4, FakefsAssumption DEF Siblings
    <2> QED
        BY <1>2, <1>3, <2>1 DEF RootInv
<1> QED
    BY <1>3, <1>6, <1>8, <1>9, <1>10 DEF EndsAfterRoot

LEMMA GoStep ==
    ASSUME Inv, Go
    PROVE  (ThreadInv /\ TracerInv /\ ExecInv /\ RootInv /\ EndsAfterRoot)'
<1> USE DEF Inv
<1>0. PICK t \in Tids : t = tracer.tid
    BY DEF ShapeInv
<1> DEFINE applies == /\ thread[t].at = "stopped"
                      /\ tracer.action = "listen" => thread[t].stop \in {"group", "start"}
<1>1. /\ tracer.at = "resume" /\ tracer' = Idle /\ UNCHANGED <<override, seen, hooks>>
    BY DEF Go
<1>2. /\ t \in Tids /\ t \in DOMAIN hooks
      /\ thread[t].at \in {"dead", "stopped"}
      /\ thread[t].at = "stopped" => thread[t].stop \in {tracer.stop, "exec"}
      /\ tracer.action = "listen" => tracer.stop = "group"
      /\ tracer.action # "no"
    BY <1>0, <1>1 DEF TracerInv, ShapeInv, Working
<1>3. tracer'.at = "wait"
    BY <1>1, TracerMoves
<1>4. /\ ~applies => thread' = thread
      /\ applies => OnlyThread(t) /\ thread'[t] = Resumed(t, tracer.action)
    BY <1>0, GoDoes
<1>5. \A s \in Tids : HookOf(s)' = HookOf(s) /\ Mode(s)' = "no" /\ (s # t => Mode(s) = "no")
    BY <1>0, <1>1, <1>3 DEF HookOf, Mode
<1>6. Mode(t) = tracer.action
    BY <1>0, <1>1 DEF Mode
<1>7. Fits(thread[t], HookOf(t), seen[t], tracer.action) /\ (InCall(thread[t]) => Watched(t))
    BY <1>2, <1>6 DEF ThreadInv, ThreadOK
<1>8. TracerInv' /\ EndsAfterRoot'
    BY <1>3 DEF TracerInv, Working, EndsAfterRoot
<1>9. CASE ~applies
    <2>1. thread' = thread
        BY <1>4, <1>9
    <2>2. thread[t].at = "dead" \/ (thread[t].at = "stopped" /\ thread[t].stop = "exec" /\ tracer.action = "listen")
        BY <1>2, <1>9
    <2>3. ThreadOK(t)'
        <3>1. Fits(thread'[t], HookOf(t)', seen'[t], Mode(t)')
            BY <1>2, <1>5, <1>7, <2>1, <2>2 DEF Fits, Outside, Stopping, Resting
        <3> QED
            BY <1>1, <1>7, <2>1, <3>1 DEF ThreadOK, Watched
    <2>4. ASSUME NEW s \in Tids, s # t PROVE ThreadOK(s)'
        BY <1>1, <1>5, <2>1, <2>4, Framed
    <2>5. ThreadInv'
        BY <2>3, <2>4 DEF ThreadInv
    <2>6. ExecInv' /\ RootInv'
        BY <1>1, <1>3, <2>1 DEF ExecInv, RootInv, Stopped, Alone
    <2> QED
        BY <1>8, <2>5, <2>6
<1>10. CASE applies
    <2> DEFINE r == Resumed(t, tracer.action)
    <2>1. thread[t].at = "stopped" /\ OnlyThread(t) /\ thread'[t] = r
        BY <1>4, <1>10
    <2>2. DOMAIN thread[t] = Fields
        BY <1>2 DEF ShapeInv
    <2> HIDE DEF Inv, applies
    <2>3a. r.stop = thread[t].stop /\ r.call = thread[t].call /\ r.rax = thread[t].rax
        BY <2>2, ResumedShape
    <2>3b. tracer.action = "listen" => r.at = "listening" /\ r.blocked = thread[t].blocked
        BY <2>2, ResumedToListen
    <2>3c. tracer.action # "listen" =>
              /\ r.at = IF thread[t].stop \in {"seccomp", "exec"} THEN "call" ELSE "user"
              /\ r.traced = (tracer.action = "syscall")
              /\ r.blocked = (thread[t].blocked /\ thread[t].stop = "seccomp")
        BY <2>2, ResumedToGo
    <2> HIDE DEF r
    <2>4. Fits(r, HookOf(t), seen[t], "no")
        <3>1. CASE tracer.action = "listen"
            <4>1. thread[t].stop \in Resting /\ r.at = "listening"
                BY <1>10, <2>3a, <2>3b, <2>3c, <3>1 DEF Resting, applies
            <4> QED
                BY <1>7, <2>1, <2>3a, <2>3b, <3>1, <4>1 DEF Fits, Outside
        <3>2. CASE tracer.action # "listen" /\ thread[t].stop \in {"seccomp", "exec"}
            <4>1. /\ r.at = "call" /\ r.traced \in BOOLEAN
                  /\ r.traced = TRUE <=> tracer.action = "syscall"
                  /\ thread[t].stop # "seccomp" => r.blocked = FALSE
                  /\ thread[t].blocked = FALSE => r.blocked = FALSE
                BY <2>3a, <2>3b, <2>3c, <3>2
            <4>2. CASE thread[t].stop = "seccomp"
                BY <1>2, <1>7, <2>1, <2>3a, <2>3b, <2>3c, <3>2, <4>1, <4>2 DEF Fits, Outside
            <4>3. CASE thread[t].stop = "exec"
                <5>1. thread[t].call = Execve
                    BY <1>7, <2>1, <4>3 DEF Fits
                <5>2. Passes(r.call, seen[t])
                    BY <2>3a, <2>3b, <2>3c, <5>1 DEF Passes
                <5>3. tracer.action = "syscall" => Answers(HookOf(t), r.call, seen[t])
                    BY <1>7, <2>1, <2>3a, <2>3b, <2>3c, <4>3, <5>1, Results DEF Fits, Answers, Truthful
                <5> QED
                    BY <2>3a, <2>3b, <2>3c, <4>1, <4>3, <5>2, <5>3 DEF Fits, Outside
            <4> QED
                BY <3>2, <4>2, <4>3
        <3>3. CASE tracer.action # "listen" /\ thread[t].stop \notin {"seccomp", "exec"}
            <4>1. r.at = "user" /\ r.blocked = FALSE
                BY <2>3a, <2>3b, <2>3c, <3>3
            <4>2. Outside(thread[t], tracer.action)
                BY <1>2, <1>7, <2>1, <3>3 DEF Fits, Stopping, Outside, Resting
            <4> QED
                BY <1>7, <2>3a, <2>3b, <2>3c, <4>1, <4>2 DEF Fits, Outside
        <3> QED
            BY <3>1, <3>2, <3>3
    <2>5. ThreadOK(t)'
        <3>1. Fits(thread'[t], HookOf(t)', seen'[t], Mode(t)')
            BY <1>1, <1>2, <1>5, <2>1, <2>4
        <3>2. InCall(thread'[t]) => InCall(thread[t])
            BY <2>1, <2>3a, <2>3b, <2>3c DEF InCall
        <3> QED
            BY <1>1, <1>7, <2>1, <2>3a, <2>3b, <2>3c, <3>1, <3>2 DEF ThreadOK, Watched
    <2>6. \A s \in Tids : s # t => thread'[s] = thread[s]
        BY <2>1 DEF OnlyThread
    <2>7. ASSUME NEW s \in Tids, s # t PROVE ThreadOK(s)'
        BY <1>1, <1>5, <2>6, <2>7, Framed DEF Inv
    <2>8. ThreadInv'
        BY <2>5, <2>7 DEF ThreadInv
    <2>9. thread'[t].at \in {"listening", "call", "user"}
        BY <2>1, <2>3a, <2>3b, <2>3c
    <2>10. \A s \in Tids : Alone(s) => Alone(s)'
        BY <2>1, <2>6 DEF Alone, Siblings
    <2>11. ExecInv'
        BY <2>6, <2>9, <2>10 DEF Inv, ExecInv, Stopped
    <2>12. RootInv'
        BY <1>1, <1>2, <1>3, <2>1, <2>6, FakefsAssumption DEF Inv, RootInv
    <2> QED
        BY <1>8, <2>8, <2>11, <2>12
<1> QED
    BY <1>9, <1>10
-----------------------------------------------------------------------------
(* The theorems                                                            *)

LEMMA StepPhase == ShapeInv /\ PhaseInv /\ [Next]_vars => PhaseInv'
<1> SUFFICES ASSUME ShapeInv, PhaseInv, [Next]_vars PROVE PhaseInv'
    OBVIOUS
<1>1. UNCHANGED tracer => PhaseInv'
    BY DEF PhaseInv
<1>2. ASSUME NEW t \in Tids, Tracee(t) PROVE UNCHANGED tracer
    BY <1>2 DEF Tracee, Library, Clone, Enter, Exec, ExitThread, Signal, Continue, Return,
                FastStat, FastChown, Checked, Backdoor, ClearOverride
<1>3. \/ tracer' = Idle \/ UNCHANGED tracer
      \/ \E how : End(how)
      \/ \E action : Resume(action)
      \/ \E read : tracer' = [tracer EXCEPT !.at = "fchown", !.read = read]
      \/ \E t, stop : tracer' = [Idle EXCEPT !.at = "stop", !.tid = t, !.stop = stop]
    <2>1. Tracer => \/ tracer' = Idle \/ UNCHANGED tracer
                    \/ \E how : End(how)
                    \/ \E action : Resume(action)
                    \/ \E read : tracer' = [tracer EXCEPT !.at = "fchown", !.read = read]
                    \/ \E t, stop : tracer' = [Idle EXCEPT !.at = "stop", !.tid = t, !.stop = stop]
        BY DEF Tracer, StartTracee, StartFails, WaitFails, Fails, Wait, WaitDead, SyscallEntry,
               Pass, Block, FchownReads, FchownRefuses, FchownWrites, SyscallExit, AnswerIt,
               NoRegisters, ExecStop, ForgetSiblings, OtherStop, Go
    <2> QED
        BY <1>2, <2>1 DEF Next, Die, Ended, vars
<1> QED
    BY <1>1, <1>3, TracerMoves DEF PhaseInv

LEMMA InitInv == Init => Inv
<1> SUFFICES ASSUME Init PROVE Inv
    OBVIOUS
<1>1. ShapeInv
    BY FakefsAssumption DEF Init, ShapeInv, Unborn, Idle, Fields
<1>2. /\ tracer.at = "start" /\ hooks = << >>
      /\ \A t \in Tids : /\ thread[t].at = IF t = Root THEN "listening" ELSE "none"
                         /\ thread[t].rax = Nobody /\ thread[t].blocked = FALSE
    BY DEF Init, Unborn, Idle
<1>3. ThreadInv
    BY <1>2 DEF ThreadInv, ThreadOK, Fits, Outside, InCall
<1>4. PhaseInv /\ TracerInv /\ ExecInv /\ RootInv /\ EndsAfterRoot
    BY <1>2, FakefsAssumption DEF PhaseInv, TracerInv, Working, ExecInv, Stopped, RootInv, EndsAfterRoot
<1> QED
    BY <1>1, <1>3, <1>4 DEF Inv

LEMMA StepInv == Inv /\ [Next]_vars => Inv'
<1> SUFFICES ASSUME Inv, [Next]_vars PROVE Inv'
    OBVIOUS
<1> DEFINE Kept == (ThreadInv /\ TracerInv /\ ExecInv /\ RootInv /\ EndsAfterRoot)'
<1>1. ShapeInv' /\ PhaseInv'
    BY StepShape, StepPhase DEF Inv
<1>2. UNCHANGED vars => Kept
    BY DEF Inv, vars, ThreadInv, ThreadOK, Watched, HookOf, Mode, TracerInv, ExecInv, Stopped,
           Alone, RootInv, EndsAfterRoot, Alive
<1>3. ASSUME NEW t \in Tids, tracer.at # "end", Tracee(t) PROVE Kept
    <2>1. ASSUME NEW child \in Tids, Clone(t, child) PROVE Kept
        BY <1>3, <2>1, CloneStep
    <2>2. Exec(t) => Kept
        BY <1>3, ExecStep
    <2>3. \/ \E call \in Asks[t] : Enter(t, call)
          \/ \E call \in Asks[t] : FastStat(t, call) \/ FastChown(t, call)
          \/ Backdoor(t) \/ ClearOverride(t)
          \/ Return(t) \/ ExitThread(t) \/ Continue(t)
          \/ \E stop \in {"signal", "group"} : Signal(t, stop)
          => Kept
        BY <1>3, ThreadSteps
    <2> QED
        BY <1>3, <2>1, <2>2, <2>3 DEF Tracee, Library
<1>4. ASSUME NEW p \in Leaders, tracer.at # "end", Die(p) PROVE Kept
    BY <1>4, DieStep
<1>5. Tracer => Kept
    <2>1. ASSUME NEW t \in Tids, Wait(t) \/ WaitDead(t) PROVE Kept
        BY <2>1, WaitStep, WaitDeadStep
    <2>2. StartTracee \/ StartFails \/ WaitFails => Kept
        BY StartStep, FailsStep
    <2>3. SyscallEntry \/ FchownReads \/ FchownRefuses \/ FchownWrites
          \/ SyscallExit \/ NoRegisters \/ OtherStop => Kept
        BY StopSteps
    <2>4. ExecStop \/ Go => Kept
        BY ExecStopStep, GoStep
    <2> QED
        BY <2>1, <2>2, <2>3, <2>4 DEF Tracer
<1>6. Ended => UNCHANGED vars
    BY DEF Ended
<1> HIDE DEF Kept
<1>7. Kept
    BY <1>2, <1>3, <1>4, <1>5, <1>6 DEF Next
<1> QED
    BY <1>1, <1>7 DEF Kept, Inv

(* The inductive invariant: what each thread, the hook kept for it and the *)
(* step the tracer is at have to agree on                                  *)
THEOREM Invariance == Spec => []Inv
<1> QED
    BY InitInv, StepInv, PTL DEF Spec

(* What a program gets from a system call is what the call could have      *)
(* found of its own file while it ran, for any threads and any schedule    *)
THEOREM ProgramsAreNotFooled == Spec => []AnswersAreTruthful
<1>1. Inv => AnswersAreTruthful
    BY DEF Inv, ThreadInv, ThreadOK, Fits, Outside, AnswersAreTruthful
<1> QED
    BY <1>1, Invariance, PTL

(* fakefs outlives the command: at its end no thread of it is left         *)
THEOREM OutlivesTheCommand == Spec => []EndsAfterRoot
<1>1. Inv => EndsAfterRoot
    BY DEF Inv
<1> QED
    BY <1>1, Invariance, PTL

(* The states of threads and what the tracer keeps of them fit together    *)
THEOREM TypeCorrect == Spec => []TypeOK
<1>1. Inv => TypeOK
    <2> SUFFICES ASSUME Inv PROVE TypeOK
        OBVIOUS
    <2>1. DOMAIN override = Files /\ DOMAIN hooks \subseteq Tids
        BY DEF Inv, ShapeInv
    <2>2. ASSUME NEW t \in Tids
          PROVE  /\ thread[t].at \in {"none", "user", "checked", "call", "stopped", "listening", "dead"}
                 /\ Stopped(t) => thread[t].stop \in Stopping
                 /\ thread[t].blocked => thread[t].at \in {"stopped", "call"}
        BY DEF Inv, ThreadInv, ThreadOK, Fits, Stopped
    <2>3. ASSUME NEW t \in Tids, thread[t].at = "call" PROVE thread[t].call.op # "none"
        BY <2>3, Results DEF Inv, ThreadInv, ThreadOK, InCall, Watched, Known
    <2> QED
        BY <2>1, <2>2, <2>3 DEF TypeOK, Inv, PhaseInv
<1> QED
    BY <1>1, Invariance, PTL

(* A change of owner that the tracer reports as done is one: the file has  *)
(* the owner asked for, or its original one again                          *)
THEOREM ChownsTakeEffect == Spec => ChownTakesEffect
<1>1. Inv /\ [Next]_vars =>
          [tracer.at = "fchown" /\ tracer'.at # "fchown" =>
               \A f \in Files :
                   IF f # tracer.read.call.file THEN override'[f] = override[f]
                   ELSE \/ Gives(OwnerWith(override'[f]), tracer.read.call.owner)
                        \/ Gives(tracer.read.owner, tracer.read.call.owner) /\ override'[f] = Nobody]_vars
    <2> SUFFICES ASSUME Inv, Next, tracer.at = "fchown", tracer'.at # "fchown", NEW f \in Files
                 PROVE  IF f # tracer.read.call.file THEN override'[f] = override[f]
                        ELSE \/ Gives(OwnerWith(override'[f]), tracer.read.call.owner)
                             \/ Gives(tracer.read.owner, tracer.read.call.owner) /\ override'[f] = Nobody
        BY DEF vars
    <2> DEFINE asked == tracer.read.call.owner
               read == tracer.read.owner
               new == With(asked, read)
    <2>1. FchownWrites
        BY DEF Next, Tracer, Tracee, Library, Die, Clone, Enter, Exec, ExitThread, Signal, Continue,
               Return, FastStat, FastChown, Checked, Backdoor, ClearOverride, Ended, vars,
               StartTracee, StartFails, WaitFails, Wait, WaitDead, SyscallEntry, FchownReads,
               FchownRefuses, SyscallExit, NoRegisters, ExecStop, OtherStop, Go, Stops
    <2>2. override' = [override EXCEPT ![tracer.read.call.file] = IF new = read THEN Nobody ELSE new]
        BY <2>1 DEF FchownWrites, SetOverride, SameOwner
    <2>3. /\ override = [g \in Files |-> override[g]]
          /\ DOMAIN asked = {"uid", "gid"}
        BY DEF Inv, ShapeInv, TracerInv, Working
    <2>4. new = [id \in {"uid", "gid"} |-> IF asked[id] = Keep THEN read[id] ELSE asked[id]]
        BY <2>3 DEF With
    <2>5. CASE f # tracer.read.call.file
        BY <2>2, <2>3, <2>5
    <2>6. CASE f = tracer.read.call.file /\ new = read
        <3>1. override'[f] = Nobody
            BY <2>2, <2>3, <2>6
        <3>2. \A id \in DOMAIN asked : asked[id] \in {Keep, read[id]}
            BY <2>3, <2>4, <2>6
        <3> QED
            BY <2>6, <3>1, <3>2 DEF Gives
    <2>7. CASE f = tracer.read.call.file /\ new # read
        <3>1. override'[f] = new
            BY <2>2, <2>3, <2>7
        <3>2. new # Nobody
            BY <2>4 DEF Nobody
        <3>3. \A id \in DOMAIN asked : asked[id] \in {Keep, new[id]}
            BY <2>3, <2>4
        <3> QED
            BY <2>7, <3>1, <3>2, <3>3 DEF Gives, OwnerWith
    <2> QED
        BY <2>5, <2>6, <2>7
<1> QED
    BY <1>1, Invariance, PTL DEF Spec, ChownTakesEffect
===============================================================================
