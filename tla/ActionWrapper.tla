----------------------------- MODULE ActionWrapper -----------------------------
(***************************************************************************)
(* The program around every Bazel action: it keeps the output of a command *)
(* in a log that is shown only when something goes wrong, has the command  *)
(* and the programs it starts record traces in a directory of theirs,      *)
(* merges the traces into one profile, and ends as the command did.        *)
(*                                                                         *)
(* Root is the command; the other programs are started by it or by one     *)
(* another, and may be left running when it ends.  A trace is written      *)
(* through a buffer that reaches the file when it is full, and when the    *)
(* program closes the trace; a program that is killed does not.  The       *)
(* pseudo process IDs in a trace are nanoseconds of a clock, taken here    *)
(* to differ.                                                              *)
(***************************************************************************)
EXTENDS Integers, FiniteSets, Sequences, SequencesExt

CONSTANTS
    Options,            \* the ways in which the wrapper is called
    Programs, Root,
    Codes, Signals,     \* the codes that programs end with, and signals that kill them
    Files,              \* the files named by --privileged-output
    MaxClock, MaxEvents, MaxLines,      \* bounds
    LeftBracket, RightBracket           \* [ and ], the brackets of a trace

(* What a program may record; the brackets are no events                   *)
Recorded ==
    [name : {"clock_sync", "span"}, pid : Programs, ts : 0 .. MaxClock, system_time : 0 .. MaxClock]

ASSUME OptionsAreTyped ==
    /\ Root \in Programs /\ "wrapper" \notin Programs
    /\ Options \subseteq [log : BOOLEAN, profile : BOOLEAN, privileged : BOOLEAN]
    /\ Codes \subseteq 0 .. 255 /\ Signals \subseteq 1 .. 64
    /\ MaxClock \in Nat
    /\ LeftBracket # RightBracket /\ {LeftBracket, RightBracket} \intersect Recorded = {}

VARIABLES
    cli,        \* --log, --profile, --privileged: which are given
    at,         \* the step of the wrapper
    failed,     \* the step that returned an error
    exit,       \* the exit code
    log,        \* the lines of the log
    stderr,     \* the lines on the stderr that the wrapper was started with
    outputs,    \* who owns the outputs made so far: "refused" if root does after a chown
    clock,
    origin,     \* origin_time
    state,      \* of each program
    status,     \* of the command, when it has ended
    start,      \* when a program has set up its trace
    stream,     \* what it has written of its trace
    flushed,    \* how much of that is in the file
    entries,    \* the traces that are still to load
    merged,     \* the events loaded
    profile     \* the profile saved

wrapper == <<cli, at, failed, exit, origin, entries, merged, profile>>
programs == <<state, status, start, stream, flushed>>
lines == <<log, stderr>>
outside == <<programs, outputs, clock>>
wrapperVars == <<wrapper, lines, outside>>

Running(p) == state[p] \in {"untraced", "opened", "running"}
Traced == {p \in Programs : stream[p] # << >>}

Code(n) == [kind |-> "code", n |-> n]
Signal(n) == [kind |-> "signal", n |-> n]
\* status_to_exit_code
ExitCode(s) == IF s.kind = "code" THEN s.n ELSE 128 + s.n

WrapperInit ==
    /\ cli \in Options
    /\ at = "start" /\ failed = "nothing" /\ exit = -1
    /\ log = << >> /\ stderr = << >>
    /\ outputs = [file \in {} |-> "user"]
    /\ clock = 0 /\ origin = 0
    /\ state = [p \in Programs |-> "none"]
    /\ status = Code(0)
    /\ start = [p \in Programs |-> 0]
    /\ stream = [p \in Programs |-> << >>]
    /\ flushed = [p \in Programs |-> 0]
    /\ entries = {} /\ merged = << >> /\ profile = << >>

\* A line goes where the stderr of the wrapper, or of what it has started, points to
Say(line) ==
    IF cli.log THEN log' = Append(log, line) /\ UNCHANGED stderr
    ELSE stderr' = Append(stderr, line) /\ UNCHANGED log
----------------------------------------------------------------------------
(* do_main                                                                 *)

\* The error goes back to main
Fails(step) ==
    /\ failed' = step /\ at' = "result"
    /\ UNCHANGED <<cli, exit, origin, entries, merged, profile>>

\* --log cannot be opened: unwrap panics
RedirectFails ==
    /\ at = "start" /\ cli.log /\ at' = "exited"
    /\ failed' = "redirect" /\ exit' = 101
    /\ UNCHANGED <<cli, origin, entries, merged, profile, lines, outside>>

\* $TMPDIR and the directory for the traces; sudo has to work without a password
SetUp ==
    /\ at = "start" /\ at' = "spawn"
    /\ origin' = clock
    /\ UNCHANGED <<cli, failed, exit, entries, merged, profile, lines, outside>>
SetUpFails ==
    at = "start" /\ Fails("setup") /\ UNCHANGED <<lines, outside>>

RunCommand ==
    /\ at = "spawn" /\ at' = "wait"
    /\ state' = [state EXCEPT ![Root] = "untraced"]
    /\ UNCHANGED <<cli, failed, exit, origin, entries, merged, profile,
                   status, start, stream, flushed, lines, outputs, clock>>
RunFails ==
    at = "spawn" /\ Fails("spawn") /\ UNCHANGED <<lines, outside>>

ReportStatus ==
    /\ at = "wait" /\ state[Root] = "ended" /\ at' = "chown"
    /\ Say([by |-> "wrapper", says |-> "Command"])
    /\ UNCHANGED <<cli, failed, exit, origin, entries, merged, profile, outside>>

\* There is nothing to give to the user
NoChown ==
    /\ at = "chown" /\ ~(cli.privileged /\ Files # {}) /\ at' = "merge"
    /\ UNCHANGED <<cli, failed, exit, origin, entries, merged, profile, lines, outside>>

\* sudo chown gives the user what it can, which may be nothing: with whatever
\* status it ends, the wrapper goes on
Chown ==
    /\ at = "chown" /\ cli.privileged /\ Files # {} /\ at' = "merge"
    /\ \E refused \in SUBSET DOMAIN outputs :
           outputs' = [file \in DOMAIN outputs |-> IF file \in refused THEN "refused" ELSE "user"]
    /\ UNCHANGED <<cli, failed, exit, origin, entries, merged, profile, programs, lines, clock>>

\* sudo itself cannot be run
ChownFails ==
    /\ at = "chown" /\ cli.privileged /\ Files # {}
    /\ Fails("chown") /\ UNCHANGED <<lines, outside>>

(* merge_profiles.  Trace::load skips to the first [, then takes event     *)
(* after event until there is none, or only a part of one                  *)
Trace(p) == SubSeq(stream[p], 1, flushed[p])
Loads(p) == Trace(p) # << >> /\ Head(Trace(p)) = LeftBracket
Body(trace) ==
    SubSeq(trace, 2, IF trace # << >> /\ Last(trace) = RightBracket THEN Len(trace) - 1 ELSE Len(trace))
Events(p) == Body(Trace(p))

NoProfile ==
    /\ at = "merge" /\ ~cli.profile /\ at' = "result"
    /\ UNCHANGED <<cli, failed, exit, origin, entries, merged, profile, lines, outside>>
ReadDir ==
    /\ at = "merge" /\ cli.profile /\ at' = "load"
    /\ entries' = Traced
    /\ UNCHANGED <<cli, failed, exit, origin, merged, profile, lines, outside>>
Load ==
    /\ at = "load" /\ \E p \in entries :
           IF Loads(p)
           THEN /\ entries' = entries \ {p} /\ merged' = merged \o Events(p)
                /\ UNCHANGED <<cli, at, failed, exit, origin, profile>>
           ELSE Fails("load")
    /\ UNCHANGED <<lines, outside>>

IsSync(event) == event.name = "clock_sync"
Synced == {merged[i].pid : i \in {j \in DOMAIN merged : IsSync(merged[j])}}

\* Mutant: the time between the start of a trace and its first event is forgotten
BaseWithoutDelay(pid) ==
    LET i == CHOOSE j \in DOMAIN merged : IsSync(merged[j]) /\ merged[j].pid = pid
    IN  merged[i].system_time

\* The system time at which the timestamps of a process start: base_time_by_process_id
Base(pid) ==
    LET i == CHOOSE j \in DOMAIN merged : IsSync(merged[j]) /\ merged[j].pid = pid
    IN  merged[i].system_time - merged[i].ts

Adjusted(event) ==
    IF event.pid \in Synced THEN [event EXCEPT !.ts = @ + Base(event.pid) - origin] ELSE event
SortIndex ==
    CHOOSE order \in Bijection(1 .. Cardinality(Synced), Synced) :
        \A i, j \in DOMAIN order : i < j => Base(order[i]) <= Base(order[j])
Save ==
    /\ at = "load" /\ entries = {} /\ at' = "result"
    /\ profile' = <<[events |-> [i \in DOMAIN merged |-> Adjusted(merged[i])], order |-> SortIndex]>>
    /\ UNCHANGED <<cli, failed, exit, origin, entries, merged, lines, outside>>
SaveFails ==
    at = "load" /\ entries = {} /\ Fails("save") /\ UNCHANGED <<lines, outside>>
----------------------------------------------------------------------------
(* main and handle_top_level_result                                        *)

\* Mutant: the error of a command is all that is looked at
SuccessOfTheCommand == ExitCode(status) = 0

Success == failed = "nothing" /\ ExitCode(status) = 0

\* Mutant: the wrapper's own error is reported, and the status of the command returned
ResultOfTheCommand ==
    /\ at = "result" /\ at' = "show"
    /\ exit' = ExitCode(status)
    /\ IF failed = "nothing" THEN UNCHANGED lines ELSE Say([by |-> "wrapper", says |-> "FATAL"])
    /\ UNCHANGED <<cli, failed, origin, entries, merged, profile, outside>>

Result ==
    /\ at = "result" /\ at' = "show"
    /\ exit' = IF failed = "nothing" THEN ExitCode(status) ELSE 1
    /\ IF failed = "nothing" THEN UNCHANGED lines ELSE Say([by |-> "wrapper", says |-> "FATAL"])
    /\ UNCHANGED <<cli, failed, origin, entries, merged, profile, outside>>

\* flush_to_real_stderr; what is said from then on by the wrapper is not in the log
Show ==
    /\ at = "show" /\ at' = "exited"
    /\ LET finished == [by |-> "wrapper", says |-> "Finished"]
           fail == [by |-> "wrapper", says |-> "FAILED"]
       IN  IF Success THEN Say(finished)
           ELSE stderr' = Append(IF cli.log THEN stderr \o log ELSE stderr, fail) /\ UNCHANGED log
    /\ UNCHANGED <<cli, failed, exit, origin, entries, merged, profile, outside>>
----------------------------------------------------------------------------
(* The programs: cli_main, ChromeTraceLayer, StreamWriter                  *)

Header == <<LeftBracket>>
Footer == <<RightBracket>>

\* What a trace has after more is written: the buffer may become full meanwhile
Written(p, tokens) ==
    /\ stream' = [stream EXCEPT ![p] = @ \o tokens]
    /\ \E n \in {flushed[p]} \union Len(stream[p]) .. Len(stream[p]) + Len(tokens) :
           flushed' = [flushed EXCEPT ![p] = n]

(* The system time is in the clock_sync events only; in the others it      *)
(* records when they really happened, and no operator of the wrapper reads *)
(* it                                                                      *)
Event(p, name) == [name |-> name, pid |-> p, ts |-> clock - start[p], system_time |-> clock]

\* ChromeTraceLayer::new creates the file; the first bytes stay in the buffer
OpenTrace(p) ==
    /\ state[p] = "untraced" /\ state' = [state EXCEPT ![p] = "opened"]
    /\ start' = [start EXCEPT ![p] = clock]
    /\ stream' = [stream EXCEPT ![p] = Header]
    /\ UNCHANGED <<flushed, status, wrapper, lines, outputs, clock>>

\* emit_initial_events
EmitClockSync(p) ==
    /\ state[p] = "opened" /\ state' = [state EXCEPT ![p] = "running"]
    /\ stream' = [stream EXCEPT ![p] = Append(@, Event(p, "clock_sync"))]
    /\ UNCHANGED <<start, flushed, status, wrapper, lines, outputs, clock>>

WriteEvent(p) ==
    /\ state[p] = "running" /\ Len(stream[p]) < 2 + MaxEvents
    /\ Written(p, <<Event(p, "span")>>)
    /\ UNCHANGED <<state, status, start, wrapper, lines, outputs, clock>>

Start(p) ==
    /\ state[p] = "none" /\ p # Root /\ \E q \in Programs : Running(q)
    /\ state' = [state EXCEPT ![p] = "untraced"]
    /\ UNCHANGED <<status, start, stream, flushed, wrapper, lines, outputs, clock>>

\* What is said after the log has been shown is in the log only
Says(p) ==
    LET said == IF cli.log THEN log ELSE stderr IN
    /\ Running(p) /\ Cardinality({i \in DOMAIN said : said[i].by = p}) < MaxLines
    /\ Say([by |-> p, says |-> "something"])
    /\ UNCHANGED <<programs, wrapper, outputs, clock>>

Makes(file) ==
    /\ Running(Root) /\ file \notin DOMAIN outputs
    /\ outputs' = [f \in DOMAIN outputs \union {file} |->
                   IF f # file THEN outputs[f] ELSE IF cli.privileged THEN "root" ELSE "user"]
    /\ UNCHANGED <<programs, wrapper, lines, clock>>

Ends(p, how) ==
    /\ state' = [state EXCEPT ![p] = "ended"]
    /\ status' = IF p = Root THEN how ELSE status

\* The trace is finished, and what is in the buffer is written
DropFlushGuard(p) ==
    /\ stream' = [stream EXCEPT ![p] = @ \o Footer]
    /\ flushed' = [flushed EXCEPT ![p] = Len(stream'[p])]

\* Mutant: nothing is left to the guard, and the buffer is dropped with the program
ReturnWithoutGuard(p) ==
    /\ state[p] \in {"untraced", "running"} /\ \E n \in Codes : Ends(p, Code(n))
    /\ UNCHANGED <<start, stream, flushed, wrapper, lines, outputs, clock>>

\* main returns or panics; either way the guard is dropped
Return(p) ==
    /\ state[p] \in {"untraced", "running"} /\ \E n \in Codes : Ends(p, Code(n))
    /\ IF state[p] = "running" THEN DropFlushGuard(p) ELSE UNCHANGED <<stream, flushed>>
    /\ UNCHANGED <<start, wrapper, lines, outputs, clock>>

IsKilled(p) ==
    /\ Running(p) /\ \E n \in Signals : Ends(p, Signal(n))
    /\ UNCHANGED <<start, stream, flushed, wrapper, lines, outputs, clock>>

Tick ==
    /\ clock < MaxClock /\ clock' = clock + 1
    /\ at \in {"start", "spawn", "wait"}
    /\ UNCHANGED <<wrapper, programs, lines, outputs>>
----------------------------------------------------------------------------
WrapperStep ==
    \/ RedirectFails \/ SetUp \/ SetUpFails \/ RunCommand \/ RunFails \/ ReportStatus \/ NoChown \/ Chown \/ ChownFails
    \/ NoProfile \/ ReadDir \/ Load \/ Save \/ SaveFails \/ Result \/ Show

ProgramStep ==
    \/ \E p \in Programs :
           \/ OpenTrace(p) \/ EmitClockSync(p) \/ WriteEvent(p)
           \/ Start(p) \/ Says(p) \/ Return(p) \/ IsKilled(p)
    \/ \E file \in Files : Makes(file)

WrapperNext == WrapperStep \/ ProgramStep \/ Tick
WrapperSpec == WrapperInit /\ [][WrapperNext]_wrapperVars
----------------------------------------------------------------------------
Lines == [by : Programs \union {"wrapper"}, says : {"something", "Command", "FATAL", "Finished", "FAILED"}]
Statuses == [kind : {"code"}, n : Codes \union {0}] \union [kind : {"signal"}, n : Signals]

WrapperTypeOK ==
    /\ cli \in Options
    /\ at \in {"start", "spawn", "wait", "chown", "merge", "load", "result", "show", "exited"}
    /\ failed \in {"nothing", "redirect", "setup", "spawn", "chown", "load", "save"}
    /\ exit \in {-1, 1, 101} \union {ExitCode(s) : s \in Statuses}
    /\ log \in Seq(Lines) /\ stderr \in Seq(Lines)
    /\ DOMAIN outputs \subseteq Files /\ outputs \in [DOMAIN outputs -> {"user", "root", "refused"}]
    /\ clock \in 0 .. MaxClock /\ origin \in 0 .. MaxClock
    /\ state \in [Programs -> {"none", "untraced", "opened", "running", "ended"}]
    /\ status \in Statuses
    /\ start \in [Programs -> 0 .. clock]
    /\ stream \in [Programs -> Seq(Recorded \union {LeftBracket, RightBracket})]
    /\ flushed \in [Programs -> Nat] /\ \A p \in Programs : flushed[p] <= Len(stream[p])
    /\ entries \subseteq Traced
    /\ merged \in Seq(Recorded)
    /\ Len(profile) <= 1

(* What went wrong is seen, and nothing is when all went well: a log that  *)
(* is kept out of sight is shown on the real stderr before the wrapper     *)
(* ends with a failure -- of the command or of its own, which it reports   *)
(* there as well -- as it is then, and what is missing was said by         *)
(* programs that were left behind; when the wrapper ends with success, the *)
(* real stderr stays empty                                                 *)
FailureIsShown ==
    at = "exited" /\ cli.log /\ failed # "redirect" =>
        IF exit = 0 THEN stderr = << >>
        ELSE \E n \in 0 .. Len(log) :
                 /\ stderr = Append(SubSeq(log, 1, n), [by |-> "wrapper", says |-> "FAILED"])
                 /\ \A i \in n + 1 .. Len(log) : log[i].by \notin {Root, "wrapper"}
                 /\ failed # "nothing" => \E i \in 1 .. n : log[i] = [by |-> "wrapper", says |-> "FATAL"]

(* Bazel takes an exit code of 0 for a success of the action: the command  *)
(* has ended and with 0, the profile that was asked for has been written,  *)
(* and root has no output that chown was not called with after it was      *)
(* made.  Those that chown could not give to the user stay with root: what *)
(* it returns is not looked at (main.rs:294)                               *)
SuccessIsComplete ==
    at = "exited" /\ exit = 0 =>
        /\ state[Root] = "ended" /\ status = Code(0)
        /\ cli.profile => profile # << >>
        /\ \A file \in DOMAIN outputs : outputs[file] # "root"

(* The events of a program are in one place of the profile, once each and  *)
(* in the order in which they happened: all events of a command that was   *)
(* not killed, also of one that failed; of a program that was killed or is *)
(* still running, what reached the file, the first of them                 *)
TracesAreKept ==
    at = "exited" /\ profile # << >> =>
        \A p \in Programs : \E before, count \in 0 .. Len(profile[1].events) :
            LET events == profile[1].events
                written == Body(stream[p])
                same(one, other) == one.name = other.name /\ one.system_time = other.system_time
            IN  /\ \A i \in DOMAIN events : events[i].pid = p <=> i \in before + 1 .. before + count
                /\ count <= Len(written)
                /\ \A i \in 1 .. count : same(events[before + i], written[i])
                /\ p = Root /\ status.kind = "code" => count = Len(written)

(* Events of all programs have one clock in the profile, which starts with *)
(* the wrapper, whenever the programs were started and however long they   *)
(* took for that; and programs are sorted in the order of their start      *)
ProfileHasOneClock ==
    at = "exited" /\ profile # << >> =>
        LET events == ToSet(profile[1].events)
            order == profile[1].order
        IN  /\ \A event \in events : event.ts = event.system_time - origin
            /\ ToSet(order) = {event.pid : event \in events}
            /\ \A i, j \in DOMAIN order :
                   i < j => order[i] # order[j] /\ start[order[i]] <= start[order[j]]
===============================================================================
