----------------------------- MODULE BashStream -----------------------------
(***************************************************************************)
(* The delimiter protocol of BashSession.Execute, pkg/sandbox/bash.go: the *)
(* command is written between two echoed markers, and two goroutines read  *)
(* bash's stdout and stderr line by line until each has seen its own.  A   *)
(* job that an earlier command left in the background may write to both.   *)
(***************************************************************************)
EXTENDS Naturals, Sequences, SequencesExt

CONSTANTS
    Outputs,   \* what commands may print on a stream: sequences of Text and NL
    MaxJob     \* bound: lines that the background job prints

\* What a pipe carries.  The markers hold a fresh UUID, so no output has them.
Text == "text"
EarlyText == "early"
JobText == "job"
NL == "\n"
START == "START"
END == "END"
EXIT == "EXIT"

ASSUME StreamAssumption ==
    /\ Outputs \subseteq Seq({Text, NL})
    /\ MaxJob \in Nat

Streams == {"stdout", "stderr"}

VARIABLES
    command,   \* what the command prints: stream -> Outputs
    script,    \* bash's place in the wrapped command
    left,      \* what the command has still to print on each stream
    exited,    \* bash is gone: a reader that has emptied its pipe sees EOF
    pipe,      \* written and not yet read
    reader,    \* per stream: capturing, buf, and whether it has sent its result
    call,      \* Execute: running, or how it returned
    result,    \* its Stdout and Stderr
    jobs       \* lines the background job has printed

vars == <<command, script, left, exited, pipe, reader, call, result, jobs>>

Token == {Text, EarlyText, JobText, NL, START, END, EXIT}

\* A reader's result: not sent, sent with the marker seen or with an error, and
\* received as either
Sent == {"no", "marker", "error", "received", "failed"}

TypeOK ==
    /\ command \in [Streams -> Outputs]
    /\ script \in {"start", "command", "end", "exit", "over"}
    /\ left \in [Streams -> Seq({Text, NL})]
    /\ exited \in BOOLEAN
    /\ pipe \in [Streams -> Seq(Token)]
    /\ reader \in [Streams -> [capturing: BOOLEAN, buf: Seq(Token),
                               sent: Sent]]
    /\ call \in {"running", "drain", "ok", "timeout", "error"}
    /\ result \in [Streams -> Seq(Token)]
    /\ jobs \in 0..MaxJob

\* Variant: stdout is captured from the beginning too.
CapturesAtOnceBoth(s) == TRUE

\* stderr is captured from the beginning, stdout from the start marker on.
CapturesAtOnce(s) == s = "stderr"

\* The command has been written to bash's stdin.
Init ==
    /\ command \in [Streams -> Outputs]
    /\ script = "start" /\ left = command
    /\ exited = FALSE /\ call = "running" /\ jobs = 0
    /\ pipe = [s \in Streams |-> <<>>]
    /\ reader = [s \in Streams |-> [capturing |-> CapturesAtOnce(s), buf |-> <<>>, sent |-> "no"]]
    /\ result = [s \in Streams |-> <<>>]

-----------------------------------------------------------------------------
(* bash and the background job.                                            *)

Echo(marker, stream, next) ==
    /\ pipe' = [pipe EXCEPT ![stream] = @ \o <<marker, NL>>]
    /\ script' = next
    /\ UNCHANGED <<command, left, exited, reader, call, result, jobs>>

\* The command prints on either stream, in any order.
Prints(s) ==
    /\ script = "command" /\ left[s] # <<>>
    /\ pipe' = [pipe EXCEPT ![s] = Append(@, Head(left[s]))]
    /\ left' = [left EXCEPT ![s] = Tail(@)]
    /\ UNCHANGED <<command, script, exited, reader, call, result, jobs>>

CommandEnds ==
    /\ script = "command" /\ \A s \in Streams : left[s] = <<>>
    /\ script' = "end"
    /\ UNCHANGED <<command, left, exited, pipe, reader, call, result, jobs>>

RunScript ==
    /\ ~exited
    /\ \/ script = "start" /\ Echo(START, "stdout", "command")
       \/ \E s \in Streams : Prints(s)
       \/ CommandEnds
       \/ script = "end" /\ Echo(END, "stdout", "exit")
       \/ script = "exit" /\ Echo(EXIT, "stderr", "over")

\* The job prints whole lines, before the start marker or after it.
JobPrints(s) ==
    /\ ~exited /\ jobs < MaxJob
    /\ pipe' = [pipe EXCEPT ![s] = @ \o <<IF script = "start" THEN EarlyText ELSE JobText, NL>>]
    /\ jobs' = jobs + 1
    /\ UNCHANGED <<command, script, left, exited, reader, call, result>>

\* The command ends the shell (exit, or it is killed).
BashExits ==
    /\ ~exited /\ script = "command"
    /\ exited' = TRUE
    /\ UNCHANGED <<command, script, left, pipe, reader, call, result, jobs>>

-----------------------------------------------------------------------------
(* The reader goroutines.                                                  *)

HasLine(s) == Contains(pipe[s], NL)

LineEnd(s) == SelectInSeq(pipe[s], LAMBDA t : t = NL)

\* ReadString: a line, or what there is before EOF
Line(s) == IF HasLine(s) THEN SubSeq(pipe[s], 1, LineEnd(s)) ELSE pipe[s]

Rest(s) == IF HasLine(s) THEN SubSeq(pipe[s], LineEnd(s) + 1, Len(pipe[s])) ELSE <<>>

Trimmed(s) == IF HasLine(s) THEN Front(Line(s)) ELSE Line(s)

StartsCapturing(s) == s = "stdout" /\ Trimmed(s) = <<START>>

\* Variant: the line is compared with its newline.
EndsStreamUntrimmed(s) == IF s = "stdout" THEN Line(s) = <<END>> ELSE Line(s) = <<EXIT>>

\* The line is the marker that ends the stream: all of it on stdout, the
\* beginning of it on stderr, where the exit code follows.
EndsStream(s) ==
    IF s = "stdout" THEN Trimmed(s) = <<END>>
    ELSE Trimmed(s) # <<>> /\ Head(Trimmed(s)) = EXIT

ReadLine(s) ==
    LET marked == StartsCapturing(s) \/ EndsStream(s)
        eof    == ~HasLine(s)
    IN
    /\ reader[s].sent = "no"
    /\ HasLine(s) \/ exited
    /\ pipe' = [pipe EXCEPT ![s] = Rest(s)]
    /\ reader' = [reader EXCEPT
          ![s].capturing = @ \/ StartsCapturing(s),
          ![s].buf = IF reader[s].capturing /\ ~marked THEN @ \o Line(s) ELSE @,
          ![s].sent = IF EndsStream(s) THEN "marker" ELSE IF eof THEN "error" ELSE "no"]
    /\ UNCHANGED <<command, script, left, exited, call, result, jobs>>

-----------------------------------------------------------------------------
(* Execute's select loop.                                                  *)

TrimRight(q) == SubSeq(q, 1, Max({i \in 1..Len(q) : q[i] # NL} \cup {0}))

Received(rd) == \A s \in Streams : rd[s].sent \in {"received", "failed"}

\* Variant: the first result is taken for both.
ReturnedFirst(rd) ==
    IF call = "drain" THEN "timeout"
    ELSE IF \E s \in Streams : rd[s].sent = "failed" THEN "error" ELSE "ok"

\* How Execute returns once it has both results
Returned(rd) ==
    IF ~Received(rd) THEN call
    ELSE IF call = "drain" THEN "timeout"
    ELSE IF \E s \in Streams : rd[s].sent = "failed" THEN "error" ELSE "ok"

\* One of the two channels delivers.
Receive(s) ==
    /\ call \in {"running", "drain"} /\ reader[s].sent \in {"marker", "error"}
    /\ reader' = [reader EXCEPT ![s].sent = IF @ = "marker" THEN "received" ELSE "failed"]
    /\ result' = [result EXCEPT ![s] = TrimRight(reader[s].buf)]
    /\ call' = Returned(reader')
    /\ UNCHANGED <<command, script, left, exited, pipe, jobs>>

\* bash and its process group are killed; Execute goes on receiving for a while.
TimerFires ==
    /\ call = "running"
    /\ call' = "drain" /\ exited' = TRUE
    /\ UNCHANGED <<command, script, left, pipe, reader, result, jobs>>

DrainTimeout ==
    /\ call = "drain"
    /\ call' = "timeout"
    /\ UNCHANGED <<command, script, left, exited, pipe, reader, result, jobs>>

Next ==
    \/ RunScript
    \/ \E s \in Streams : JobPrints(s) \/ ReadLine(s) \/ Receive(s)
    \/ BashExits
    \/ TimerFires \/ DrainTimeout

Spec == Init /\ [][Next]_vars

-----------------------------------------------------------------------------

\* Execute returns "command output without any truncation, transformation": a
\* completed call has what the command printed on each stream, up to newlines at
\* the end, and a call that timed out has a part of it from the beginning,
\* whatever the interleaving of bash, the readers and the select loop.  (The
\* job's lines are not told apart by Execute: this is about calls without.  And
\* it is checked for outputs that are empty or end with a newline; after any
\* other the marker is not found and the call is not completed.)
OutputIsExact ==
    jobs = 0 =>
       /\ call = "ok" => \A s \in Streams : result[s] = TrimRight(command[s])
       /\ call = "timeout" => \A s \in Streams : IsPrefix(result[s], command[s])

\* Execute "SHALL return only the content between <DELIM>_START and <DELIM>_END":
\* what a job printed before the start marker is in no call's Stdout.
StdoutBeginsAtStart == ~Contains(result["stdout"], EarlyText)

\* A command that has run to its end is answered: once bash has echoed both
\* markers, a reader with no line left to read has found its own.
FinishedCommandIsAnswered ==
    script = "over" /\ ~exited =>
       \A s \in Streams : HasLine(s) \/ reader[s].sent # "no"

=============================================================================
