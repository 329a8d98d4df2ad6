---------------------------- MODULE SensorStation ----------------------------
(***************************************************************************)
(* lab4b.c and lab4c.c (projects 4b and 4c): a station that samples a      *)
(* temperature once per period and takes commands, from its keyboard       *)
(* (lab4b), from a host over TCP (lab4c_tcp) or over TLS (lab4c_tls).      *)
(*                                                                         *)
(* The visible characters of a command are one "word" here, known by its   *)
(* beginning as strncmp knows it ("SCALE?" stands for a scale other than F *)
(* and C, "x" for what is no command), and a DEL erases a word.  A line    *)
(* holds BUFSIZE of them.  Temperatures, formatting, the echo of the line, *)
(* the log file and the options are left out, and hosts send no NUL bytes. *)
(* What a byte is is chosen when store_buffer looks at it, for nothing     *)
(* looks at it before: until then bytes are only counted.                  *)
(***************************************************************************)
EXTENDS Integers, Sequences, SequencesExt

CONSTANTS
    Programs,     \* the programs considered
    Sendable,     \* the bytes that the host or the user sends
    BUFSIZE,
    MaxRecord,    \* bounds the bytes of one TLS record
    MaxBytes      \* bounds the bytes sent

Word == {"STOP", "START", "OFF", "PERIOD", "SCALE", "SCALE?", "x"}
Byte == Word \cup {"DEL", "NL", "^C"}

ASSUME ProgramsAssumption == Programs \subseteq {"lab4b", "lab4c_tcp", "lab4c_tls"}
ASSUME SizeAssumption == BUFSIZE \in Nat \ {0} /\ Sendable \subseteq Byte
ASSUME BoundAssumption == MaxRecord \in Nat /\ MaxBytes \in Nat

VARIABLES
    program,
    sent, done,         \* auxiliary: bytes sent, and handled by store_buffer
    understood,         \* auxiliary: what the handled bytes mean, see Typed
    inq,                \* where, in the stream of all bytes sent, the records
                        \* end that are not received; on a plain connection
                        \* all such bytes are one record
    pending,            \* the bytes that SSL holds decrypted
    link,               \* "open", ended by the host ("fin", or "rst" with an error
                        \* pending), "written" to since, or "broken"
    num_chars,          \* the rest of the batch in new_buf
    line_buf,           \* the line
    generate_reports, interrupt,
    period,             \* "some", "zero", or "never": not a number
    elapsed,            \* period_timer has reached the period
    reported,           \* auxiliary: the last report
    pc, status

input == <<sent, inq>>
reading == <<done, understood, pending, num_chars, line_buf>>
settings == <<generate_reports, interrupt, period>>
ending == <<link, reported, pc, status>>
vars == <<program, input, reading, settings, elapsed, ending>>

is_secure == program = "lab4c_tls"

TypeOK ==
    /\ program \in Programs
    /\ sent \in 0 .. MaxBytes /\ done \in 0 .. sent
    /\ understood \in [line : Seq(Word), on : BOOLEAN, full : BOOLEAN]
    /\ inq \in Seq(1 .. MaxBytes) /\ pending \in 0 .. MaxBytes
    /\ link \in {"open", "fin", "rst", "written", "broken"}
    /\ num_chars \in 0 .. BUFSIZE
    /\ line_buf \in Seq(Word) /\ Len(line_buf) <= BUFSIZE
    /\ generate_reports \in BOOLEAN /\ interrupt \in BOOLEAN
    /\ period \in {"some", "zero", "never"}
    /\ elapsed \in BOOLEAN
    /\ reported \in {"nothing", "temperature", "SHUTDOWN"}
    /\ pc \in {"first", "poll", "store", "button", "period", "ended"}
    /\ status \in {"running", "exit 0", "exit 1", "exit 2", "SIGPIPE", "undefined"}

Init ==
    /\ program \in Programs
    /\ sent = 0 /\ done = 0
    /\ understood = [line |-> <<>>, on |-> TRUE, full |-> FALSE]
    /\ inq = <<>> /\ pending = 0 /\ link = "open"
    /\ num_chars = 0 /\ line_buf = <<>>
    /\ generate_reports = TRUE /\ interrupt = FALSE
    /\ period = "some" /\ elapsed = FALSE
    /\ reported = "nothing"
    /\ pc = "first" /\ status = "running"

-----------------------------------------------------------------------------
(* The host, or the user, and the clock.                                   *)

Send ==
    /\ link = "open" /\ pc # "ended"
    /\ \E k \in 1 .. (IF is_secure THEN MaxRecord ELSE 1) :
           /\ sent + k <= MaxBytes
           /\ sent' = sent + k
           /\ inq' = IF is_secure \/ inq = <<>> THEN Append(inq, sent + k) ELSE <<sent + k>>
    /\ UNCHANGED <<program, reading, settings, elapsed, ending>>

HostCloses ==
    /\ link = "open" /\ pc # "ended"
    /\ link' \in IF program = "lab4b" THEN {"fin"} ELSE {"fin", "rst"}
    /\ UNCHANGED <<program, input, reading, settings, elapsed, reported, pc, status>>

(* The answer to what was written to a closed connection.                  *)
Reset ==
    /\ link = "written" /\ pc # "ended"
    /\ link' = "broken"
    /\ UNCHANGED <<program, input, reading, settings, elapsed, reported, pc, status>>

Clock ==
    /\ ~elapsed /\ pc # "ended"
    /\ elapsed' = TRUE
    /\ UNCHANGED <<program, input, reading, settings, ending>>

-----------------------------------------------------------------------------
(* report().                                                               *)

Goto(l) == pc' = l /\ UNCHANGED status
Exit(how) == pc' = "ended" /\ status' = how

(* Only lab4c writes to the host.  A pending error makes the write fail,   *)
(* after it the write is a SIGPIPE.                                        *)
WriteToHost ==
    IF program = "lab4b" THEN UNCHANGED link
    ELSE /\ link \in {"open", "fin", "written"}
         /\ link' = IF link = "fin" THEN "written" ELSE link

WriteFails ==
    /\ program # "lab4b"
    /\ \/ link = "rst" /\ Exit("exit 2")
       \/ link = "broken" /\ Exit("SIGPIPE")
    /\ UNCHANGED <<link, reported>>

SensorFails == Exit("exit 1") /\ UNCHANGED <<link, reported>>

(* A report with the settings as given; then the program goes on at l,     *)
(* unless this was the last report.                                        *)
Report(shutdown, generate, l) ==
    \/ SensorFails
    \/ /\ ~shutdown /\ ~generate
       /\ Goto(l)
       /\ UNCHANGED <<link, reported>>
    \/ /\ shutdown \/ generate
       /\ WriteFails
    \/ /\ shutdown \/ generate
       /\ WriteToHost
       /\ reported' = IF shutdown THEN "SHUTDOWN" ELSE "temperature"
       /\ IF shutdown THEN Exit("exit 0") ELSE Goto(l)

FirstReport ==
    /\ pc = "first"
    /\ Report(interrupt, generate_reports, "poll")
    /\ UNCHANGED <<program, input, reading, settings, elapsed>>

-----------------------------------------------------------------------------
(* Input: poll, read_from_host and store_buffer.                           *)

(* poll() knows what has arrived at the socket, not what SSL holds.        *)
Readable == inq # <<>> \/ link # "open"

Received == done + num_chars + pending

Available ==
    IF inq # <<>> /\ (is_secure => pending = 0) THEN Head(inq) - Received ELSE pending

(* Mutant: a read may fill one byte more than the buffer has.              *)
BugRead == IF Available > BUFSIZE + 1 THEN BUFSIZE + 1 ELSE Available

(* What one read returns.                                                  *)
Read == IF Available > BUFSIZE THEN BUFSIZE ELSE Available

(* A line that is full already is dropped before the batch is looked at.   *)
ReadInput ==
    /\ pc = "poll" /\ Readable
    /\ Available > 0
    /\ num_chars' = Read
    /\ IF is_secure
       THEN /\ pending' = Available - Read
            /\ inq' = IF pending = 0 THEN Tail(inq) ELSE inq
       ELSE /\ inq' = IF Available = Read THEN <<>> ELSE inq
            /\ UNCHANGED pending
    /\ line_buf' = IF Len(line_buf) > BUFSIZE - 1 THEN <<>> ELSE line_buf
    /\ Goto("store")
    /\ UNCHANGED <<program, sent, done, understood, settings, elapsed, link, reported>>

(* There is nothing to read, or an end of stream or an error, on which the *)
(* loop goes on.                                                           *)
NoInput ==
    /\ pc = "poll"
    /\ ~Readable \/ Available = 0
    /\ link' = IF link = "rst" THEN "broken" ELSE link
    /\ Goto("button")
    /\ UNCHANGED <<program, input, reading, settings, elapsed, reported>>

(* How a stream of bytes reads to somebody who does not know in which      *)
(* pieces it arrives: the line so far, what the last STOP or START asked   *)
(* for, and whether a line has ever filled the buffer.                     *)
Typed(s, c) ==
    CASE c \in Word -> [s EXCEPT !.line = Append(@, c), !.full = @ \/ Len(s.line) + 1 >= BUFSIZE]
      [] c = "DEL" /\ s.line # <<>> -> [s EXCEPT !.line = Front(@)]
      [] c = "NL" /\ s.line # <<>> ->
             [s EXCEPT !.line = <<>>,
                       !.on = IF Head(s.line) \in {"STOP", "START"} THEN Head(s.line) = "START" ELSE @]
      [] OTHER -> s

Store(c) ==
    /\ pc = "store" /\ num_chars > 0
    /\ num_chars' = num_chars - 1
    /\ done' = done + 1
    /\ understood' = Typed(understood, c)
    /\ UNCHANGED <<program, input, pending>>

(* The length of the line is not tested within a batch: what follows when  *)
(* line_buf overflows is undefined.                                        *)
StoreWord(c) ==
    /\ Store(c)
    /\ \/ /\ Len(line_buf) < BUFSIZE
          /\ line_buf' = Append(line_buf, c)
          /\ UNCHANGED <<pc, status>>
       \/ /\ Len(line_buf) >= BUFSIZE
          /\ Exit("undefined")
          /\ UNCHANGED line_buf
    /\ UNCHANGED <<settings, elapsed, link, reported>>

StoreDel ==
    /\ "DEL" \in Sendable /\ Store("DEL")
    /\ line_buf' = IF line_buf = <<>> THEN <<>> ELSE Front(line_buf)
    /\ UNCHANGED <<settings, elapsed, ending>>

CtrlC ==
    /\ "^C" \in Sendable /\ Store("^C")
    /\ Exit("exit 2")
    /\ UNCHANGED <<line_buf, settings, elapsed, link, reported>>

EmptyLine ==
    /\ "NL" \in Sendable /\ Store("NL")
    /\ line_buf = <<>>
    /\ UNCHANGED <<line_buf, settings, elapsed, ending>>

InvalidScale ==
    /\ "NL" \in Sendable /\ Store("NL")
    /\ line_buf # <<>> /\ Head(line_buf) = "SCALE?"
    /\ Exit("exit 1")
    /\ UNCHANGED <<line_buf, settings, elapsed, link, reported>>

(* Mutant: the line is not cleared after its command.                      *)
BugProcessCommand ==
    LET command == Head(line_buf)
        generate == (generate_reports \/ command = "START") /\ command # "STOP"
    IN  /\ generate_reports' = generate
        /\ interrupt' = (interrupt \/ command = "OFF")
        /\ UNCHANGED <<line_buf, period, elapsed>>
        /\ \/ ~interrupt' /\ UNCHANGED ending
           \/ interrupt' /\ Report(TRUE, generate, pc)

(* process_command: a PERIOD of any kind takes effect on the running       *)
(* timer; OFF, and any command after the button was seen, shuts down.      *)
ProcessCommand ==
    LET command == Head(line_buf)
        generate == (generate_reports \/ command = "START") /\ command # "STOP"
    IN  /\ generate_reports' = generate
        /\ interrupt' = (interrupt \/ command = "OFF")
        /\ line_buf' = <<>>
        /\ IF command = "PERIOD"
           THEN period' \in {"some", "zero", "never"} /\ elapsed' \in BOOLEAN
           ELSE UNCHANGED <<period, elapsed>>
        /\ \/ ~interrupt' /\ UNCHANGED ending
           \/ interrupt' /\ Report(TRUE, generate, pc)

Command ==
    /\ "NL" \in Sendable /\ Store("NL")
    /\ line_buf # <<>> /\ Head(line_buf) # "SCALE?"
    /\ ProcessCommand

(* Mutant: the last byte of a batch is left out.                           *)
BugBatchDone ==
    /\ pc = "store" /\ num_chars <= 1
    /\ num_chars' = 0
    /\ Goto("button")
    /\ UNCHANGED <<program, input, done, understood, pending, line_buf, settings, elapsed, link, reported>>

BatchDone ==
    /\ pc = "store" /\ num_chars = 0
    /\ Goto("button")
    /\ UNCHANGED <<program, input, reading, settings, elapsed, link, reported>>

-----------------------------------------------------------------------------
(* The rest of the main loop.                                              *)

(* read_button remembers that the button was down.                         *)
ReadButton ==
    /\ pc = "button"
    /\ \/ /\ interrupt' \in {interrupt, TRUE}
          /\ Goto("period")
       \/ /\ Exit("exit 1")
          /\ UNCHANGED interrupt
    /\ UNCHANGED <<program, input, reading, generate_reports, period, elapsed, link, reported>>

Due == period = "zero" \/ (period = "some" /\ elapsed)

(* Mutant: the timer is restarted before it is tested.                     *)
BugTestPeriod ==
    /\ pc = "period"
    /\ elapsed' = FALSE
    /\ IF period = "zero" THEN Report(interrupt, generate_reports, "poll")
       ELSE Goto("poll") /\ UNCHANGED <<link, reported>>
    /\ UNCHANGED <<program, input, reading, settings>>

TestPeriod ==
    /\ pc = "period"
    /\ \/ /\ Due
          /\ Report(interrupt, generate_reports, "poll")
          /\ elapsed' = FALSE
       \/ /\ ~Due
          /\ Goto("poll")
          /\ UNCHANGED <<elapsed, link, reported>>
    /\ UNCHANGED <<program, input, reading, settings>>

Loop ==
    \/ FirstReport \/ ReadInput \/ NoInput
    \/ \E c \in Word \cap Sendable : StoreWord(c)
    \/ StoreDel \/ CtrlC \/ EmptyLine \/ InvalidScale \/ Command \/ BatchDone
    \/ ReadButton \/ TestPeriod

Next == Loop \/ Send \/ HostCloses \/ Reset \/ Clock

Spec == Init /\ [][Next]_vars

(* The station runs, its clock advances, the network delivers.             *)
FairSpec == Spec /\ WF_vars(Loop) /\ WF_vars(Clock) /\ WF_vars(Reset)

-----------------------------------------------------------------------------
(* Properties.                                                             *)

(* The orders do not depend on how the stream is cut into reads: unless a  *)
(* line filled line_buf, the station has the unfinished line of the        *)
(* stream, and reports exactly if the last STOP or START says so.          *)
OrdersFollowed ==
    status = "running" /\ ~understood.full =>
        /\ line_buf = understood.line
        /\ generate_reports = understood.on

(* The station handles every byte sent over a plain connection.            *)
InputHandled ==
    (~is_secure /\ done < sent) ~> (done = sent \/ pc = "ended")

(* The button ends the station, stopped or not, unless the period is one   *)
(* that never ends.                                                        *)
ButtonEnds ==
    interrupt ~> (pc = "ended" \/ period = "never")

(* README of project 4c, 16-18: the program "takes in commands from a      *)
(* server": every byte sent is handled, over TLS too.                      *)
CommandsTaken ==
    (done < sent) ~> (done = sent \/ pc = "ended")

=============================================================================
