---------------------------- MODULE RemoteShell ----------------------------
(***************************************************************************)
(* lab1b-client.c and lab1b-server.c (project 1b): the two ends of one     *)
(* TCP connection and the shell behind the server.  Both programs are the  *)
(* same source, poll_inputs serves both roles.                             *)
(*                                                                         *)
(* A byte is one of four classes: "plain", "ctrlC", "ctrlD", "del"; a      *)
(* message is what one write_to_socket sends.  The queues of the           *)
(* connection and the pipes hold all that the bounds let through (full     *)
(* pipes are a matter of module ShellRelay), and one read takes them all.  *)
(* The log and the terminal settings are left out.                         *)
(***************************************************************************)
EXTENDS Integers, Sequences

CONSTANTS
    HasKey,       \* the values of has_key considered: --encrypt given
    MaxKeys,      \* bounds the bytes typed
    MaxOutput,    \* bounds the bytes that the shell writes
    ShellBytes    \* the classes of bytes that the shell writes

ASSUME KeyAssumption == HasKey \subseteq BOOLEAN
Byte == {"plain", "ctrlC", "ctrlD", "del"}

ASSUME BoundAssumption == MaxKeys \in Nat /\ MaxOutput \in Nat
ASSUME ShellAssumption == ShellBytes \subseteq Byte

Role == {"client", "server"}
Peer(r) == IF r = "client" THEN "server" ELSE "client"
INITIAL_INPUT == 0
REDIRECT_INPUT == 1
Input == {INITIAL_INPUT, REDIRECT_INPUT}

VARIABLES
    has_key,
    keys, typed,          \* typed bytes not read yet; their number ever
    inq,                  \* inq[r]: what r can read from its socket
    eof,                  \* eof[r]: the peer's end of stream has arrived
    err,                  \* err[r]: "none", a reset is "coming", has arrived
                          \* and is "pending", or was reported: "taken"
    toShell, fromShell, pipes_open,
    shell, sigint,        \* as in ShellRelay
    pc, n, ready, buf,    \* pc[r], ...: the loop of r and its locals
    exit_triggered,       \* exit_triggered[r]: "no", or the key that did it
    status,               \* status[r]: "running", or how r ended
    left,                 \* auxiliary: left[r]: why r left the loop
    garbled,              \* auxiliary: r read other bytes than were sent
    produced, shown       \* auxiliary: bytes the shell wrote, and displayed

typing == <<keys, typed>>
socket == <<inq, eof, err>>
pipes == <<toShell, fromShell, pipes_open>>
shellVars == <<shell, sigint, produced>>
loop == <<pc, n, ready, buf, garbled>>
ends == <<exit_triggered, status, left>>
vars == <<has_key, typing, socket, pipes, shellVars, loop, ends, shown>>

TypeOK ==
    /\ has_key \in HasKey
    /\ keys \in Seq(Byte) /\ typed \in 0 .. MaxKeys
    /\ inq \in [Role -> Seq(Byte)]
    /\ eof \in [Role -> BOOLEAN]
    /\ err \in [Role -> {"none", "coming", "pending", "taken"}]
    /\ toShell \in Seq({"plain"}) /\ fromShell \in Seq(ShellBytes)
    /\ pipes_open \in BOOLEAN
    /\ shell \in {"running", "exited", "killed"}
    /\ sigint \in BOOLEAN
    /\ pc \in [Role -> {"poll", "source", "byte", "wait", "ended"}]
    /\ n \in [Role -> Input]
    /\ ready \in [Role -> [Input -> {"none", "in", "hup"}]]
    /\ buf \in [Role -> Seq(Byte)]
    /\ exit_triggered \in [Role -> {"no", "ctrlC", "ctrlD"}]
    /\ status \in [Role -> {"running", "exit 0", "exit 1"}]
    /\ left \in [Role -> {"no", "key", "hangup", "pipe", "error"}]
    /\ garbled \in [Role -> BOOLEAN]
    /\ produced \in 0 .. MaxOutput
    /\ shown \in 0 .. MaxKeys + MaxOutput

(* The connection is established and the shell is started.                 *)
Init ==
    /\ has_key \in HasKey
    /\ keys = <<>> /\ typed = 0
    /\ inq = [r \in Role |-> <<>>]
    /\ eof = [r \in Role |-> FALSE]
    /\ err = [r \in Role |-> "none"]
    /\ toShell = <<>> /\ fromShell = <<>> /\ pipes_open = TRUE
    /\ shell = "running" /\ sigint = FALSE
    /\ pc = [r \in Role |-> "poll"]
    /\ n = [r \in Role |-> INITIAL_INPUT]
    /\ ready = [r \in Role |-> [f \in Input |-> "none"]]
    /\ buf = [r \in Role |-> <<>>]
    /\ exit_triggered = [r \in Role |-> "no"]
    /\ status = [r \in Role |-> "running"]
    /\ left = [r \in Role |-> "no"]
    /\ garbled = [r \in Role |-> FALSE]
    /\ produced = 0 /\ shown = 0

Gone(r) == status[r] # "running"
ShellDead == shell # "running"

-----------------------------------------------------------------------------
(* The user and the shell.                                                 *)

Type ==
    /\ typed < MaxKeys /\ ~Gone("client")
    /\ \E c \in Byte : keys' = Append(keys, c)
    /\ typed' = typed + 1
    /\ UNCHANGED <<has_key, socket, pipes, shellVars, loop, ends, shown>>

ShellRead ==
    /\ shell = "running"
    /\ toShell # <<>>
    /\ toShell' = Tail(toShell)
    /\ UNCHANGED <<has_key, typing, socket, fromShell, pipes_open, shellVars, loop, ends, shown>>

(* A write into a pipe that nobody reads any more kills the shell.         *)
ShellWrite ==
    /\ shell = "running"
    /\ \/ /\ pipes_open /\ produced < MaxOutput
          /\ \E c \in ShellBytes : fromShell' = Append(fromShell, c)
          /\ produced' = produced + 1
          /\ UNCHANGED shell
       \/ /\ ~pipes_open
          /\ shell' = "killed"
          /\ UNCHANGED <<fromShell, produced>>
    /\ UNCHANGED <<has_key, typing, socket, toShell, pipes_open, sigint, loop, ends, shown>>

ShellExit ==
    /\ shell = "running"
    /\ shell' = "exited"
    /\ UNCHANGED <<has_key, typing, socket, pipes, sigint, produced, loop, ends, shown>>

ShellEof == ~pipes_open /\ toShell = <<>> /\ ShellExit

(* SIGINT kills the shell, unless it is waiting for a program.             *)
Interrupt ==
    /\ shell = "running" /\ sigint
    /\ sigint' = FALSE
    /\ shell' \in {"running", "killed"}
    /\ UNCHANGED <<has_key, typing, socket, pipes, produced, loop, ends, shown>>

ShellStep == ShellRead \/ ShellEof \/ Interrupt

-----------------------------------------------------------------------------
(* The connection.                                                         *)

(* A write reached a closed socket: its reset comes back.                  *)
Reset(r) ==
    /\ err[r] = "coming"
    /\ err' = [err EXCEPT ![r] = "pending"]
    /\ UNCHANGED <<has_key, typing, inq, eof, pipes, shellVars, loop, ends, shown>>

(* r ends and closes its socket.  What it has not read resets the peer,    *)
(* else the peer gets an end of stream; what it has sent can still be read.*)
(* (The shell inherits the server's socket and would keep it open; but the *)
(* server only ends once the shell, or else the client, has ended.)        *)
Close(r, how) ==
    /\ status' = [status EXCEPT ![r] = how]
    /\ inq' = [inq EXCEPT ![r] = <<>>]
    /\ \/ /\ inq[r] = <<>> \/ Gone(Peer(r))
          /\ eof' = [eof EXCEPT ![Peer(r)] = TRUE]
          /\ UNCHANGED err
       \/ /\ inq[r] # <<>> /\ ~Gone(Peer(r))
          /\ err' = [err EXCEPT ![Peer(r)] = "pending"]
          /\ UNCHANGED eof

Ended(r, why) ==
    /\ pc' = [pc EXCEPT ![r] = "ended"]
    /\ left' = [left EXCEPT ![r] = why]

(* check() finds an error and exits with 1; the pipes go with the process. *)
CheckFails(r) ==
    /\ Close(r, "exit 1")
    /\ Ended(r, "error")
    /\ pipes_open' = (pipes_open /\ r # "server")

(* The server leaves its loop to wait for the shell.                       *)
Leave(why) ==
    /\ pc' = [pc EXCEPT !["server"] = "wait"]
    /\ left' = [left EXCEPT !["server"] = why]
    /\ UNCHANGED <<status, inq, eof, err>>

(* SIGPIPE: the handler shuts down, the server after closing the pipes.    *)
SigPipe(r) ==
    \/ /\ r = "client"
       /\ Close(r, "exit 0") /\ Ended(r, "pipe")
       /\ UNCHANGED pipes_open
    \/ /\ r = "server"
       /\ pipes_open' = FALSE
       /\ Leave("pipe")

Stay == UNCHANGED <<pc, left, status, eof, pipes_open>>

(* r writes c to its socket, and checks the result unless it is a DEL.     *)
Send(r, c) ==
    \/ /\ ~Gone(Peer(r))
       /\ inq' = [inq EXCEPT ![Peer(r)] = Append(@, c)]
       /\ Stay /\ UNCHANGED err
    \/ /\ Gone(Peer(r)) /\ err[r] \in {"none", "coming"}
       /\ err' = [err EXCEPT ![r] = "coming"]
       /\ Stay /\ UNCHANGED inq
    \/ /\ err[r] = "pending" /\ ~eof[r] /\ c # "del"
       /\ CheckFails(r)
    \/ /\ err[r] = "pending" /\ ~eof[r] /\ c = "del"
       /\ err' = [err EXCEPT ![r] = "taken"]
       /\ Stay /\ UNCHANGED inq
    \/ /\ err[r] = "taken" \/ (err[r] = "pending" /\ eof[r])
       /\ SigPipe(r)

-----------------------------------------------------------------------------
(* poll_inputs, for both roles.                                            *)

FromSocket(r, f) == (r = "server") <=> (f = INITIAL_INPUT)

Queue(r, f) ==
    IF FromSocket(r, f) THEN inq[r]
    ELSE IF r = "client" THEN keys ELSE fromShell

(* What poll() reports: a socket at its end or with an error is readable.  *)
Event(r, f) ==
    CASE Queue(r, f) # <<>> -> "in"
      [] FromSocket(r, f) /\ (eof[r] \/ err[r] \in {"pending", "taken"}) -> "in"
      [] r = "server" /\ f = REDIRECT_INPUT /\ ShellDead /\ fromShell = <<>> -> "hup"
      [] OTHER -> "none"

Poll(r) ==
    /\ pc[r] = "poll"
    /\ r = "client" => exit_triggered[r] = "no"
    /\ ready' = [ready EXCEPT ![r] = [f \in Input |-> Event(r, f)]]
    /\ n' = [n EXCEPT ![r] = INITIAL_INPUT]
    /\ pc' = [pc EXCEPT ![r] = "source"]
    /\ UNCHANGED <<has_key, typing, socket, pipes, shellVars, buf, garbled, ends, shown>>

(* The client finishes its cycle, then shuts down.                         *)
ClientLeaves ==
    /\ pc["client"] = "poll"
    /\ exit_triggered["client"] # "no"
    /\ Close("client", "exit 0")
    /\ Ended("client", "key")
    /\ UNCHANGED <<has_key, typing, pipes, shellVars, n, ready, buf, garbled,
                   exit_triggered, shown>>

(* Mutant: one input too many.                                             *)
BugNextSource(r) ==
    /\ n' = [n EXCEPT ![r] = @ + 1]
    /\ pc' = [pc EXCEPT ![r] = IF n[r] > REDIRECT_INPUT THEN "poll" ELSE "source"]

NextSource(r) ==
    \/ /\ n[r] = INITIAL_INPUT
       /\ n' = [n EXCEPT ![r] = REDIRECT_INPUT]
       /\ pc' = [pc EXCEPT ![r] = "source"]
    \/ /\ n[r] = REDIRECT_INPUT
       /\ pc' = [pc EXCEPT ![r] = "poll"]
       /\ UNCHANGED n

(* The plain texts that a batch may decrypt to.  Every message was         *)
(* encrypted on its own, a batch is decrypted as one text: only its first  *)
(* byte is certain to come out right, and a DEL was not encrypted at all.  *)
Intact(b) == Len(b) <= 1 /\ (b # <<>> => b[1] # "del")

Decrypted(r, b) ==
    IF has_key /\ FromSocket(r, n[r]) /\ ~Intact(b)
    THEN {d \in [1 .. Len(b) -> Byte] : b[1] # "del" => d[1] = b[1]}
    ELSE {b}

Read(r) ==
    /\ pc[r] = "source" /\ ready[r][n[r]] = "in"
    /\ Queue(r, n[r]) # <<>>
    /\ \E d \in Decrypted(r, Queue(r, n[r])) :
           /\ buf' = [buf EXCEPT ![r] = d]
           /\ garbled' = [garbled EXCEPT ![r] = @ \/ d # Queue(r, n[r])]
    /\ pc' = [pc EXCEPT ![r] = "byte"]
    /\ IF FromSocket(r, n[r])
       THEN inq' = [inq EXCEPT ![r] = <<>>] /\ UNCHANGED <<keys, fromShell>>
       ELSE /\ keys' = IF r = "client" THEN <<>> ELSE keys
            /\ fromShell' = IF r = "server" THEN <<>> ELSE fromShell
            /\ UNCHANGED inq
    /\ UNCHANGED <<has_key, typed, eof, err, toShell, pipes_open, shellVars, n, ready,
                   ends, shown>>

(* Mutant: an end of stream is read again at once.                         *)
BugReadError(r) ==
    /\ pc[r] = "source" /\ ready[r][n[r]] = "in"
    /\ Queue(r, n[r]) = <<>>
    /\ err[r] = "pending" /\ ~eof[r]
    /\ CheckFails(r)
    /\ UNCHANGED <<has_key, typing, toShell, fromShell, shellVars, n, ready, buf, garbled,
                   exit_triggered, shown>>

(* read() on a socket at its end returns 0 and the loop goes on; a pending *)
(* reset is an error.                                                      *)
ReadError(r) ==
    /\ pc[r] = "source" /\ ready[r][n[r]] = "in"
    /\ Queue(r, n[r]) = <<>>
    /\ \/ /\ err[r] = "pending" /\ ~eof[r]
          /\ CheckFails(r)
          /\ UNCHANGED n
       \/ /\ err[r] # "pending" \/ eof[r]
          /\ NextSource(r)
          /\ UNCHANGED <<socket, pipes_open, status, left>>
    /\ UNCHANGED <<has_key, typing, toShell, fromShell, shellVars, ready, buf, garbled,
                   exit_triggered, shown>>

Quiet(r) ==
    /\ \/ pc[r] = "source" /\ ready[r][n[r]] = "none"
       \/ pc[r] = "byte" /\ buf[r] = <<>>
    /\ NextSource(r)
    /\ UNCHANGED <<has_key, typing, socket, pipes, shellVars, ready, buf, garbled, ends, shown>>

(* Mutant: a hang-up ends the server even if there is output to read.      *)
BugHangUp ==
    /\ pc["server"] = "source"
    /\ ShellDead /\ n["server"] = REDIRECT_INPUT
    /\ Leave("hangup")
    /\ UNCHANGED <<has_key, typing, pipes, shellVars, n, ready, buf, garbled,
                   exit_triggered, shown>>

HangUp ==
    /\ pc["server"] = "source" /\ ready["server"][n["server"]] = "hup"
    /\ Leave("hangup")
    /\ UNCHANGED <<has_key, typing, pipes, shellVars, n, ready, buf, garbled,
                   exit_triggered, shown>>

-----------------------------------------------------------------------------
(* The loop over the bytes of a batch.                                     *)

Take(r, f, C) ==
    /\ pc[r] = "byte" /\ n[r] = f
    /\ buf[r] # <<>>
    /\ Head(buf[r]) \in C
    /\ buf' = [buf EXCEPT ![r] = Tail(@)]

(* The client displays what comes from the server.                         *)
ClientDisplays ==
    /\ Take("client", REDIRECT_INPUT, Byte)
    /\ shown' = shown + 1
    /\ UNCHANGED <<has_key, typing, socket, pipes, shellVars, pc, n, ready, garbled, ends>>

(* A typed byte is displayed and sent; a DEL and the control keys after    *)
(* the first are only displayed.                                           *)
ClientSends ==
    /\ Take("client", INITIAL_INPUT, Byte)
    /\ LET c == Head(buf["client"])
           control == c \in {"ctrlC", "ctrlD"}
       IN  IF c = "del" \/ (control /\ exit_triggered["client"] # "no")
           THEN UNCHANGED <<socket, pipes_open, pc, ends>>
           ELSE /\ exit_triggered' = IF control THEN [exit_triggered EXCEPT !["client"] = c]
                                     ELSE exit_triggered
                /\ Send("client", c)
    /\ UNCHANGED <<has_key, typing, toShell, fromShell, shellVars, n, ready, garbled, shown>>

(* The server passes a typed byte on to the shell; when the shell is gone  *)
(* the write is a SIGPIPE.                                                 *)
ServerToShell ==
    /\ Take("server", INITIAL_INPUT, {"plain"})
    /\ \/ /\ ~ShellDead
          /\ toShell' = Append(toShell, "plain")
          /\ Stay
       \/ /\ ShellDead
          /\ SigPipe("server")
          /\ UNCHANGED toShell
    /\ UNCHANGED <<has_key, typing, socket, fromShell, shellVars, n, ready, garbled,
                   exit_triggered, status, shown>>

(* ^C interrupts the shell and waits for it, the pipes stay open.          *)
ServerCtrlC ==
    /\ Take("server", INITIAL_INPUT, {"ctrlC"})
    /\ exit_triggered["server"] = "no"
    /\ exit_triggered' = [exit_triggered EXCEPT !["server"] = "ctrlC"]
    /\ sigint' = (sigint \/ shell = "running")
    /\ Leave("key")
    /\ UNCHANGED <<has_key, typing, pipes, shell, produced, n, ready, garbled, shown>>

(* Mutant: ^D waits without closing the pipes, as ^C does.                 *)
BugServerCtrlD ==
    /\ Take("server", INITIAL_INPUT, {"ctrlD"})
    /\ exit_triggered["server"] = "no"
    /\ exit_triggered' = [exit_triggered EXCEPT !["server"] = "ctrlD"]
    /\ Leave("key")
    /\ UNCHANGED <<has_key, typing, pipes, shellVars, n, ready, garbled, shown>>

(* ^D closes the pipes, the shell's input is at its end.                   *)
ServerCtrlD ==
    /\ Take("server", INITIAL_INPUT, {"ctrlD"})
    /\ exit_triggered["server"] = "no"
    /\ exit_triggered' = [exit_triggered EXCEPT !["server"] = "ctrlD"]
    /\ pipes_open' = FALSE
    /\ Leave("key")
    /\ UNCHANGED <<has_key, typing, toShell, fromShell, shellVars, n, ready, garbled, shown>>

(* The shell's output is sent to the client; so is a DEL of the client.    *)
ServerSends ==
    /\ \/ Take("server", REDIRECT_INPUT, Byte)
       \/ Take("server", INITIAL_INPUT, {"del"})
    /\ Send("server", Head(buf["server"]))
    /\ UNCHANGED <<has_key, typing, toShell, fromShell, shellVars, n, ready, garbled,
                   exit_triggered, shown>>

(* The rest of initiate_shutdown, when waitpid has returned.               *)
ServerWait ==
    /\ pc["server"] = "wait"
    /\ ShellDead
    /\ Close("server", IF shell = "exited" THEN "exit 0" ELSE "exit 1")
    /\ pc' = [pc EXCEPT !["server"] = "ended"]
    /\ pipes_open' = FALSE
    /\ UNCHANGED <<has_key, typing, toShell, fromShell, shellVars, n, ready, buf, garbled,
                   exit_triggered, left, shown>>

Loop(r) == Poll(r) \/ Read(r) \/ ReadError(r) \/ Quiet(r)
Client == Loop("client") \/ ClientDisplays \/ ClientSends \/ ClientLeaves
Server ==
    \/ Loop("server") \/ HangUp
    \/ ServerToShell \/ ServerCtrlC \/ ServerCtrlD \/ ServerSends \/ ServerWait

Network == \E r \in Role : Reset(r)

Next == Client \/ Server \/ Network \/ ShellStep \/ ShellWrite \/ ShellExit \/ Type

Spec == Init /\ [][Next]_vars

(* The kernels run both programs and deliver; the shell reads on, exits at *)
(* the end of its input and meets its signals.                             *)
FairSpec ==
    /\ Spec
    /\ WF_vars(Client) /\ WF_vars(Server) /\ WF_vars(ShellStep)
    /\ \A r \in Role : WF_vars(Reset(r))

-----------------------------------------------------------------------------
(* Properties.                                                             *)

InTransit ==
    Len(inq["client"]) + (IF n["client"] = REDIRECT_INPUT THEN Len(buf["client"]) ELSE 0)

(* When the server leaves because the shell hung up, all that the shell    *)
(* wrote is on its way to the client or displayed: POLLIN is looked at     *)
(* before POLLHUP (451, 559).  A DEL that a wrong decryption made up is    *)
(* sent back and would count as output.                                    *)
OutputDelivered ==
    left["server"] = "hangup" /\ ~Gone("client") /\ ~garbled["server"]
        => produced = shown + InTransit

(* ^C lets the server wait for a shell that may live through the signal    *)
(* and whose input never ends.                                             *)
SurvivedInterrupt ==
    /\ pc["server"] = "wait" /\ exit_triggered["server"] = "ctrlC"
    /\ shell = "running" /\ ~sigint

(* A client that ends takes the server with it, without encryption: by the *)
(* key it sent, or because its end makes the server's writes fail.  The    *)
(* shell ends too, even where check() leaves the server without waiting    *)
(* for it (409).  The one exception is a shell that survives the ^C.       *)
ServerFollows ==
    (~has_key /\ Gone("client")) ~> ((Gone("server") /\ ShellDead) \/ SurvivedInterrupt)

(* A client does not outlive a ^C or ^D of its user, whatever has become   *)
(* of the server, though it reads an end of stream for ever when the server   *)
(* ended first (452).  Another key ends it then too, once the reset that   *)
(* answers the first of them has arrived.                                  *)
Stopping(c) ==
    \/ c \in {"ctrlC", "ctrlD"}
    \/ c = "plain" /\ Gone("server") /\ err["client"] \in {"pending", "taken"}
ClientStops == (\E i \in DOMAIN keys : Stopping(keys[i])) ~> Gone("client")

(* README of project 1b, 50-51: "Encryption and decryption was fine from   *)
(* client to server": what the server decrypts is what the client sent.    *)
KeysArriveIntact == ~garbled["server"]

=============================================================================
