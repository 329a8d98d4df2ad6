----------------------------- MODULE ShellRelay -----------------------------
(***************************************************************************)
(* lab1a.c (project 1a): a process that relays the keyboard to a child     *)
(* shell and the shell's output to the screen, over two pipes.             *)
(*                                                                         *)
(* A byte is one of four classes: "plain" (any byte that is passed on, new *)
(* lines included), "ctrlC", "ctrlD" and "del".  The keyboard is a         *)
(* terminal, or a pipe that its writer may close.  Setting up the terminal *)
(* and restoring it at exit are left out.                                  *)
(***************************************************************************)
EXTENDS Integers, Sequences

CONSTANTS
    BUFSIZE,      \* what one read() takes at most
    PIPE_SIZE,    \* the capacity of a pipe
    MaxKeys,      \* bounds the bytes typed
    MaxOutput,    \* bounds the bytes that the shell writes
    ShellBytes    \* the classes of bytes that the shell writes

ASSUME SizeAssumption ==
    /\ BUFSIZE \in Nat \ {0} /\ PIPE_SIZE \in Nat \ {0}
    /\ MaxKeys \in Nat /\ MaxOutput \in Nat

Byte == {"plain", "ctrlC", "ctrlD", "del"}
ASSUME ShellAssumption == ShellBytes \subseteq Byte

FROM_KEYBOARD == 0
FROM_SHELL == 1

VARIABLES
    pass_shell,        \* --shell was given
    keys, typed,       \* typed bytes that are not read yet; their number ever
    kbd_open,          \* the keyboard can still deliver bytes
    toShell, fromShell,\* the pipes wr_pipefd and rw_pipefd
    pipes_open,        \* the relay's ends of the pipes
    shell,             \* "none", "running", or how it ended
    sigint,            \* a SIGINT is pending for the shell
    writing,           \* the byte that the shell is writing, or "none"
    tpc, n, revents, buf,  \* the poll loop and its local variables
    status,            \* "running", or how the relay ended
    left,              \* auxiliary: why it left the loop
    produced, shown    \* auxiliary: bytes written by the shell, and displayed

keyboard == <<keys, typed, kbd_open>>
shellVars == <<shell, writing, produced>>
vars == <<pass_shell, keyboard, toShell, fromShell, pipes_open, shellVars, sigint,
          tpc, n, revents, buf, status, left, shown>>

TypeOK ==
    /\ pass_shell \in BOOLEAN
    /\ keys \in Seq(Byte)
    /\ typed \in 0 .. MaxKeys
    /\ kbd_open \in BOOLEAN
    /\ toShell \in Seq({"plain"}) /\ Len(toShell) <= PIPE_SIZE
    /\ fromShell \in Seq(ShellBytes) /\ Len(fromShell) <= PIPE_SIZE
    /\ pipes_open \in BOOLEAN
    /\ shell \in {"none", "running", "exited", "killed"}
    /\ sigint \in BOOLEAN
    /\ writing \in ShellBytes \cup {"none"}
    /\ tpc \in {"poll", "source", "byte", "wait", "ended"}
    /\ n \in {FROM_KEYBOARD, FROM_SHELL}
    /\ revents \in [{FROM_KEYBOARD, FROM_SHELL} -> SUBSET {"POLLIN", "POLLHUP"}]
    /\ buf \in Seq(Byte) /\ Len(buf) <= BUFSIZE
    /\ status \in {"running", "exit 0", "exit 1"}
    /\ left \in {"no", "key", "hangup", "pipe"}
    /\ produced \in 0 .. MaxOutput
    /\ shown \in 0 .. produced

Init ==
    /\ pass_shell \in BOOLEAN
    /\ keys = <<>> /\ typed = 0 /\ kbd_open = TRUE
    /\ toShell = <<>> /\ fromShell = <<>>
    /\ pipes_open = pass_shell
    /\ shell = IF pass_shell THEN "running" ELSE "none"
    /\ sigint = FALSE /\ writing = "none"
    /\ tpc = "poll" /\ n = FROM_KEYBOARD
    /\ revents = [f \in {FROM_KEYBOARD, FROM_SHELL} |-> {}]
    /\ buf = <<>>
    /\ status = "running" /\ left = "no"
    /\ produced = 0 /\ shown = 0

-----------------------------------------------------------------------------
(* The user.                                                               *)

Type ==
    /\ kbd_open
    /\ typed < MaxKeys
    /\ \E c \in Byte : keys' = Append(keys, c)
    /\ typed' = typed + 1
    /\ UNCHANGED <<pass_shell, kbd_open, toShell, fromShell, pipes_open, shellVars, sigint,
                   tpc, n, revents, buf, status, left, shown>>

CloseKeyboard ==
    /\ kbd_open
    /\ kbd_open' = FALSE
    /\ UNCHANGED <<pass_shell, keys, typed, toShell, fromShell, pipes_open, shellVars, sigint,
                   tpc, n, revents, buf, status, left, shown>>

-----------------------------------------------------------------------------
(* The shell: it reads its input and writes some output.  It ends when it  *)
(* likes, at the end of its input, by SIGINT (which it may ignore), or by  *)
(* SIGPIPE when nobody reads its output any more.                          *)

relayVars == <<tpc, n, revents, buf, status, left, shown>>
Unread == <<pass_shell, keyboard, pipes_open, relayVars>>

ShellRead ==
    /\ shell = "running" /\ writing = "none"
    /\ toShell # <<>>
    /\ toShell' = Tail(toShell)
    /\ writing' \in (IF produced < MaxOutput THEN ShellBytes ELSE {}) \cup {"none"}
    /\ UNCHANGED <<Unread, fromShell, shell, produced, sigint>>

ShellStartsWriting ==
    /\ shell = "running" /\ writing = "none"
    /\ produced < MaxOutput
    /\ writing' \in ShellBytes
    /\ UNCHANGED <<Unread, toShell, fromShell, shell, produced, sigint>>

ShellWrite ==
    /\ shell = "running" /\ writing # "none"
    /\ \/ /\ pipes_open
          /\ Len(fromShell) < PIPE_SIZE
          /\ fromShell' = Append(fromShell, writing)
          /\ produced' = produced + 1
          /\ writing' = "none"
          /\ UNCHANGED shell
       \/ /\ ~pipes_open
          /\ shell' = "killed"
          /\ UNCHANGED <<fromShell, produced, writing>>
    /\ UNCHANGED <<Unread, toShell, sigint>>

ShellExit ==
    /\ shell = "running" /\ writing = "none"
    /\ shell' = "exited"
    /\ UNCHANGED <<Unread, toShell, fromShell, writing, produced, sigint>>

ShellEof == ~pipes_open /\ toShell = <<>> /\ ShellExit

Interrupt ==
    /\ shell = "running" /\ sigint
    /\ sigint' = FALSE
    /\ shell' \in {"running", "killed"}
    /\ UNCHANGED <<Unread, toShell, fromShell, writing, produced>>

ShellStep == ShellRead \/ ShellWrite \/ ShellEof \/ Interrupt

-----------------------------------------------------------------------------
(* The relay.                                                              *)

ShellDead == shell \in {"exited", "killed"}

Stream(f) == IF f = FROM_KEYBOARD THEN keys ELSE fromShell

(* What poll() reports.  A pipe reports POLLHUP when no writer is left,    *)
(* with POLLIN as long as it holds bytes; here POLLHUP is only looked at   *)
(* without POLLIN.                                                         *)
Bits(f) ==
    (IF Stream(f) # <<>> THEN {"POLLIN"} ELSE {})
    \cup (IF (f = FROM_KEYBOARD /\ ~kbd_open) \/ (f = FROM_SHELL /\ ShellDead)
          THEN {"POLLHUP"} ELSE {})

Poll ==
    /\ tpc = "poll"
    /\ revents' = [f \in {FROM_KEYBOARD, FROM_SHELL} |-> Bits(f)]
    /\ n' = FROM_KEYBOARD
    /\ tpc' = "source"
    /\ UNCHANGED <<pass_shell, keyboard, toShell, fromShell, pipes_open, shellVars, sigint,
                   buf, status, left, shown>>

(* Mutant: one source too many.                                            *)
BugNextSource ==
    IF n <= FROM_SHELL /\ pass_shell
    THEN n' = n + 1 /\ tpc' = "source"
    ELSE tpc' = "poll" /\ UNCHANGED n

(* The next round of the loop over the num_processes descriptors.          *)
NextSource ==
    IF n = FROM_KEYBOARD /\ pass_shell
    THEN n' = FROM_SHELL /\ tpc' = "source"
    ELSE tpc' = "poll" /\ UNCHANGED n

Read ==
    /\ tpc = "source"
    /\ "POLLIN" \in revents[n]
    /\ LET taken == SubSeq(Stream(n), 1, BUFSIZE)
           rest == SubSeq(Stream(n), BUFSIZE + 1, Len(Stream(n)))
       IN  /\ buf' = IF Len(Stream(n)) <= BUFSIZE THEN Stream(n) ELSE taken
           /\ \/ n = FROM_KEYBOARD /\ keys' = rest /\ UNCHANGED fromShell
              \/ n = FROM_SHELL /\ fromShell' = rest /\ UNCHANGED keys
    /\ tpc' = "byte"
    /\ UNCHANGED <<pass_shell, typed, kbd_open, toShell, pipes_open, shellVars, sigint,
                   n, revents, status, left, shown>>

Quiet ==
    /\ tpc = "source"
    /\ revents[n] = {}
    /\ NextSource
    /\ UNCHANGED <<pass_shell, keyboard, toShell, fromShell, pipes_open, shellVars, sigint,
                   revents, buf, status, left, shown>>

BatchDone ==
    /\ tpc = "byte"
    /\ buf = <<>>
    /\ NextSource
    /\ UNCHANGED <<pass_shell, keyboard, toShell, fromShell, pipes_open, shellVars, sigint,
                   revents, buf, status, left, shown>>

(* Mutant: the pipes stay open while the relay waits.                      *)
BugShellStatus(why) ==
    /\ tpc' = "wait"
    /\ left' = why
    /\ UNCHANGED <<pass_shell, keyboard, toShell, fromShell, pipes_open, shellVars, sigint,
                   n, revents, status>>

(* The first half of shell_status: the pipes are closed.                   *)
ShellStatus(why) ==
    /\ pipes_open' = FALSE
    /\ tpc' = "wait"
    /\ left' = why
    /\ UNCHANGED <<pass_shell, keyboard, toShell, fromShell, shellVars, sigint,
                   n, revents, status>>

(* Mutant: a hang-up ends the loop even if there are bytes to read.        *)
BugHangUp ==
    /\ tpc = "source"
    /\ "POLLHUP" \in revents[n]
    /\ ShellStatus("hangup")
    /\ UNCHANGED <<buf, shown>>

HangUp ==
    /\ tpc = "source"
    /\ "POLLHUP" \in revents[n] /\ "POLLIN" \notin revents[n]
    /\ ShellStatus("hangup")
    /\ UNCHANGED <<buf, shown>>

(* Byte c of the batch, the next one, is displayed.                        *)
Take(c) ==
    /\ tpc = "byte"
    /\ buf # <<>>
    /\ Head(buf) = c
    /\ buf' = Tail(buf)
    /\ shown' = IF n = FROM_SHELL THEN shown + 1 ELSE shown

(* It is passed on to the shell if it comes from the keyboard: the write   *)
(* waits for room, and is a SIGPIPE, on which the handler runs             *)
(* shell_status, when the shell is gone.                                   *)
PassOn ==
    /\ Take("plain")
    /\ \/ /\ n = FROM_SHELL \/ ~pass_shell
          /\ UNCHANGED <<pass_shell, keyboard, toShell, fromShell, pipes_open, shellVars,
                         sigint, tpc, n, revents, status, left>>
       \/ /\ n = FROM_KEYBOARD /\ shell = "running"
          /\ Len(toShell) < PIPE_SIZE
          /\ toShell' = Append(toShell, "plain")
          /\ UNCHANGED <<pass_shell, keyboard, fromShell, pipes_open, shellVars,
                         sigint, tpc, n, revents, status, left>>
       \/ /\ n = FROM_KEYBOARD /\ ShellDead
          /\ ShellStatus("pipe")

Del ==
    /\ Take("del")
    /\ UNCHANGED <<pass_shell, keyboard, toShell, fromShell, pipes_open, shellVars, sigint,
                   tpc, n, revents, status, left>>

(* A zombie can still be killed.                                           *)
CtrlC ==
    /\ Take("ctrlC")
    /\ sigint' = (sigint \/ shell = "running")
    /\ UNCHANGED <<pass_shell, keyboard, toShell, fromShell, pipes_open, shellVars,
                   tpc, n, revents, status, left>>

CtrlD ==
    /\ Take("ctrlD")
    /\ \/ pass_shell /\ ShellStatus("key")
       \/ /\ ~pass_shell
          /\ tpc' = "ended" /\ status' = "exit 0" /\ left' = "key"
          /\ UNCHANGED <<pass_shell, keyboard, toShell, fromShell, pipes_open, shellVars,
                         sigint, n, revents>>

(* Mutant: the relay does not wait for the shell.                          *)
BugWait ==
    /\ tpc = "wait"
    /\ tpc' = "ended"
    /\ status' = IF shell = "exited" THEN "exit 0" ELSE "exit 1"
    /\ UNCHANGED <<pass_shell, keyboard, toShell, fromShell, pipes_open, shellVars, sigint,
                   n, revents, buf, left, shown>>

(* The second half: waitpid fails if there is no shell, else it waits.     *)
Wait ==
    /\ tpc = "wait"
    /\ shell # "running"
    /\ tpc' = "ended"
    /\ status' = IF shell = "exited" THEN "exit 0" ELSE "exit 1"
    /\ UNCHANGED <<pass_shell, keyboard, toShell, fromShell, pipes_open, shellVars, sigint,
                   n, revents, buf, left, shown>>

Relay ==
    \/ Poll \/ Read \/ Quiet \/ HangUp \/ BatchDone
    \/ PassOn \/ Del \/ CtrlC \/ CtrlD \/ Wait

-----------------------------------------------------------------------------
User == Type \/ CloseKeyboard

Next == Relay \/ ShellStep \/ ShellStartsWriting \/ ShellExit \/ User

Spec == Init /\ [][Next]_vars

(* The kernel runs the relay; the shell reads on, writes what it has to    *)
(* write, and exits at the end of its input.                               *)
FairSpec == Spec /\ WF_vars(Relay) /\ WF_vars(ShellStep)

-----------------------------------------------------------------------------
(* Properties.                                                             *)

(* When the relay leaves because the shell hung up, everything that the    *)
(* shell ever wrote has been displayed: POLLIN is looked at before POLLHUP *)
(* in every round (lab1a.c:108-142).                                       *)
NoOutputLost ==
    left = "hangup" /\ n = FROM_SHELL => shown = produced

(* The relay leaves no shell behind, and its exit status tells how the     *)
(* shell ended.                                                            *)
ShellReaped ==
    pass_shell /\ status # "running" =>
        \/ shell = "exited" /\ status = "exit 0"
        \/ shell = "killed" /\ status = "exit 1"

BothFull == Len(toShell) = PIPE_SIZE /\ Len(fromShell) = PIPE_SIZE

(* The relay ends once the shell has ended or is being waited for.  A ^D   *)
(* that was typed ends it too, unless relay and shell are each blocked     *)
(* writing to the other, which takes two full pipes.                       *)
Ends ==
    /\ (ShellDead \/ tpc = "wait") ~> tpc = "ended"
    /\ (\E i \in 1 .. Len(keys) : keys[i] = "ctrlD") ~> (tpc = "ended" \/ BothFull)

=============================================================================
