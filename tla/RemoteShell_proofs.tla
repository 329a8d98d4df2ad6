------------------------- MODULE RemoteShell_proofs -------------------------
(***************************************************************************)
(* Theorems about client and server of project 1b: their types, and that   *)
(* the output of the shell is delivered when the shell hangs up.           *)
(***************************************************************************)
EXTENDS RemoteShell, SequenceTheorems, TLAPS

(* The bytes that r can read from its socket, those of its batch that it   *)
(* has not looked at, and those of them that came from its second input:   *)
(* for both programs, output of the shell.                                 *)
Waiting(r) == Len(inq[r])
Batched(r) == Len(buf[r])
Held(r) == IF n[r] = REDIRECT_INPUT THEN Batched(r) ELSE 0
Unread == Len(keys)
Written == Len(fromShell)

(* A batch is used up before the next poll() or read(), and the loop runs  *)
(* until there is a reason to leave it.                                    *)
LoopOK ==
    \A r \in Role :
        /\ pc[r] \in {"poll", "source"} => buf[r] = <<>>
        /\ (left[r] = "no") <=> (pc[r] \in {"poll", "source", "byte"})

(* Only a peer that is gone ends the stream or resets the connection.      *)
PeerOK == \A r \in Role : ~Gone(Peer(r)) => err[r] = "none" /\ ~eof[r]

(* The client sends no DEL, so that the server finds one only in a batch   *)
(* that it decrypted wrongly.                                              *)
NoDel ==
    /\ inq["server"] \in Seq(Byte \ {"del"})
    /\ n["server"] = INITIAL_INPUT /\ ~garbled["server"] =>
           buf["server"] \in Seq(Byte \ {"del"})

(* What poll() said of a hang-up stays true: a dead shell writes no more.  *)
HangUpOK ==
    /\ \A f \in Input : ready["server"][f] = "hup" =>
           f = REDIRECT_INPUT /\ ShellDead /\ fromShell = <<>>
    /\ left["server"] = "hangup" =>
           ShellDead /\ fromShell = <<>> /\ buf["server"] = <<>>

(* No byte is made on the way: what is displayed or about to be was typed, *)
(* and came back as a DEL, or was written by the shell.                    *)
Budget ==
    shown + Unread + Waiting("client") + Waiting("server") + Batched("client")
          + Batched("server") + Written <= typed + produced

(* No byte is lost as long as both programs are there to pass it on.       *)
Account ==
    left["server"] \in {"no", "hangup"} /\ ~Gone("client") /\ ~garbled["server"] =>
        produced = shown + Waiting("client") + Held("client") + Held("server") + Written

RemoteInv == TypeOK /\ LoopOK /\ PeerOK /\ NoDel /\ HangUpOK /\ Budget /\ Account

-----------------------------------------------------------------------------
(* The two programs.                                                       *)

LEMMA Roles ==
    /\ Role = {"client", "server"}
    /\ Peer("client") = "server" /\ Peer("server") = "client"
    /\ \A r \in Role : Peer(r) \in Role /\ Peer(r) # r /\ Peer(Peer(r)) = r
BY DEF Role, Peer

LEMMA Inputs ==
    /\ Input = {INITIAL_INPUT, REDIRECT_INPUT} /\ INITIAL_INPUT # REDIRECT_INPUT
    /\ \A r \in Role, f \in Input :
           FromSocket(r, f) <=> \/ r = "client" /\ f = REDIRECT_INPUT
                                \/ r = "server" /\ f = INITIAL_INPUT
BY DEF Input, INITIAL_INPUT, REDIRECT_INPUT, Role, FromSocket

(* The types, in parts: the sequences of bytes, the counts, how the ends   *)
(* of the connection are, and the control state.                           *)

Streams ==
    /\ keys \in Seq(Byte)
    /\ inq \in [Role -> Seq(Byte)]
    /\ toShell \in Seq({"plain"})
    /\ fromShell \in Seq(ShellBytes)
    /\ buf \in [Role -> Seq(Byte)]

Counts ==
    /\ typed \in 0 .. MaxKeys
    /\ produced \in 0 .. MaxOutput
    /\ shown \in Nat

Connection ==
    /\ eof \in [Role -> BOOLEAN]
    /\ err \in [Role -> {"none", "coming", "pending", "taken"}]
    /\ status \in [Role -> {"running", "exit 0", "exit 1"}]

Inside ==
    /\ pc \in [Role -> {"poll", "source", "byte", "wait", "ended"}]
    /\ n \in [Role -> Input]
    /\ ready \in [Role -> [Input -> {"none", "in", "hup"}]]
    /\ exit_triggered \in [Role -> {"no", "ctrlC", "ctrlD"}]
    /\ left \in [Role -> {"no", "key", "hangup", "pipe", "error"}]
    /\ garbled \in [Role -> BOOLEAN]

Outside ==
    /\ has_key \in HasKey
    /\ pipes_open \in BOOLEAN
    /\ shell \in {"running", "exited", "killed"}
    /\ sigint \in BOOLEAN

Control == Connection /\ Inside /\ Outside

LEMMA TypeParts == TypeOK => Streams /\ Counts /\ Control
<1>1. TypeOK => Streams
    BY DEF TypeOK, Streams
<1>2. TypeOK => Counts
    <2>1. \A s : s \in 0 .. MaxKeys + MaxOutput => s \in Nat
        BY BoundAssumption
    <2> QED  BY <2>1 DEF TypeOK, Counts
<1>3. TypeOK => Control
    BY DEF TypeOK, Control, Connection, Inside, Outside
<1> QED  BY <1>1, <1>2, <1>3

(* All quantities of the accounts are natural numbers, now and after a     *)
(* step.                                                                   *)
LEMMA Lengths ==
    ASSUME Streams
    PROVE  /\ \A r \in Role : Waiting(r) \in Nat /\ Batched(r) \in Nat /\ Held(r) \in Nat
           /\ Waiting("client") \in Nat /\ Waiting("server") \in Nat
           /\ Batched("client") \in Nat /\ Batched("server") \in Nat
           /\ Held("client") \in Nat /\ Held("server") \in Nat
           /\ Unread \in Nat /\ Written \in Nat
<1>1. \A r \in Role : Waiting(r) \in Nat /\ Batched(r) \in Nat
    BY LenProperties DEF Streams, Waiting, Batched
<1>2. \A r \in Role : Held(r) \in Nat
    BY <1>1 DEF Held
<1>3. Unread \in Nat /\ Written \in Nat
    BY LenProperties DEF Streams, Unread, Written
<1> QED  BY <1>1, <1>2, <1>3, Roles

LEMMA NextLengths ==
    ASSUME Streams'
    PROVE  /\ \A r \in Role : Waiting(r)' \in Nat /\ Batched(r)' \in Nat /\ Held(r)' \in Nat
           /\ Waiting("client")' \in Nat /\ Waiting("server")' \in Nat
           /\ Batched("client")' \in Nat /\ Batched("server")' \in Nat
           /\ Held("client")' \in Nat /\ Held("server")' \in Nat
           /\ Unread' \in Nat /\ Written' \in Nat
<1>1. \A r \in Role : Waiting(r)' \in Nat /\ Batched(r)' \in Nat
    BY LenProperties DEF Streams, Waiting, Batched
<1>2. \A r \in Role : Held(r)' \in Nat
    BY <1>1 DEF Held
<1>3. Unread' \in Nat /\ Written' \in Nat
    BY LenProperties DEF Streams, Unread, Written
<1> QED  BY <1>1, <1>2, <1>3, Roles

(* Where no byte is made, no more is displayed than was typed and written. *)
LEMMA Bounded ==
    ASSUME NEW s \in Nat, NEW k \in Nat, NEW c \in Nat, NEW d \in Nat, NEW x \in Nat,
           NEW y \in Nat, NEW f \in Nat, NEW t \in 0 .. MaxKeys, NEW p \in 0 .. MaxOutput,
           s + k + c + d + x + y + f <= t + p
    PROVE  s \in 0 .. MaxKeys + MaxOutput
BY BoundAssumption

LEMMA CountsNat ==
    ASSUME Counts
    PROVE  typed \in Nat /\ produced \in Nat /\ shown \in Nat
BY BoundAssumption DEF Counts

LEMMA TypeOfParts ==
    ASSUME Streams, Counts, Control, Budget
    PROVE  TypeOK
<1>1. shown \in 0 .. MaxKeys + MaxOutput
    BY Lengths, Bounded DEF Counts, Budget
<1> QED  BY <1>1 DEF TypeOK, Streams, Counts, Control, Connection, Inside, Outside

LEMMA InvNext ==
    ASSUME Streams', Counts', Control', LoopOK', PeerOK', NoDel', HangUpOK', Budget', Account'
    PROVE  RemoteInv'
<1>1. shown' \in 0 .. MaxKeys + MaxOutput
    BY NextLengths, Bounded DEF Counts, Budget
<1>2. TypeOK'
    BY <1>1 DEF TypeOK, Streams, Counts, Control, Connection, Inside, Outside
<1> QED  BY <1>2 DEF RemoteInv

(* A byte that leaves a batch leaves it one shorter.                       *)
LEMMA Shorter ==
    ASSUME NEW S, NEW s \in Seq(S), s # <<>>
    PROVE  /\ Head(s) \in S /\ Tail(s) \in Seq(S)
           /\ Len(s) \in Nat \ {0} /\ Len(Tail(s)) = Len(s) - 1
BY HeadTailProperties, EmptySeq

LEMMA Longer ==
    ASSUME NEW S, NEW s \in Seq(S), NEW e \in S
    PROVE  Append(s, e) \in Seq(S) /\ Len(Append(s, e)) = Len(s) + 1 /\ Len(s) \in Nat
BY AppendProperties, LenProperties

LEMMA None ==
    /\ \A S : <<>> \in Seq(S)
    /\ Len(<<>>) = 0
BY EmptySeq

-----------------------------------------------------------------------------
(* Steps that leave the bytes where they are.                              *)

(* The shell and the connection change.                                    *)
LEMMA StillStep ==
    ASSUME RemoteInv, Connection', Outside', PeerOK', toShell' \in Seq({"plain"}),
           ShellDead => ShellDead',
           UNCHANGED <<keys, typed, inq, fromShell, produced, pc, n, ready, buf, garbled,
                       exit_triggered, status, left, shown>>
    PROVE  RemoteInv'
<1>0. Streams /\ Counts /\ Control
    BY TypeParts DEF RemoteInv
<1>1. Streams'
    BY <1>0 DEF Streams
<1>2. Counts'
    BY <1>0 DEF Counts
<1>3. Control'
    <2>1. Inside'
        BY <1>0 DEF Control, Inside
    <2> QED  BY <2>1 DEF Control
<1>4. LoopOK'
    BY DEF RemoteInv, LoopOK
<1>5. NoDel'
    BY DEF RemoteInv, NoDel
<1>6. HangUpOK'
    BY DEF RemoteInv, HangUpOK
<1>7. Budget'
    BY DEF RemoteInv, Budget, Unread, Waiting, Batched, Written
<1>8. Account'
    BY DEF RemoteInv, Account, Waiting, Held, Batched, Written, Gone
<1> QED  BY <1>1, <1>2, <1>3, <1>4, <1>5, <1>6, <1>7, <1>8, InvNext

LEMMA ResetStep ==
    ASSUME RemoteInv, NEW r \in Role, Reset(r)
    PROVE  RemoteInv'
<1>0. Streams /\ Counts /\ Control
    BY TypeParts DEF RemoteInv
<1>1. /\ UNCHANGED <<has_key, keys, typed, inq, eof, toShell, fromShell, pipes_open, shell,
                     sigint, produced, pc, n, ready, buf, garbled, exit_triggered, status,
                     left, shown>>
      /\ err[r] = "coming" /\ err' = [err EXCEPT ![r] = "pending"]
    BY DEF Reset, typing, pipes, shellVars, loop, ends
<1>2. Connection' /\ Outside'
    BY <1>0, <1>1 DEF Control, Connection, Outside
<1>3. PeerOK'
    BY <1>0, <1>1 DEF RemoteInv, PeerOK, Control, Connection, Gone
<1>4. toShell' \in Seq({"plain"}) /\ (ShellDead => ShellDead')
    BY <1>0, <1>1 DEF Streams, ShellDead
<1> QED  BY <1>1, <1>2, <1>3, <1>4, StillStep

LEMMA SamePeers ==
    ASSUME RemoteInv, UNCHANGED <<status, err, eof>>
    PROVE  PeerOK' /\ Connection'
<1>0. Control
    BY TypeParts DEF RemoteInv
<1> QED  BY <1>0 DEF RemoteInv, PeerOK, Gone, Control, Connection

LEMMA ShellReadStep ==
    ASSUME RemoteInv, ShellRead
    PROVE  RemoteInv'
<1>0. Streams /\ Counts /\ Control
    BY TypeParts DEF RemoteInv
<1>1. UNCHANGED <<has_key, keys, typed, inq, eof, err, fromShell, pipes_open, shell,
                  sigint, produced, pc, n, ready, buf, garbled, exit_triggered, status,
                  left, shown>>
    BY DEF ShellRead, typing, socket, shellVars, loop, ends
<1>2. toShell' \in Seq({"plain"})
    BY <1>0, Shorter DEF Streams, ShellRead
<1>3. Outside' /\ (ShellDead => ShellDead')
    BY <1>0, <1>1 DEF Control, Outside, ShellDead
<1> QED  BY <1>1, <1>2, <1>3, SamePeers, StillStep

LEMMA ShellExitStep ==
    ASSUME RemoteInv, ShellExit
    PROVE  RemoteInv'
<1>0. Streams /\ Counts /\ Control
    BY TypeParts DEF RemoteInv
<1>1. UNCHANGED <<has_key, keys, typed, inq, eof, err, toShell, fromShell, pipes_open,
                  sigint, produced, pc, n, ready, buf, garbled, exit_triggered, status,
                  left, shown>>
    BY DEF ShellExit, typing, socket, pipes, loop, ends
<1>2. toShell' \in Seq({"plain"})
    BY <1>0, <1>1 DEF Streams
<1>3. Outside' /\ (ShellDead => ShellDead')
    BY <1>0, <1>1 DEF Control, Outside, ShellDead, ShellExit
<1> QED  BY <1>1, <1>2, <1>3, SamePeers, StillStep

LEMMA InterruptStep ==
    ASSUME RemoteInv, Interrupt
    PROVE  RemoteInv'
<1>0. Streams /\ Counts /\ Control
    BY TypeParts DEF RemoteInv
<1>1. UNCHANGED <<has_key, keys, typed, inq, eof, err, toShell, fromShell, pipes_open,
                  produced, pc, n, ready, buf, garbled, exit_triggered, status, left, shown>>
    BY DEF Interrupt, typing, socket, pipes, loop, ends
<1>2. toShell' \in Seq({"plain"})
    BY <1>0, <1>1 DEF Streams
<1>3. Outside' /\ (ShellDead => ShellDead')
    BY <1>0, <1>1 DEF Control, Outside, ShellDead, Interrupt
<1> QED  BY <1>1, <1>2, <1>3, SamePeers, StillStep

(* The shell writes a byte, which waits in the pipe.                       *)
LEMMA OneMoreWritten ==
    ASSUME NEW s \in Nat, NEW k \in Nat, NEW c \in Nat, NEW d \in Nat, NEW x \in Nat,
           NEW y \in Nat, NEW f \in Nat, NEW t \in Nat, NEW p \in Nat
    PROVE  /\ s + k + c + d + x + y + f <= t + p =>
                  s + k + c + d + x + y + (f + 1) <= t + (p + 1)
           /\ p = s + c + x + y + f => p + 1 = s + c + x + y + (f + 1)
OBVIOUS

LEMMA ShellWriteStep ==
    ASSUME RemoteInv, ShellWrite
    PROVE  RemoteInv'
<1>0. Streams /\ Counts /\ Control
    BY TypeParts DEF RemoteInv
<1>1. /\ UNCHANGED <<has_key, keys, typed, inq, eof, err, toShell, pipes_open, sigint,
                     pc, n, ready, buf, garbled, exit_triggered, status, left, shown>>
      /\ shell = "running"
    BY DEF ShellWrite, typing, socket, loop, ends
<1>2. ~ShellDead
    BY <1>1 DEF ShellDead
<1>3. CASE shell' = "killed" /\ UNCHANGED <<fromShell, produced>>
    <2>1. toShell' \in Seq({"plain"}) /\ Outside' /\ (ShellDead => ShellDead')
        BY <1>0, <1>1, <1>2, <1>3 DEF Streams, Control, Outside
    <2> QED  BY <1>1, <1>3, <2>1, SamePeers, StillStep
<1>4. ASSUME NEW b \in ShellBytes, fromShell' = Append(fromShell, b),
             produced < MaxOutput, produced' = produced + 1, UNCHANGED shell
      PROVE  RemoteInv'
    <2>1. fromShell' \in Seq(ShellBytes) /\ Written' = Written + 1
        BY <1>0, <1>4, Longer DEF Streams, Written
    <2>2. Streams'
        BY <1>0, <1>1, <2>1 DEF Streams
    <2>counts. Counts'
        BY <1>0, <1>1, <1>4, BoundAssumption DEF Counts
    <2>4. Control'
        BY <1>0, <1>1, <1>4 DEF Control, Connection, Inside, Outside
    <2>5. LoopOK' /\ NoDel'
        BY <1>1 DEF RemoteInv, LoopOK, NoDel
    <2>6. HangUpOK'
        BY <1>1, <1>2 DEF RemoteInv, HangUpOK
    <2>7. /\ UNCHANGED <<Unread, Waiting("client"), Waiting("server"), Batched("client"),
                         Batched("server"), Held("client"), Held("server")>>
        BY <1>1 DEF Unread, Waiting, Batched, Held
    <2>8. typed \in Nat /\ produced \in Nat /\ shown \in Nat
        BY <1>0, CountsNat
    <2>9. /\ UNCHANGED <<typed, shown>>
          /\ produced' = produced + 1 /\ Written' = Written + 1
        BY <1>1, <1>4, <2>1
    <2>10. Budget'
        <3>1. Budget
            BY DEF RemoteInv
        <3> QED  BY <1>0, <2>7, <2>8, <2>9, <3>1, Lengths, OneMoreWritten DEF Budget
    <2>11. Account'
        <3>1. produced = shown + Waiting("client") + Held("client") + Held("server") + Written
                => produced' = shown' + Waiting("client")' + Held("client")' + Held("server")'
                                 + Written'
            BY <1>0, <2>7, <2>8, <2>9, Lengths, OneMoreWritten
        <3> QED  BY <1>1, <3>1 DEF RemoteInv, Account, Gone
    <2> QED  BY <1>1, <2>2, <2>counts, <2>4, <2>5, <2>6, <2>10, <2>11, SamePeers, InvNext
<1> QED  BY <1>3, <1>4 DEF ShellWrite

(* A byte typed is one more to be read.                                    *)
LEMMA OneMoreTyped ==
    ASSUME NEW s \in Nat, NEW k \in Nat, NEW c \in Nat, NEW d \in Nat, NEW x \in Nat,
           NEW y \in Nat, NEW f \in Nat, NEW t \in Nat, NEW p \in Nat,
           s + k + c + d + x + y + f <= t + p
    PROVE  s + (k + 1) + c + d + x + y + f <= (t + 1) + p
OBVIOUS

LEMMA TypeStep ==
    ASSUME RemoteInv, Type
    PROVE  RemoteInv'
<1>0. Streams /\ Counts /\ Control
    BY TypeParts DEF RemoteInv
<1>1. UNCHANGED <<has_key, inq, eof, err, toShell, fromShell, pipes_open, shell, sigint,
                  produced, pc, n, ready, buf, garbled, exit_triggered, status, left, shown>>
    BY DEF Type, socket, pipes, shellVars, loop, ends
<1>2. PICK b \in Byte : keys' = Append(keys, b)
    BY DEF Type
<1>3. keys' \in Seq(Byte) /\ Unread' = Unread + 1
    BY <1>0, <1>2, Longer DEF Streams, Unread
<1>4. Streams'
    BY <1>0, <1>1, <1>3 DEF Streams
<1>5. typed < MaxKeys /\ typed' = typed + 1
    BY DEF Type
<1>6. Counts'
    BY <1>0, <1>1, <1>5, BoundAssumption DEF Counts
<1>7. Control'
    BY <1>0, <1>1 DEF Control, Connection, Inside, Outside
<1>8. LoopOK' /\ NoDel' /\ HangUpOK'
    BY <1>1 DEF RemoteInv, LoopOK, NoDel, HangUpOK, ShellDead
<1>9. UNCHANGED <<Waiting("client"), Waiting("server"), Batched("client"), Batched("server"),
                  Held("client"), Held("server"), Written>>
    BY <1>1 DEF Waiting, Batched, Held, Written
<1>10. typed \in Nat /\ produced \in Nat /\ shown \in Nat
    BY <1>0, CountsNat
<1>11. Budget'
    <2>1. Budget
        BY DEF RemoteInv
    <2>2. UNCHANGED <<produced, shown>> /\ Unread' = Unread + 1 /\ typed' = typed + 1
        BY <1>1, <1>3, <1>5
    <2> QED  BY <1>0, <1>9, <1>10, <2>1, <2>2, Lengths, OneMoreTyped DEF Budget
<1>12. Account'
    BY <1>1, <1>9 DEF RemoteInv, Account, Gone
<1> QED  BY <1>1, <1>4, <1>6, <1>7, <1>8, <1>11, <1>12, SamePeers, InvNext

-----------------------------------------------------------------------------
(* Steps of the two loops that move no byte.                               *)

(* Between two batches a program turns to its next input.                  *)
LEMMA TurnStep ==
    ASSUME RemoteInv, NEW r \in Role, NEW l \in {"poll", "source"}, NEW f \in Input,
           NEW g \in [Input -> {"none", "in", "hup"}],
           pc[r] \in {"poll", "source", "byte"}, buf[r] = <<>>,
           \A i \in Input : r = "server" /\ g[i] = "hup" =>
               i = REDIRECT_INPUT /\ ShellDead /\ fromShell = <<>>,
           pc' = [pc EXCEPT ![r] = l], n' = [n EXCEPT ![r] = f],
           ready' = [ready EXCEPT ![r] = g],
           UNCHANGED <<has_key, typing, socket, pipes, shellVars, buf, garbled, ends, shown>>
    PROVE  RemoteInv'
<1>0. Streams /\ Counts /\ Control
    BY TypeParts DEF RemoteInv
<1>1. UNCHANGED <<keys, typed, inq, eof, err, toShell, fromShell, pipes_open, shell, sigint,
                  produced, exit_triggered, status, left>>
    BY DEF typing, socket, pipes, shellVars, ends
<1>2. Streams' /\ Counts'
    BY <1>0, <1>1 DEF Streams, Counts
<1>3. Control'
    <2>1. pc' \in [Role -> {"poll", "source", "byte", "wait", "ended"}]
        BY <1>0 DEF Control, Inside
    <2>2. n' \in [Role -> Input]
        BY <1>0 DEF Control, Inside
    <2>3. ready' \in [Role -> [Input -> {"none", "in", "hup"}]]
        BY <1>0 DEF Control, Inside
    <2> QED  BY <1>0, <1>1, <2>1, <2>2, <2>3 DEF Control, Connection, Inside, Outside
<1>4. LoopOK'
    BY <1>0, <1>1 DEF RemoteInv, LoopOK, Control, Inside
<1>5. NoDel'
    <2>1. CASE r = "server"
        <3>1. buf'["server"] \in Seq(Byte \ {"del"})
            BY <2>1, None
        <3> QED  BY <1>1, <3>1 DEF RemoteInv, NoDel
    <2>2. CASE r # "server"
        <3>1. n'["server"] = n["server"]
            BY <1>0, <2>2, Roles DEF Control, Inside
        <3> QED  BY <1>1, <3>1 DEF RemoteInv, NoDel
    <2> QED  BY <2>1, <2>2
<1>6. HangUpOK'
    BY <1>0, <1>1, Roles DEF RemoteInv, HangUpOK, ShellDead, Control, Inside
<1>7. UNCHANGED <<Unread, Waiting("client"), Waiting("server"), Batched("client"),
                  Batched("server"), Written>>
    BY <1>1 DEF Unread, Waiting, Batched, Written
<1>8. UNCHANGED <<Held("client"), Held("server")>>
    BY <1>0, Roles, None DEF Control, Inside, Held, Batched
<1>9. Budget' /\ Account'
    BY <1>1, <1>7, <1>8 DEF RemoteInv, Budget, Account, Gone
<1> QED  BY <1>1, <1>2, <1>3, <1>4, <1>5, <1>6, <1>9, SamePeers, InvNext

LEMMA PollStep ==
    ASSUME RemoteInv, NEW r \in Role, Poll(r)
    PROVE  RemoteInv'
<1>1. pc[r] = "poll" /\ buf[r] = <<>>
    BY DEF RemoteInv, LoopOK, Poll
<1> DEFINE g == [f \in Input |-> Event(r, f)]
<1>2. g \in [Input -> {"none", "in", "hup"}]
    BY DEF Event
<1>3. \A i \in Input : r = "server" /\ g[i] = "hup" =>
          i = REDIRECT_INPUT /\ ShellDead /\ fromShell = <<>>
    BY DEF Event
<1>4. /\ pc' = [pc EXCEPT ![r] = "source"] /\ n' = [n EXCEPT ![r] = INITIAL_INPUT]
      /\ ready' = [ready EXCEPT ![r] = g]
      /\ UNCHANGED <<has_key, typing, socket, pipes, shellVars, buf, garbled, ends, shown>>
    BY DEF Poll
<1> HIDE DEF g
<1> QED  BY <1>1, <1>2, <1>3, <1>4, Inputs, TurnStep

LEMMA NextSourceStep ==
    ASSUME RemoteInv, NEW r \in Role, pc[r] \in {"source", "byte"}, buf[r] = <<>>,
           NextSource(r),
           UNCHANGED <<has_key, typing, socket, pipes, shellVars, ready, buf, garbled, ends,
                       shown>>
    PROVE  RemoteInv'
<1>0. Control
    BY TypeParts DEF RemoteInv
<1>1. /\ ready[r] \in [Input -> {"none", "in", "hup"}]
      /\ ready' = [ready EXCEPT ![r] = ready[r]]
    BY <1>0 DEF Control, Inside
<1>2. \A i \in Input : r = "server" /\ ready[r][i] = "hup" =>
          i = REDIRECT_INPUT /\ ShellDead /\ fromShell = <<>>
    BY DEF RemoteInv, HangUpOK
<1>3. PICK l \in {"poll", "source"}, f \in Input :
          pc' = [pc EXCEPT ![r] = l] /\ n' = [n EXCEPT ![r] = f]
    <2>1. n[r] \in Input /\ n = [n EXCEPT ![r] = n[r]]
        BY <1>0 DEF Control, Inside
    <2> QED  BY <2>1, Inputs DEF NextSource
<1> QED  BY <1>1, <1>2, <1>3, TurnStep

LEMMA QuietStep ==
    ASSUME RemoteInv, NEW r \in Role, Quiet(r)
    PROVE  RemoteInv'
<1>1. pc[r] \in {"source", "byte"} /\ buf[r] = <<>>
    BY DEF RemoteInv, LoopOK, Quiet
<1> QED  BY <1>1, NextSourceStep DEF Quiet

LEMMA HangUpStep ==
    ASSUME RemoteInv, HangUp
    PROVE  RemoteInv'
<1>0. Streams /\ Counts /\ Control
    BY TypeParts DEF RemoteInv
<1>1. /\ pc["server"] = "source" /\ ready["server"][n["server"]] = "hup"
      /\ pc' = [pc EXCEPT !["server"] = "wait"]
      /\ left' = [left EXCEPT !["server"] = "hangup"]
      /\ UNCHANGED <<has_key, keys, typed, inq, eof, err, toShell, fromShell, pipes_open,
                     shell, sigint, produced, n, ready, buf, garbled, exit_triggered,
                     status, shown>>
    BY DEF HangUp, Leave, typing, pipes, shellVars
<1>2. Streams' /\ Counts'
    BY <1>0, <1>1 DEF Streams, Counts
<1>3. Control'
    BY <1>0, <1>1 DEF Control, Connection, Inside, Outside
<1>4. LoopOK' /\ NoDel'
    BY <1>0, <1>1, Roles DEF RemoteInv, LoopOK, NoDel, Control, Inside
<1>5. n["server"] \in Input /\ buf["server"] = <<>> /\ left["server"] = "no"
    BY <1>0, <1>1, Roles DEF RemoteInv, LoopOK, Control, Inside
<1>6. HangUpOK'
    BY <1>1, <1>5 DEF RemoteInv, HangUpOK, ShellDead
<1>7. UNCHANGED <<Unread, Waiting("client"), Waiting("server"), Batched("client"),
                  Batched("server"), Held("client"), Held("server"), Written>>
    BY <1>1 DEF Unread, Waiting, Batched, Held, Written
<1>8. Budget' /\ Account'
    BY <1>1, <1>5, <1>7 DEF RemoteInv, Budget, Account, Gone
<1> QED  BY <1>1, <1>2, <1>3, <1>4, <1>6, <1>8, SamePeers, InvNext

-----------------------------------------------------------------------------
(* A read moves all that waits at one input into the batch.                *)

LEMMA DecryptedBytes ==
    ASSUME NEW r, NEW b \in Seq(Byte), NEW d \in Decrypted(r, b)
    PROVE  d \in Seq(Byte) /\ Len(d) = Len(b)
<1>1. CASE d \in [1 .. Len(b) -> Byte]
    <2>1. Len(b) \in Nat
        BY LenProperties
    <2>2. d \in Seq(Byte)
        BY <1>1, <2>1, SeqDef
    <2>3. DOMAIN d = 1 .. Len(b) /\ DOMAIN d = 1 .. Len(d) /\ Len(d) \in Nat
        BY <1>1, <2>2, LenProperties
    <2> QED  BY <2>1, <2>2, <2>3
<1>2. CASE d = b
    BY <1>2
<1> QED  BY <1>1, <1>2 DEF Decrypted

(* In the budget, to move all of one queue into an empty batch changes     *)
(* nothing.                                                                *)
LEMMA MovedAll ==
    ASSUME NEW s \in Nat, NEW k \in Nat, NEW c \in Nat, NEW d \in Nat, NEW x \in Nat,
           NEW y \in Nat, NEW f \in Nat, NEW t,
           s + k + c + d + x + y + f <= t
    PROVE  /\ x = 0 => s + 0 + c + d + k + y + f <= t
           /\ x = 0 => s + k + 0 + d + c + y + f <= t
           /\ y = 0 => s + k + c + 0 + x + d + f <= t
           /\ y = 0 => s + k + c + d + x + f + 0 <= t
OBVIOUS

(* Which sequence the batch is, and what is left where it was.             *)
Fetched(r) ==
    \/ /\ r = "client" /\ n[r] = INITIAL_INPUT
       /\ Batched(r)' = Unread /\ Unread' = 0
       /\ UNCHANGED <<inq, fromShell, Batched("server")>>
    \/ /\ r = "client" /\ n[r] = REDIRECT_INPUT
       /\ Batched(r)' = Waiting(r) /\ Waiting(r)' = 0
       /\ UNCHANGED <<keys, fromShell, inq["server"], Batched("server")>>
    \/ /\ r = "server" /\ n[r] = INITIAL_INPUT
       /\ Batched(r)' = Waiting(r) /\ Waiting(r)' = 0
       /\ inq'["server"] = <<>>
       /\ ~garbled'[r] => ~garbled[r] /\ buf'[r] = inq[r]
       /\ UNCHANGED <<keys, fromShell, inq["client"], Batched("client")>>
    \/ /\ r = "server" /\ n[r] = REDIRECT_INPUT
       /\ Batched(r)' = Written /\ fromShell' = <<>> /\ Written' = 0
       /\ ~garbled'[r] => ~garbled[r]
       /\ UNCHANGED <<keys, inq, Batched("client")>>

LEMMA ReadFetches ==
    ASSUME RemoteInv, NEW r \in Role, Read(r)
    PROVE  Streams' /\ Control' /\ Fetched(r)
<1>0. Streams /\ Counts /\ Control
    BY TypeParts DEF RemoteInv
<1>1. /\ UNCHANGED <<has_key, typed, eof, err, toShell, pipes_open, shell, sigint, produced,
                     n, ready, exit_triggered, status, left, shown>>
      /\ pc' = [pc EXCEPT ![r] = "byte"]
    BY DEF Read, shellVars, ends
<1>2. n[r] \in Input
    BY <1>0 DEF Control, Inside
<1>3. Queue(r, n[r]) \in Seq(Byte)
    <2>1. fromShell \in Seq(Byte)
        BY <1>0, ShellAssumption, SeqMonotonic DEF Streams
    <2> QED  BY <1>0, <2>1 DEF Queue, Streams
<1>4. PICK d \in Decrypted(r, Queue(r, n[r])) :
          /\ buf' = [buf EXCEPT ![r] = d]
          /\ garbled' = [garbled EXCEPT ![r] = @ \/ d # Queue(r, n[r])]
    BY DEF Read
<1>5. d \in Seq(Byte) /\ Len(d) = Len(Queue(r, n[r]))
    BY <1>3, DecryptedBytes
<1>6. /\ inq' = IF FromSocket(r, n[r]) THEN [inq EXCEPT ![r] = <<>>] ELSE inq
      /\ keys' = IF ~FromSocket(r, n[r]) /\ r = "client" THEN <<>> ELSE keys
      /\ fromShell' = IF ~FromSocket(r, n[r]) /\ r = "server" THEN <<>> ELSE fromShell
    BY DEF Read
<1>7. Streams'
    <2>1. buf' \in [Role -> Seq(Byte)]
        BY <1>0, <1>4, <1>5 DEF Streams
    <2>2. inq' \in [Role -> Seq(Byte)]
        BY <1>0, <1>6, None DEF Streams
    <2>3. keys' \in Seq(Byte) /\ fromShell' \in Seq(ShellBytes)
        BY <1>0, <1>6, None DEF Streams
    <2> QED  BY <1>0, <1>1, <2>1, <2>2, <2>3 DEF Streams
<1>8. Control'
    <2>1. pc' \in [Role -> {"poll", "source", "byte", "wait", "ended"}]
        BY <1>0, <1>1 DEF Control, Inside
    <2>2. garbled' \in [Role -> BOOLEAN]
        BY <1>0, <1>4 DEF Control, Inside
    <2> QED  BY <1>0, <1>1, <2>1, <2>2 DEF Control, Connection, Inside, Outside
<1>9. /\ Batched(r)' = Len(Queue(r, n[r]))
      /\ ~garbled'[r] => ~garbled[r] /\ buf'[r] = Queue(r, n[r])
    <2>1. buf'[r] = d
        BY <1>0, <1>4 DEF Streams
    <2>2. garbled'[r] = (garbled[r] \/ d # Queue(r, n[r]))
        BY <1>0, <1>4 DEF Control, Inside
    <2> QED  BY <1>5, <2>1, <2>2 DEF Batched
<1>10. /\ r = "client" => UNCHANGED Batched("server")
       /\ r = "server" => UNCHANGED Batched("client")
    BY <1>0, <1>4, Roles DEF Batched, Streams
<1>11. ASSUME r = "client" /\ n[r] = INITIAL_INPUT
       PROVE  Fetched(r)
    <2>1. Queue(r, n[r]) = keys /\ keys' = <<>> /\ UNCHANGED <<inq, fromShell>>
        BY <1>6, <1>11, Inputs, Roles DEF Queue
    <2>2. Unread' = 0
        BY <2>1, None DEF Unread
    <2> QED  BY <1>9, <1>10, <1>11, <2>1, <2>2 DEF Fetched, Unread
<1>12. ASSUME r = "client" /\ n[r] = REDIRECT_INPUT
       PROVE  Fetched(r)
    <2>1. Queue(r, n[r]) = inq["client"] /\ inq' = [inq EXCEPT !["client"] = <<>>]
          /\ UNCHANGED <<keys, fromShell>>
        BY <1>6, <1>12, Inputs, Roles DEF Queue
    <2>2. Waiting("client")' = 0 /\ inq'["server"] = inq["server"]
        BY <1>0, <2>1, Roles, None DEF Waiting, Streams
    <2> QED  BY <1>9, <1>10, <1>12, <2>1, <2>2 DEF Fetched, Waiting
<1>13. ASSUME r = "server" /\ n[r] = INITIAL_INPUT
       PROVE  Fetched(r)
    <2>1. Queue(r, n[r]) = inq["server"] /\ inq' = [inq EXCEPT !["server"] = <<>>]
          /\ UNCHANGED <<keys, fromShell>>
        BY <1>6, <1>13, Inputs, Roles DEF Queue
    <2>2. Waiting("server")' = 0 /\ inq'["server"] = <<>> /\ inq'["client"] = inq["client"]
        BY <1>0, <2>1, Roles, None DEF Waiting, Streams
    <2> QED  BY <1>9, <1>10, <1>13, <2>1, <2>2 DEF Fetched, Waiting
<1>14. ASSUME r = "server" /\ n[r] = REDIRECT_INPUT
       PROVE  Fetched(r)
    <2>1. Queue(r, n[r]) = fromShell /\ fromShell' = <<>> /\ UNCHANGED <<inq, keys>>
        BY <1>6, <1>14, Inputs, Roles DEF Queue
    <2>2. Written' = 0
        BY <2>1, None DEF Written
    <2> QED  BY <1>9, <1>10, <1>14, <2>1, <2>2 DEF Fetched, Written
<1> QED  BY <1>2, <1>7, <1>8, <1>11, <1>12, <1>13, <1>14, Inputs, Roles

LEMMA ReadStep ==
    ASSUME RemoteInv, NEW r \in Role, Read(r)
    PROVE  RemoteInv'
<1>0. Streams /\ Counts /\ Control
    BY TypeParts DEF RemoteInv
<1>1. /\ UNCHANGED <<typed, eof, err, shell, produced, n, ready, status, left, shown>>
      /\ pc[r] = "source" /\ pc' = [pc EXCEPT ![r] = "byte"]
      /\ \A q \in Role \ {r} : buf'[q] = buf[q] /\ garbled'[q] = garbled[q]
    <2>1. /\ UNCHANGED <<typed, eof, err, shell, produced, n, ready, status, left, shown>>
          /\ pc[r] = "source" /\ pc' = [pc EXCEPT ![r] = "byte"]
        BY DEF Read, shellVars, ends
    <2>2. \A q \in Role \ {r} : buf'[q] = buf[q] /\ garbled'[q] = garbled[q]
        BY <1>0 DEF Read, Streams, Control, Inside
    <2> QED  BY <2>1, <2>2
<1>2. Streams' /\ Control' /\ Fetched(r)
    BY ReadFetches
<1>3. Counts'
    BY <1>0, <1>1 DEF Counts
<1>4. LoopOK'
    BY <1>0, <1>1 DEF RemoteInv, LoopOK, Control, Inside
<1>5. buf[r] = <<>> /\ Batched(r) = 0
    BY <1>1, None DEF RemoteInv, LoopOK, Batched
<1>6. NoDel'
    <2>1. inq'["server"] \in Seq(Byte \ {"del"})
        BY <1>2, None DEF RemoteInv, NoDel, Fetched
    <2>2. ASSUME n'["server"] = INITIAL_INPUT, ~garbled'["server"]
          PROVE  buf'["server"] \in Seq(Byte \ {"del"})
        <3>1. CASE r = "client"
            BY <1>1, <2>2, <3>1, Roles DEF RemoteInv, NoDel
        <3>2. CASE r = "server"
            <4>1. buf'["server"] = inq["server"]
                BY <1>1, <1>2, <2>2, <3>2, Inputs DEF Fetched
            <4> QED  BY <4>1 DEF RemoteInv, NoDel
        <3> QED  BY <3>1, <3>2, Roles
    <2> QED  BY <2>1, <2>2 DEF NoDel
<1>7. HangUpOK'
    <2>1. fromShell' \in {<<>>, fromShell}
        BY <1>2 DEF Fetched
    <2>2. left["server"] = "hangup" => r = "client" /\ buf'["server"] = buf["server"]
        BY <1>1, Roles DEF RemoteInv, LoopOK
    <2> QED  BY <1>1, <2>1, <2>2 DEF RemoteInv, HangUpOK, ShellDead
<1>8. Budget'
    <2>1. Budget /\ UNCHANGED <<typed, produced, shown>> /\ shown \in Nat
        BY <1>0, <1>1 DEF RemoteInv, Counts
    <2>2. \/ /\ Batched("client") = 0 /\ Batched("client")' = Unread /\ Unread' = 0
             /\ UNCHANGED <<Waiting("client"), Waiting("server"), Batched("server"), Written>>
          \/ /\ Batched("client") = 0 /\ Batched("client")' = Waiting("client")
             /\ Waiting("client")' = 0
             /\ UNCHANGED <<Unread, Waiting("server"), Batched("server"), Written>>
          \/ /\ Batched("server") = 0 /\ Batched("server")' = Waiting("server")
             /\ Waiting("server")' = 0
             /\ UNCHANGED <<Unread, Waiting("client"), Batched("client"), Written>>
          \/ /\ Batched("server") = 0 /\ Batched("server")' = Written /\ Written' = 0
             /\ UNCHANGED <<Unread, Waiting("client"), Waiting("server"), Batched("client")>>
        BY <1>2, <1>5 DEF Fetched, Unread, Waiting, Written
    <2> QED  BY <1>0, <2>1, <2>2, Lengths, MovedAll DEF Budget
<1>9. Account'
    <2>1. Held(r) = 0
        BY <1>5 DEF Held
    <2>2. \/ UNCHANGED <<Waiting("client"), Held("client"), Held("server"), Written>>
          \/ /\ Held("client") = 0 /\ Held("client")' = Waiting("client")
             /\ Waiting("client")' = 0
             /\ UNCHANGED <<Held("server"), Written>>
          \/ /\ Held("server") = 0 /\ Held("server")' = Written /\ Written' = 0
             /\ UNCHANGED <<Waiting("client"), Held("client")>>
        BY <1>1, <1>2, <2>1, Inputs DEF Fetched, Waiting, Held, Written
    <2>3. shown \in Nat
        BY <1>0 DEF Counts
    <2>4. produced = shown + Waiting("client") + Held("client") + Held("server") + Written
           => produced = shown + Waiting("client")' + Held("client")' + Held("server")'
                            + Written'
        BY <1>0, <2>2, <2>3, Lengths
    <2>5. ~garbled'["server"] => ~garbled["server"]
        BY <1>1, <1>2, Roles DEF Fetched
    <2> QED  BY <1>1, <2>4, <2>5 DEF RemoteInv, Account, Gone
<1> QED  BY <1>1, <1>2, <1>3, <1>4, <1>6, <1>7, <1>8, <1>9, SamePeers, InvNext

-----------------------------------------------------------------------------
(* The ways out of the loops.                                              *)

LEMMA CloseEffect ==
    ASSUME RemoteInv, NEW r \in Role, NEW how \in {"exit 0", "exit 1"}, Close(r, how)
    PROVE  /\ Connection' /\ PeerOK' /\ Gone(r)'
           /\ status' = [status EXCEPT ![r] = how]
           /\ inq' = [inq EXCEPT ![r] = <<>>]
<1>0. Control
    BY TypeParts DEF RemoteInv
<1>1. status' = [status EXCEPT ![r] = how] /\ inq' = [inq EXCEPT ![r] = <<>>]
    BY DEF Close
<1>2. Gone(r)'
    BY <1>0, <1>1 DEF Control, Connection, Gone
<1>3. /\ eof' \in [Role -> BOOLEAN] /\ eof'[r] = eof[r]
      /\ err' \in [Role -> {"none", "coming", "pending", "taken"}] /\ err'[r] = err[r]
    BY <1>0, Roles DEF Close, Control, Connection
<1>4. Connection'
    BY <1>0, <1>1, <1>3 DEF Control, Connection
<1>5. PeerOK'
    <2> SUFFICES ASSUME NEW q \in Role, ~Gone(Peer(q))'
                 PROVE  err'[q] = "none" /\ ~eof'[q]
        BY DEF PeerOK
    <2>1. Peer(q) # r /\ q = r
        BY <1>2, Roles
    <2>2. ~Gone(Peer(r))
        BY <1>0, <1>1, <2>1, Roles DEF Gone, Control, Connection
    <2> QED  BY <1>3, <2>1, <2>2 DEF RemoteInv, PeerOK
<1> QED  BY <1>1, <1>2, <1>4, <1>5

(* What one program no longer has to pass on.                              *)
LEMMA FewerBytes ==
    ASSUME NEW s \in Nat, NEW k \in Nat, NEW c \in Nat, NEW d \in Nat, NEW x \in Nat,
           NEW y \in Nat, NEW f \in Nat, NEW t \in Nat, NEW p \in Nat,
           s + k + c + d + x + y + f <= t + p,
           NEW c1 \in 0 .. c, NEW d1 \in 0 .. d, NEW x1 \in 0 .. x, NEW y1 \in 0 .. y
    PROVE  s + k + c1 + d1 + x1 + y1 + f <= t + p
OBVIOUS

LEMMA UpTo == \A i \in Nat : i \in 0 .. i /\ 0 \in 0 .. i
OBVIOUS

(* A step that only drops bytes keeps within the budget.                   *)
LEMMA LessToCarry ==
    ASSUME Streams, Counts, Budget, UNCHANGED <<typed, produced, shown, Unread, Written>>,
           \A q \in Role : Waiting(q)' \in 0 .. Waiting(q) /\ Batched(q)' \in 0 .. Batched(q)
    PROVE  Budget'
<1>1. /\ Waiting("client")' \in 0 .. Waiting("client")
      /\ Waiting("server")' \in 0 .. Waiting("server")
      /\ Batched("client")' \in 0 .. Batched("client")
      /\ Batched("server")' \in 0 .. Batched("server")
    BY Roles
<1>2. shown + Unread + Waiting("client")' + Waiting("server")' + Batched("client")'
            + Batched("server")' + Written <= typed + produced
    <2>1. shown + Unread + Waiting("client") + Waiting("server") + Batched("client")
                + Batched("server") + Written <= typed + produced
        BY DEF Budget
    <2>2. /\ Waiting("client") \in Nat /\ Waiting("server") \in Nat /\ Unread \in Nat
          /\ Batched("client") \in Nat /\ Batched("server") \in Nat /\ Written \in Nat
        BY Lengths
    <2>3. typed \in Nat /\ produced \in Nat /\ shown \in Nat
        BY CountsNat
    <2> QED  BY ONLY <1>1, <2>1, <2>2, <2>3, FewerBytes
<1> QED  BY <1>2 DEF Budget

(* r leaves its loop, perhaps after taking a byte from its batch, the      *)
(* server for another reason than a hang-up, the client for good.          *)
LEMMA LeaveStep ==
    ASSUME RemoteInv, NEW r \in Role,
           NEW why \in {"key", "pipe", "error"}, NEW l \in {"wait", "ended"},
           left' = [left EXCEPT ![r] = why], pc' = [pc EXCEPT ![r] = l],
           Connection', PeerOK', Outside',
           exit_triggered' \in [Role -> {"no", "ctrlC", "ctrlD"}],
           Gone("client") => Gone("client")', r = "client" => Gone("client")',
           \/ UNCHANGED inq
           \/ inq' = [inq EXCEPT ![r] = <<>>],
           \/ UNCHANGED buf
           \/ buf[r] # <<>> /\ buf' = [buf EXCEPT ![r] = Tail(@)],
           left[r] = "no",
           UNCHANGED <<keys, typed, toShell, fromShell, shell, produced, n, ready, garbled,
                       shown>>
    PROVE  RemoteInv'
<1>0. Streams /\ Counts /\ Control
    BY TypeParts DEF RemoteInv
<1>1. /\ inq' \in [Role -> Seq(Byte)]
      /\ \A q \in Role : inq'[q] \in {inq[q], <<>>}
    <2>1. CASE UNCHANGED inq
        BY <1>0, <2>1 DEF Streams
    <2>2. CASE inq' = [inq EXCEPT ![r] = <<>>]
        BY <1>0, <2>2, None DEF Streams
    <2> QED  BY <2>1, <2>2
<1>2. /\ buf' \in [Role -> Seq(Byte)]
      /\ \A q \in Role : \/ buf'[q] = buf[q]
                         \/ q = r /\ buf[q] # <<>> /\ buf'[q] = Tail(buf[q])
    <2>1. CASE UNCHANGED buf
        BY <1>0, <2>1 DEF Streams
    <2>2. CASE buf[r] # <<>> /\ buf' = [buf EXCEPT ![r] = Tail(@)]
        <3>1. Tail(buf[r]) \in Seq(Byte)
            BY <1>0, <2>2, Shorter DEF Streams
        <3> QED  BY <1>0, <2>2, <3>1 DEF Streams
    <2> QED  BY <2>1, <2>2
<1>3. Streams'
    BY <1>0, <1>1, <1>2 DEF Streams
<1>4. Counts'
    BY <1>0 DEF Counts
<1>5. Control'
    <2>1. pc' \in [Role -> {"poll", "source", "byte", "wait", "ended"}]
        BY <1>0 DEF Control, Inside
    <2>2. left' \in [Role -> {"no", "key", "hangup", "pipe", "error"}]
        BY <1>0 DEF Control, Inside
    <2> QED  BY <1>0, <2>1, <2>2 DEF Control, Inside
<1>6. /\ pc'[r] = l /\ left'[r] = why
      /\ \A q \in Role \ {r} : pc'[q] = pc[q] /\ left'[q] = left[q] /\ buf'[q] = buf[q]
    BY <1>0, <1>2 DEF Control, Inside
<1>7. LoopOK'
    BY <1>6 DEF RemoteInv, LoopOK
<1>8. NoDel'
    <2>1. inq'["server"] \in Seq(Byte \ {"del"})
        BY <1>1, None, Roles DEF RemoteInv, NoDel
    <2>2. \/ buf'["server"] = buf["server"]
          \/ buf["server"] # <<>> /\ buf'["server"] = Tail(buf["server"])
        BY <1>2, Roles
    <2>3. buf["server"] \in Seq(Byte \ {"del"}) => buf'["server"] \in Seq(Byte \ {"del"})
        <3>1. CASE buf'["server"] = buf["server"]
            BY <3>1
        <3>2. CASE buf["server"] # <<>> /\ buf'["server"] = Tail(buf["server"])
            BY <3>2, Shorter
        <3> QED  BY <2>2, <3>1, <3>2
    <2> QED  BY <2>1, <2>3 DEF RemoteInv, NoDel
<1>9. HangUpOK'
    <2>1. CASE r = "server"
        BY <1>6, <2>1 DEF RemoteInv, HangUpOK, ShellDead
    <2>2. CASE r # "server"
        BY <1>6, <2>2, Roles DEF RemoteInv, HangUpOK, ShellDead
    <2> QED  BY <2>1, <2>2
<1>10. Budget'
    <2>1. \A q \in Role : Waiting(q)' \in 0 .. Waiting(q)
        <3> SUFFICES ASSUME NEW q \in Role
                     PROVE  Waiting(q)' \in 0 .. Waiting(q)
            OBVIOUS
        <3>1. Waiting(q) \in Nat /\ Waiting(q)' \in {Waiting(q), 0}
            BY <1>0, <1>1, Lengths, None DEF Waiting
        <3> QED  BY <3>1
    <2>2. \A q \in Role : Batched(q)' \in 0 .. Batched(q)
        <3> SUFFICES ASSUME NEW q \in Role
                     PROVE  Batched(q)' \in 0 .. Batched(q)
            OBVIOUS
        <3>1. Batched(q) \in Nat
            BY <1>0, Lengths
        <3>2. \/ Batched(q)' = Batched(q)
              \/ Batched(q) \in Nat \ {0} /\ Batched(q)' = Batched(q) - 1
            BY <1>0, <1>2, Shorter DEF Batched, Streams
        <3> QED  BY <3>1, <3>2
    <2>3. Budget /\ UNCHANGED <<typed, produced, shown, Unread, Written>>
        BY DEF RemoteInv, Unread, Written
    <2> QED  BY <1>0, <2>1, <2>2, <2>3, LessToCarry
<1>11. Account'
    <2>1. CASE r = "client"
        BY <2>1 DEF Account
    <2>2. CASE r = "server"
        BY <1>6, <2>2 DEF Account
    <2> QED  BY <2>1, <2>2, Roles
<1> QED  BY <1>3, <1>4, <1>5, <1>7, <1>8, <1>9, <1>10, <1>11, InvNext

LEMMA CheckFailsEffect ==
    ASSUME RemoteInv, NEW r \in Role, CheckFails(r), UNCHANGED <<has_key, shell, sigint>>
    PROVE  /\ left' = [left EXCEPT ![r] = "error"] /\ pc' = [pc EXCEPT ![r] = "ended"]
           /\ Connection' /\ PeerOK' /\ Outside'
           /\ Gone("client") => Gone("client")'
           /\ r = "client" => Gone("client")'
           /\ inq' = [inq EXCEPT ![r] = <<>>]
<1>0. Control
    BY TypeParts DEF RemoteInv
<1>1. /\ left' = [left EXCEPT ![r] = "error"] /\ pc' = [pc EXCEPT ![r] = "ended"]
      /\ pipes_open' = (pipes_open /\ r # "server")
      /\ Close(r, "exit 1")
    BY DEF CheckFails, Ended
<1>2. /\ Connection' /\ PeerOK' /\ Gone(r)' /\ inq' = [inq EXCEPT ![r] = <<>>]
      /\ status' = [status EXCEPT ![r] = "exit 1"]
    BY <1>1, CloseEffect
<1>3. pipes_open' \in BOOLEAN
    BY <1>0, <1>1 DEF Control, Outside
<1>4. Outside'
    BY <1>0, <1>3 DEF Control, Outside
<1>5. Gone("client") => Gone("client")'
    BY <1>0, <1>2, Roles DEF Gone, Control, Connection
<1> QED  BY <1>1, <1>2, <1>4, <1>5

LEMMA ReadErrorStep ==
    ASSUME RemoteInv, NEW r \in Role, ReadError(r)
    PROVE  RemoteInv'
<1>1. pc[r] = "source" /\ buf[r] = <<>> /\ left[r] = "no"
    BY DEF RemoteInv, LoopOK, ReadError
<1>2. /\ UNCHANGED <<has_key, typing, toShell, fromShell, shellVars, ready, buf, garbled,
                     exit_triggered, shown>>
      /\ \/ CheckFails(r) /\ UNCHANGED n
         \/ NextSource(r) /\ UNCHANGED <<socket, pipes_open, status, left>>
    BY DEF ReadError
<1>3. CASE CheckFails(r) /\ UNCHANGED n
    <2>1. UNCHANGED <<has_key, keys, typed, toShell, fromShell, shell, sigint, produced,
                      ready, buf, garbled, exit_triggered, shown>>
        BY <1>2 DEF typing, shellVars
    <2>2. exit_triggered' \in [Role -> {"no", "ctrlC", "ctrlD"}]
        BY <2>1, TypeParts DEF RemoteInv, Control, Inside
    <2> QED  BY <1>1, <1>3, <2>1, <2>2, CheckFailsEffect, LeaveStep
<1>4. CASE NextSource(r) /\ UNCHANGED <<socket, pipes_open, status, left>>
    <2>1. UNCHANGED <<has_key, typing, socket, pipes, shellVars, ready, buf, garbled, ends,
                      shown>>
        BY <1>2, <1>4 DEF pipes, ends
    <2> QED  BY <1>1, <1>4, <2>1, NextSourceStep
<1> QED  BY <1>2, <1>3, <1>4

LEMMA ClientLeavesStep ==
    ASSUME RemoteInv, ClientLeaves
    PROVE  RemoteInv'
<1>0. Control
    BY TypeParts DEF RemoteInv
<1>1. /\ UNCHANGED <<has_key, keys, typed, toShell, fromShell, pipes_open, shell, sigint,
                     produced, n, ready, buf, garbled, exit_triggered, shown>>
      /\ pc["client"] = "poll"
      /\ pc' = [pc EXCEPT !["client"] = "ended"] /\ left' = [left EXCEPT !["client"] = "key"]
      /\ Close("client", "exit 0")
    BY DEF ClientLeaves, Ended, typing, pipes, shellVars
<1>2. Connection' /\ PeerOK' /\ Gone("client")' /\ inq' = [inq EXCEPT !["client"] = <<>>]
    BY <1>1, CloseEffect, Roles
<1>3. Outside' /\ exit_triggered' \in [Role -> {"no", "ctrlC", "ctrlD"}]
    BY <1>0, <1>1 DEF Control, Inside, Outside
<1>4. left["client"] = "no"
    BY <1>1, Roles DEF RemoteInv, LoopOK
<1> QED  BY <1>1, <1>2, <1>3, <1>4, Roles, LeaveStep

(* The server ends: whatever it did not read is dropped, and its own queue *)
(* to the client is not.                                                   *)
LEMMA ServerWaitStep ==
    ASSUME RemoteInv, ServerWait
    PROVE  RemoteInv'
<1>0. Streams /\ Counts /\ Control
    BY TypeParts DEF RemoteInv
<1>1. /\ UNCHANGED <<has_key, keys, typed, toShell, fromShell, shell, sigint, produced,
                     n, ready, buf, garbled, exit_triggered, left, shown>>
      /\ pc["server"] = "wait" /\ pc' = [pc EXCEPT !["server"] = "ended"]
      /\ pipes_open' = FALSE
      /\ Close("server", IF shell = "exited" THEN "exit 0" ELSE "exit 1")
    BY DEF ServerWait, typing, shellVars
<1>2. PICK how \in {"exit 0", "exit 1"} : Close("server", how)
    BY <1>1
<1>3. /\ Connection' /\ PeerOK' /\ inq' = [inq EXCEPT !["server"] = <<>>]
      /\ status' = [status EXCEPT !["server"] = how]
    BY <1>2, CloseEffect, Roles
<1>4. inq'["server"] = <<>> /\ inq'["client"] = inq["client"]
    BY <1>0, <1>3, Roles DEF Streams
<1>5. Streams' /\ Counts'
    <2>1. inq' \in [Role -> Seq(Byte)]
        BY <1>0, <1>3, None DEF Streams
    <2> QED  BY <1>0, <1>1, <2>1 DEF Streams, Counts
<1>6. Control'
    BY <1>0, <1>1, <1>3 DEF Control, Inside, Outside
<1>7. LoopOK'
    BY <1>0, <1>1, Roles DEF RemoteInv, LoopOK, Control, Inside
<1>8. NoDel'
    BY <1>1, <1>4, None DEF RemoteInv, NoDel
<1>9. HangUpOK'
    BY <1>1 DEF RemoteInv, HangUpOK, ShellDead
<1>10. UNCHANGED <<Unread, Waiting("client"), Batched("client"), Batched("server"),
                   Held("client"), Held("server"), Written>>
    BY <1>1, <1>4 DEF Unread, Waiting, Batched, Held, Written
<1>11. Budget'
    <2>1. Budget /\ UNCHANGED <<typed, produced, shown>>
        BY <1>1 DEF RemoteInv
    <2>2. Waiting("server")' = 0
        BY <1>4, None DEF Waiting
    <2>3. \A q \in Role : Waiting(q) \in Nat /\ Batched(q) \in Nat
        BY <1>0, Lengths
    <2>4. \A q \in Role : Waiting(q)' \in 0 .. Waiting(q) /\ Batched(q)' \in 0 .. Batched(q)
        <3>1. /\ Waiting("client")' \in 0 .. Waiting("client")
              /\ Waiting("server")' \in 0 .. Waiting("server")
              /\ Batched("client")' \in 0 .. Batched("client")
              /\ Batched("server")' \in 0 .. Batched("server")
            <4>1. /\ Waiting("client") \in Nat /\ Waiting("server") \in Nat
                  /\ Batched("client") \in Nat /\ Batched("server") \in Nat
                BY <2>3, Roles
            <4> QED  BY ONLY <1>10, <2>2, <4>1, UpTo
        <3> QED  BY <3>1, Roles
    <2> QED  BY <1>0, <1>10, <2>1, <2>4, LessToCarry
<1>12. Account'
    <2>1. Gone("client")' <=> Gone("client")
        BY <1>0, <1>3, Roles DEF Gone, Control, Connection
    <2> QED  BY <1>1, <1>10, <2>1 DEF RemoteInv, Account
<1> QED  BY <1>3, <1>5, <1>6, <1>7, <1>8, <1>9, <1>11, <1>12, InvNext

-----------------------------------------------------------------------------
(* The bytes of a batch.                                                   *)

LEMMA OneLess == \A i \in Nat \ {0} : i - 1 \in 0 .. i
OBVIOUS

(* A byte passes from a batch to the peer's socket.                        *)
LEMMA BudgetMoved ==
    ASSUME Streams, Counts, Budget, UNCHANGED <<typed, produced, shown, Unread, Written>>,
           \/ /\ Batched("client") \in Nat \ {0} /\ Batched("client")' = Batched("client") - 1
              /\ Waiting("server")' = Waiting("server") + 1
              /\ UNCHANGED <<Batched("server"), Waiting("client")>>
           \/ /\ Batched("server") \in Nat \ {0} /\ Batched("server")' = Batched("server") - 1
              /\ Waiting("client")' = Waiting("client") + 1
              /\ UNCHANGED <<Batched("client"), Waiting("server")>>
    PROVE  Budget'
BY Lengths, CountsNat DEF Budget

LEMMA AccountMoved ==
    ASSUME NEW s \in Nat, NEW c \in Nat, NEW x \in Nat, NEW y \in Nat \ {0}, NEW f \in Nat
    PROVE  s + c + x + y + f = s + (c + 1) + x + (y - 1) + f
OBVIOUS

LEMMA TakeEffect ==
    ASSUME RemoteInv, NEW r \in Role, NEW f, NEW C, Take(r, f, C)
    PROVE  /\ left[r] = "no" /\ pc[r] = "byte" /\ n[r] = f
           /\ buf[r] # <<>> /\ buf' = [buf EXCEPT ![r] = Tail(@)]
           /\ Head(buf[r]) \in Byte /\ Head(buf[r]) \in C
           /\ buf' \in [Role -> Seq(Byte)] /\ buf'[r] = Tail(buf[r])
           /\ \A q \in Role \ {r} : UNCHANGED buf[q]
           /\ Batched(r) \in Nat \ {0} /\ Batched(r)' = Batched(r) - 1
           /\ r = "client" => UNCHANGED Batched("server")
           /\ r = "server" => UNCHANGED Batched("client")
<1>0. Streams
    BY TypeParts DEF RemoteInv
<1>1. /\ pc[r] = "byte" /\ n[r] = f /\ buf[r] # <<>> /\ Head(buf[r]) \in C
      /\ buf' = [buf EXCEPT ![r] = Tail(@)]
    BY DEF Take
<1>2. left[r] = "no"
    BY <1>1 DEF RemoteInv, LoopOK
<1>3. /\ Head(buf[r]) \in Byte /\ Tail(buf[r]) \in Seq(Byte)
      /\ Len(buf[r]) \in Nat \ {0} /\ Len(Tail(buf[r])) = Len(buf[r]) - 1
    BY <1>0, <1>1, Shorter DEF Streams
<1>4. /\ buf' \in [Role -> Seq(Byte)] /\ buf'[r] = Tail(buf[r])
      /\ \A q \in Role \ {r} : UNCHANGED buf[q]
    BY <1>0, <1>1, <1>3 DEF Streams
<1>5. Batched(r) \in Nat \ {0} /\ Batched(r)' = Batched(r) - 1
    BY <1>3, <1>4 DEF Batched
<1>6. /\ r = "client" => UNCHANGED Batched("server")
      /\ r = "server" => UNCHANGED Batched("client")
    BY <1>4, Roles DEF Batched
<1> QED  BY <1>1, <1>2, <1>3, <1>4, <1>5, <1>6

(* A byte after which the loop goes on.                                    *)
LEMMA StayStep ==
    ASSUME RemoteInv, NEW r \in Role, NEW f, NEW C, Take(r, f, C),
           UNCHANGED <<keys, typed, fromShell, shell, produced, pc, n, ready, garbled,
                       status, left>>,
           toShell' \in Seq({"plain"}), inq' \in [Role -> Seq(Byte)],
           inq'["server"] \in Seq(Byte \ {"del"}), shown' \in Nat,
           exit_triggered' \in [Role -> {"no", "ctrlC", "ctrlD"}],
           Connection', PeerOK', Outside', Budget', Account'
    PROVE  RemoteInv'
<1>0. Streams /\ Counts /\ Control
    BY TypeParts DEF RemoteInv
<1>1. /\ left[r] = "no" /\ pc[r] = "byte" /\ buf[r] # <<>>
      /\ buf' \in [Role -> Seq(Byte)] /\ buf'[r] = Tail(buf[r])
      /\ \A q \in Role \ {r} : UNCHANGED buf[q]
    BY TakeEffect
<1>2. Streams' /\ Counts' /\ Control'
    BY <1>0, <1>1 DEF Streams, Counts, Control, Inside
<1>3. LoopOK'
    BY <1>1 DEF RemoteInv, LoopOK
<1>4. NoDel'
    <2>1. buf["server"] \in Seq(Byte \ {"del"}) => buf'["server"] \in Seq(Byte \ {"del"})
        <3>1. CASE r = "client"
            BY <1>1, <3>1, Roles
        <3>2. CASE r = "server"
            <4>1. buf["server"] # <<>> /\ buf'["server"] = Tail(buf["server"])
                BY <1>1, <3>2
            <4>2. buf["server"] \in Seq(Byte \ {"del"})
                      => Tail(buf["server"]) \in Seq(Byte \ {"del"})
                BY <4>1, Shorter
            <4> QED  BY <4>1, <4>2
        <3> QED  BY <3>1, <3>2, Roles
    <2> QED  BY <2>1 DEF RemoteInv, NoDel
<1>5. HangUpOK'
    <2>1. left["server"] = "hangup" => buf'["server"] = buf["server"]
        BY <1>1, Roles
    <2> QED  BY <2>1 DEF RemoteInv, HangUpOK, ShellDead
<1> QED  BY <1>2, <1>3, <1>4, <1>5, InvNext

(* A byte that is dropped, or handed to the shell.                         *)
LEMMA DropStep ==
    ASSUME RemoteInv, NEW r \in Role, NEW f, NEW C, Take(r, f, C),
           UNCHANGED <<keys, typed, fromShell, shell, produced, pc, n, ready, garbled,
                       status, left, inq, shown>>,
           toShell' \in Seq({"plain"}),
           exit_triggered' \in [Role -> {"no", "ctrlC", "ctrlD"}],
           Connection', PeerOK', Outside',
           f = INITIAL_INPUT \/ (r = "server" /\ Gone("client"))
    PROVE  RemoteInv'
<1>0. Streams /\ Counts /\ Control
    BY TypeParts DEF RemoteInv
<1>1. inq' \in [Role -> Seq(Byte)] /\ inq'["server"] \in Seq(Byte \ {"del"}) /\ shown' \in Nat
    BY <1>0 DEF RemoteInv, NoDel, Streams, Counts
<1>2. Budget'
    <2>1. Budget /\ UNCHANGED <<typed, produced, shown, Unread, Written>>
        BY DEF RemoteInv, Unread, Written
    <2>2. \A q \in Role : UNCHANGED Waiting(q) /\ Waiting(q) \in Nat /\ Batched(q) \in Nat
        BY <1>0, Lengths DEF Waiting
    <2>3. \A q \in Role : Waiting(q)' \in 0 .. Waiting(q)
        BY <2>2, UpTo
    <2>4. \A q \in Role \ {r} : UNCHANGED Batched(q)
        BY TakeEffect, Roles
    <2>5. Batched(r)' \in 0 .. Batched(r)
        BY TakeEffect, OneLess
    <2>6. \A q \in Role : Batched(q)' \in 0 .. Batched(q)
        BY <2>2, <2>4, <2>5, UpTo
    <2> QED  BY <1>0, <2>1, <2>3, <2>6, LessToCarry
<1>3. Account'
    <2>1. CASE Gone("client")
        BY <2>1 DEF Account, Gone
    <2>2. CASE ~Gone("client")
        <3>1. Held(r) = 0 /\ Held(r)' = 0
            BY <2>2, TakeEffect, Inputs DEF Held
        <3>2. UNCHANGED <<Held("client"), Held("server")>>
            BY <3>1, TakeEffect, Roles DEF Held
        <3>3. UNCHANGED <<Waiting("client"), Written>>
            BY DEF Waiting, Written
        <3> QED  BY <3>2, <3>3 DEF RemoteInv, Account, Gone
    <2> QED  BY <2>1, <2>2
<1> QED  BY <1>1, <1>2, <1>3, StayStep

(* A byte that is sent to a peer that is there.                            *)
LEMMA DeliverStep ==
    ASSUME RemoteInv, NEW r \in Role, NEW f, NEW C, Take(r, f, C), ~Gone(Peer(r)),
           inq' = [inq EXCEPT ![Peer(r)] = Append(@, Head(buf[r]))],
           r = "client" => f = INITIAL_INPUT /\ Head(buf[r]) # "del",
           r = "server" /\ f # REDIRECT_INPUT => Head(buf[r]) = "del",
           UNCHANGED <<keys, typed, toShell, fromShell, shell, produced, pc, n, ready, garbled,
                       status, left, eof, err, shown>>,
           exit_triggered' \in [Role -> {"no", "ctrlC", "ctrlD"}], Outside'
    PROVE  RemoteInv'
<1>0. Streams /\ Counts /\ Control
    BY TypeParts DEF RemoteInv
<1>1. /\ n[r] = f /\ buf[r] # <<>> /\ Head(buf[r]) \in Byte
      /\ Batched(r) \in Nat \ {0} /\ Batched(r)' = Batched(r) - 1
      /\ r = "client" => UNCHANGED Batched("server")
      /\ r = "server" => UNCHANGED Batched("client")
    BY TakeEffect
<1>2. /\ Append(inq[Peer(r)], Head(buf[r])) \in Seq(Byte)
      /\ Len(Append(inq[Peer(r)], Head(buf[r]))) = Len(inq[Peer(r)]) + 1
    BY <1>0, <1>1, Longer, Roles DEF Streams
<1>3. /\ inq' \in [Role -> Seq(Byte)] /\ UNCHANGED inq[r]
      /\ inq'[Peer(r)] = Append(inq[Peer(r)], Head(buf[r]))
    BY <1>0, <1>2, Roles DEF Streams
<1>4. /\ r = "client" => Waiting("server")' = Waiting("server") + 1 /\ UNCHANGED Waiting("client")
      /\ r = "server" => Waiting("client")' = Waiting("client") + 1 /\ UNCHANGED Waiting("server")
    BY <1>2, <1>3, Roles DEF Waiting
<1>5. inq'["server"] \in Seq(Byte \ {"del"})
    <2>1. CASE r = "client"
        <3>1. Head(buf[r]) \in Byte \ {"del"} /\ inq["server"] \in Seq(Byte \ {"del"})
            BY <1>1, <2>1 DEF RemoteInv, NoDel
        <3> QED  BY <1>3, <2>1, <3>1, Longer, Roles
    <2>2. CASE r = "server"
        BY <1>3, <2>2 DEF RemoteInv, NoDel
    <2> QED  BY <2>1, <2>2, Roles
<1>6. UNCHANGED <<Unread, Written>>
    BY DEF Unread, Written
<1>7. Budget'
    <2>1. Budget /\ UNCHANGED <<typed, produced, shown>>
        BY DEF RemoteInv
    <2>2. \/ /\ Batched("client") \in Nat \ {0} /\ Batched("client")' = Batched("client") - 1
             /\ Waiting("server")' = Waiting("server") + 1
             /\ UNCHANGED <<Batched("server"), Waiting("client")>>
          \/ /\ Batched("server") \in Nat \ {0} /\ Batched("server")' = Batched("server") - 1
             /\ Waiting("client")' = Waiting("client") + 1
             /\ UNCHANGED <<Batched("client"), Waiting("server")>>
        BY <1>1, <1>4, Roles
    <2> QED  BY <1>0, <1>6, <2>1, <2>2, BudgetMoved
<1>8. Account'
    <2>1. CASE r = "client"
        <3>1. /\ Held("client") = 0 /\ Held("client")' = 0
              /\ UNCHANGED <<Waiting("client"), Held("server")>>
            BY <1>1, <1>4, <2>1, Inputs DEF Held
        <3> QED  BY <1>6, <3>1 DEF RemoteInv, Account, Gone
    <2>2. CASE r = "server" /\ f = REDIRECT_INPUT
        <3>1. /\ Held("server") \in Nat \ {0} /\ Held("server")' = Held("server") - 1
              /\ Waiting("client")' = Waiting("client") + 1
              /\ UNCHANGED Held("client")
            BY <1>1, <1>4, <2>2 DEF Held
        <3>2. produced = shown + Waiting("client") + Held("client") + Held("server") + Written
               => produced = shown + Waiting("client")' + Held("client")' + Held("server")'
                                + Written'
            <4>1. /\ Waiting("client") \in Nat /\ Held("client") \in Nat
                  /\ Written \in Nat /\ shown \in Nat
                BY <1>0, Lengths, CountsNat
            <4> QED  BY ONLY <1>6, <3>1, <4>1, AccountMoved
        <3> QED  BY <3>2 DEF RemoteInv, Account, Gone
    <2>3. CASE r = "server" /\ f # REDIRECT_INPUT
        <3>1. garbled["server"]
            <4>1. n["server"] = INITIAL_INPUT /\ Head(buf["server"]) = "del"
                BY <1>0, <1>1, <2>3, Inputs, Roles DEF Control, Inside
            <4>2. buf["server"] \notin Seq(Byte \ {"del"})
                BY <1>1, <2>3, <4>1, Shorter
            <4> QED  BY <4>1, <4>2 DEF RemoteInv, NoDel
        <3> QED  BY <3>1 DEF Account
    <2> QED  BY <2>1, <2>2, <2>3, Roles
<1>9. shown' \in Nat /\ toShell' \in Seq({"plain"})
    BY <1>0 DEF Counts, Streams
<1> QED  BY <1>3, <1>5, <1>7, <1>8, <1>9, SamePeers, StayStep

LEMMA SigPipeEffect ==
    ASSUME RemoteInv, NEW r \in Role, SigPipe(r), UNCHANGED <<has_key, shell, sigint>>
    PROVE  /\ left' = [left EXCEPT ![r] = "pipe"]
           /\ \E l \in {"wait", "ended"} : pc' = [pc EXCEPT ![r] = l]
           /\ Connection' /\ PeerOK' /\ Outside'
           /\ Gone("client") => Gone("client")'
           /\ r = "client" => Gone("client")'
           /\ UNCHANGED inq \/ inq' = [inq EXCEPT ![r] = <<>>]
<1>0. Control
    BY TypeParts DEF RemoteInv
<1>1. CASE /\ r = "client"
           /\ Close(r, "exit 0") /\ Ended(r, "pipe")
           /\ UNCHANGED pipes_open
    <2>1. /\ Connection' /\ PeerOK' /\ Gone(r)' /\ inq' = [inq EXCEPT ![r] = <<>>]
        BY <1>1, CloseEffect
    <2>2. /\ left' = [left EXCEPT ![r] = "pipe"] /\ pc' = [pc EXCEPT ![r] = "ended"]
        BY <1>1 DEF Ended
    <2>3. Outside'
        BY <1>0, <1>1 DEF Control, Outside
    <2> QED  BY <1>1, <2>1, <2>2, <2>3
<1>2. CASE /\ r = "server"
           /\ pipes_open' = FALSE
           /\ Leave("pipe")
    <2>1. /\ left' = [left EXCEPT ![r] = "pipe"] /\ pc' = [pc EXCEPT ![r] = "wait"]
          /\ UNCHANGED <<status, inq, eof, err>>
        BY <1>2 DEF Leave
    <2>2. Connection' /\ PeerOK'
        BY <2>1, SamePeers
    <2>3. Outside'
        BY <1>0, <1>2 DEF Control, Outside
    <2>4. Gone("client") => Gone("client")'
        BY <2>1 DEF Gone
    <2> QED  BY <1>2, <2>1, <2>2, <2>3, <2>4
<1> QED  BY <1>1, <1>2 DEF SigPipe

(* A byte with which a program leaves its loop.                            *)
LEMMA LostStep ==
    ASSUME RemoteInv, NEW r \in Role, NEW f, NEW C, Take(r, f, C),
           CheckFails(r) \/ SigPipe(r),
           exit_triggered' \in [Role -> {"no", "ctrlC", "ctrlD"}],
           UNCHANGED <<has_key, keys, typed, toShell, fromShell, shell, sigint, produced, n,
                       ready, garbled, shown>>
    PROVE  RemoteInv'
<1>1. left[r] = "no" /\ buf[r] # <<>> /\ buf' = [buf EXCEPT ![r] = Tail(@)]
    BY TakeEffect
<1>2. CASE CheckFails(r)
    BY <1>1, <1>2, CheckFailsEffect, LeaveStep
<1>3. CASE SigPipe(r)
    <2>1. PICK l \in {"wait", "ended"} : pc' = [pc EXCEPT ![r] = l]
        BY <1>3, SigPipeEffect
    <2> QED  BY <1>1, <1>3, <2>1, SigPipeEffect, LeaveStep
<1> QED  BY <1>2, <1>3

(* Send has four outcomes; an error on the socket tells of a peer that is  *)
(* gone.                                                                   *)
LEMMA SendOutcome ==
    ASSUME RemoteInv, NEW r \in Role, NEW c \in Byte, Send(r, c)
    PROVE  \/ /\ ~Gone(Peer(r))
              /\ inq' = [inq EXCEPT ![Peer(r)] = Append(@, c)]
              /\ Stay /\ UNCHANGED err
           \/ /\ Gone(Peer(r))
              /\ Stay /\ UNCHANGED inq
              /\ Connection' /\ PeerOK'
           \/ CheckFails(r)
           \/ SigPipe(r)
<1>0. Control
    BY TypeParts DEF RemoteInv
<1>1. ASSUME NEW e \in {"coming", "taken"}, err[r] # "none" \/ Gone(Peer(r)),
             err' = [err EXCEPT ![r] = e], Stay
      PROVE  Gone(Peer(r)) /\ Connection' /\ PeerOK'
    <2>1. Gone(Peer(r))
        BY <1>1 DEF RemoteInv, PeerOK
    <2>2. UNCHANGED <<eof, status>>
        BY <1>1 DEF Stay
    <2>3. err' \in [Role -> {"none", "coming", "pending", "taken"}]
        BY <1>0, <1>1 DEF Control, Connection
    <2>4. Connection'
        BY <1>0, <2>2, <2>3 DEF Control, Connection
    <2>5. \A q \in Role \ {r} : err'[q] = err[q]
        BY <1>0, <1>1 DEF Control, Connection
    <2>6. PeerOK'
        BY <2>1, <2>2, <2>5 DEF RemoteInv, PeerOK, Gone
    <2> QED  BY <2>1, <2>4, <2>6
<1>2. CASE /\ Gone(Peer(r)) /\ err[r] \in {"none", "coming"}
           /\ err' = [err EXCEPT ![r] = "coming"]
           /\ Stay /\ UNCHANGED inq
    BY <1>1, <1>2
<1>3. CASE /\ err[r] = "pending" /\ ~eof[r] /\ c = "del"
           /\ err' = [err EXCEPT ![r] = "taken"]
           /\ Stay /\ UNCHANGED inq
    BY <1>1, <1>3
<1> QED  BY <1>2, <1>3 DEF Send

LEMMA SendStep ==
    ASSUME RemoteInv, NEW r \in Role, NEW f, NEW C, Take(r, f, C), Send(r, Head(buf[r])),
           r = "client" => f = INITIAL_INPUT /\ Head(buf[r]) # "del",
           r = "server" /\ f # REDIRECT_INPUT => Head(buf[r]) = "del",
           UNCHANGED <<has_key, keys, typed, toShell, fromShell, shell, sigint, produced, n,
                       ready, garbled, shown>>,
           exit_triggered' \in [Role -> {"no", "ctrlC", "ctrlD"}]
    PROVE  RemoteInv'
<1>0. Streams /\ Control
    BY TypeParts DEF RemoteInv
<1>1. Head(buf[r]) \in Byte
    BY TakeEffect
<1>2. Stay => Outside' /\ UNCHANGED <<pc, left, status, eof>>
    BY <1>0 DEF Stay, Control, Outside
<1>3. CASE /\ ~Gone(Peer(r))
           /\ inq' = [inq EXCEPT ![Peer(r)] = Append(@, Head(buf[r]))]
           /\ Stay /\ UNCHANGED err
    BY <1>2, <1>3, DeliverStep
<1>4. CASE /\ Gone(Peer(r))
           /\ Stay /\ UNCHANGED inq
           /\ Connection' /\ PeerOK'
    <2>1. f = INITIAL_INPUT \/ (r = "server" /\ Gone("client"))
        BY <1>4, Roles
    <2>2. toShell' \in Seq({"plain"})
        BY <1>0 DEF Streams
    <2> QED  BY <1>2, <1>4, <2>1, <2>2, DropStep
<1>5. CASE CheckFails(r) \/ SigPipe(r)
    BY <1>5, LostStep
<1> QED  BY <1>1, <1>3, <1>4, <1>5, SendOutcome

LEMMA DisplayedOne ==
    ASSUME NEW s \in Nat, NEW k \in Nat, NEW c \in Nat, NEW d \in Nat, NEW x \in Nat \ {0},
           NEW y \in Nat, NEW f \in Nat, NEW t \in Nat, NEW p \in Nat
    PROVE  /\ s + k + c + d + x + y + f <= t + p =>
                  (s + 1) + k + c + d + (x - 1) + y + f <= t + p
           /\ p = s + c + x + y + f => p = (s + 1) + c + (x - 1) + y + f
OBVIOUS

LEMMA ClientDisplaysStep ==
    ASSUME RemoteInv, ClientDisplays
    PROVE  RemoteInv'
<1>0. Streams /\ Counts /\ Control
    BY TypeParts DEF RemoteInv
<1>1. /\ UNCHANGED <<has_key, keys, typed, inq, eof, err, toShell, fromShell, pipes_open,
                     shell, sigint, produced, pc, n, ready, garbled, exit_triggered, status,
                     left>>
      /\ Take("client", REDIRECT_INPUT, Byte) /\ shown' = shown + 1
    BY DEF ClientDisplays, typing, socket, pipes, shellVars, ends
<1>2. /\ n["client"] = REDIRECT_INPUT
      /\ Batched("client") \in Nat \ {0} /\ Batched("client")' = Batched("client") - 1
      /\ UNCHANGED Batched("server")
    BY <1>1, TakeEffect, Roles
<1>3. UNCHANGED <<Unread, Waiting("client"), Waiting("server"), Held("server"), Written>>
    BY <1>1, <1>2 DEF Unread, Waiting, Held, Written
<1>4. /\ Held("client") \in Nat \ {0} /\ Held("client")' = Held("client") - 1
    BY <1>1, <1>2 DEF Held
<1>5. Budget'
    <2>1. Budget /\ UNCHANGED <<typed, produced>> /\ shown' = shown + 1
        BY <1>1 DEF RemoteInv
    <2> QED  BY <1>0, <1>2, <1>3, <2>1, Lengths, CountsNat, DisplayedOne DEF Budget
<1>6. Account'
    <2>1. UNCHANGED produced /\ shown' = shown + 1
        BY <1>1
    <2>2. produced = shown + Waiting("client") + Held("client") + Held("server") + Written
           => produced' = shown' + Waiting("client")' + Held("client")' + Held("server")'
                            + Written'
        BY <1>0, <1>3, <1>4, <2>1, Lengths, CountsNat, DisplayedOne
    <2> QED  BY <1>1, <2>2 DEF RemoteInv, Account, Gone
<1>7. shown' \in Nat
    BY <1>0, <1>1, CountsNat
<1>8. /\ toShell' \in Seq({"plain"}) /\ inq' \in [Role -> Seq(Byte)]
      /\ inq'["server"] \in Seq(Byte \ {"del"})
    BY <1>0, <1>1 DEF RemoteInv, NoDel, Streams
<1>9. exit_triggered' \in [Role -> {"no", "ctrlC", "ctrlD"}] /\ Outside'
    BY <1>0, <1>1 DEF Control, Inside, Outside
<1> QED  BY <1>1, <1>5, <1>6, <1>7, <1>8, <1>9, SamePeers, Roles, StayStep

LEMMA ClientSendsStep ==
    ASSUME RemoteInv, ClientSends
    PROVE  RemoteInv'
<1>0. Streams /\ Control
    BY TypeParts DEF RemoteInv
<1>1. /\ UNCHANGED <<has_key, keys, typed, toShell, fromShell, shell, sigint, produced, n,
                     ready, garbled, shown>>
      /\ Take("client", INITIAL_INPUT, Byte)
    BY DEF ClientSends, typing, shellVars
<1>2. CASE UNCHANGED <<socket, pipes_open, pc, ends>>
    <2>1. UNCHANGED <<inq, eof, err, pipes_open, pc, exit_triggered, status, left>>
        BY <1>2 DEF socket, ends
    <2>2. /\ exit_triggered' \in [Role -> {"no", "ctrlC", "ctrlD"}] /\ Outside'
          /\ toShell' \in Seq({"plain"})
        BY <1>0, <1>1, <2>1 DEF Streams, Control, Inside, Outside
    <2> QED  BY <1>1, <2>1, <2>2, SamePeers, Roles, DropStep
<1>3. ASSUME Head(buf["client"]) # "del", Send("client", Head(buf["client"])),
             \/ UNCHANGED exit_triggered
             \/ /\ Head(buf["client"]) \in {"ctrlC", "ctrlD"}
                /\ exit_triggered' =
                      [exit_triggered EXCEPT !["client"] = Head(buf["client"])]
      PROVE  RemoteInv'
    <2>1. exit_triggered' \in [Role -> {"no", "ctrlC", "ctrlD"}]
        BY <1>0, <1>3 DEF Control, Inside
    <2> QED  BY <1>1, <1>3, <2>1, Roles, SendStep
<1> QED  BY <1>2, <1>3 DEF ClientSends

LEMMA ServerToShellStep ==
    ASSUME RemoteInv, ServerToShell
    PROVE  RemoteInv'
<1>0. Streams /\ Control
    BY TypeParts DEF RemoteInv
<1>1. /\ UNCHANGED <<has_key, keys, typed, inq, eof, err, fromShell, shell, sigint,
                     produced, n, ready, garbled, exit_triggered, status, shown>>
      /\ Take("server", INITIAL_INPUT, {"plain"})
    BY DEF ServerToShell, typing, socket, shellVars
<1>2. exit_triggered' \in [Role -> {"no", "ctrlC", "ctrlD"}]
    BY <1>0, <1>1 DEF Control, Inside
<1>3. CASE toShell' = Append(toShell, "plain") /\ Stay
    <2>1. toShell' \in Seq({"plain"})
        BY <1>0, <1>3, Longer DEF Streams
    <2>2. Outside' /\ UNCHANGED <<pc, left>>
        BY <1>0, <1>1, <1>3 DEF Stay, Control, Outside
    <2> QED  BY <1>1, <1>2, <2>1, <2>2, SamePeers, Roles, DropStep
<1>4. CASE SigPipe("server") /\ UNCHANGED toShell
    BY <1>1, <1>2, <1>4, Roles, LostStep
<1> QED  BY <1>3, <1>4 DEF ServerToShell

(* A control key with which the server goes to wait for the shell.         *)
LEMMA KeyStep ==
    ASSUME RemoteInv, NEW k \in {"ctrlC", "ctrlD"}, Take("server", INITIAL_INPUT, {k}),
           exit_triggered' = [exit_triggered EXCEPT !["server"] = k],
           Leave("key"), Outside',
           UNCHANGED <<keys, typed, toShell, fromShell, shell, produced, n, ready, garbled,
                       shown>>
    PROVE  RemoteInv'
<1>0. Control
    BY TypeParts DEF RemoteInv
<1>1. left["server"] = "no" /\ buf["server"] # <<>>
      /\ buf' = [buf EXCEPT !["server"] = Tail(@)]
    BY TakeEffect, Roles
<1>2. /\ left' = [left EXCEPT !["server"] = "key"] /\ pc' = [pc EXCEPT !["server"] = "wait"]
      /\ UNCHANGED <<status, inq, eof, err>>
    BY DEF Leave
<1>3. exit_triggered' \in [Role -> {"no", "ctrlC", "ctrlD"}]
    BY <1>0 DEF Control, Inside
<1>4. (Gone("client") => Gone("client")') /\ "server" # "client"
    BY <1>2 DEF Gone
<1> QED  BY <1>1, <1>2, <1>3, <1>4, SamePeers, Roles, LeaveStep

LEMMA ServerCtrlCStep ==
    ASSUME RemoteInv, ServerCtrlC
    PROVE  RemoteInv'
<1>0. Control
    BY TypeParts DEF RemoteInv
<1>1. /\ UNCHANGED <<has_key, keys, typed, toShell, fromShell, pipes_open, shell, produced,
                     n, ready, garbled, shown>>
      /\ Take("server", INITIAL_INPUT, {"ctrlC"}) /\ Leave("key")
      /\ exit_triggered' = [exit_triggered EXCEPT !["server"] = "ctrlC"]
      /\ sigint' = (sigint \/ shell = "running")
    BY DEF ServerCtrlC, typing, pipes
<1>2. Outside'
    BY <1>0, <1>1 DEF Control, Outside
<1> QED  BY <1>1, <1>2, KeyStep

LEMMA ServerCtrlDStep ==
    ASSUME RemoteInv, ServerCtrlD
    PROVE  RemoteInv'
<1>0. Control
    BY TypeParts DEF RemoteInv
<1>1. /\ UNCHANGED <<has_key, keys, typed, toShell, fromShell, shell, sigint, produced,
                     n, ready, garbled, shown>>
      /\ Take("server", INITIAL_INPUT, {"ctrlD"}) /\ Leave("key")
      /\ exit_triggered' = [exit_triggered EXCEPT !["server"] = "ctrlD"]
      /\ pipes_open' = FALSE
    BY DEF ServerCtrlD, typing, shellVars
<1>2. Outside'
    BY <1>0, <1>1 DEF Control, Outside
<1> QED  BY <1>1, <1>2, KeyStep

LEMMA ServerSendsStep ==
    ASSUME RemoteInv, ServerSends
    PROVE  RemoteInv'
<1>0. Control
    BY TypeParts DEF RemoteInv
<1>1. /\ UNCHANGED <<has_key, keys, typed, toShell, fromShell, shell, sigint, produced, n,
                     ready, garbled, exit_triggered, shown>>
      /\ Send("server", Head(buf["server"]))
    BY DEF ServerSends, typing, shellVars
<1>2. exit_triggered' \in [Role -> {"no", "ctrlC", "ctrlD"}] /\ "server" # "client"
    BY <1>0, <1>1 DEF Control, Inside
<1>3. CASE Take("server", REDIRECT_INPUT, Byte)
    BY <1>1, <1>2, <1>3, Roles, SendStep
<1>4. CASE Take("server", INITIAL_INPUT, {"del"})
    <2>1. Head(buf["server"]) = "del"
        BY <1>4, TakeEffect, Roles
    <2> QED  BY <1>1, <1>2, <1>4, <2>1, Roles, SendStep
<1> QED  BY <1>3, <1>4 DEF ServerSends

-----------------------------------------------------------------------------
LEMMA RemoteInvInit ==
    ASSUME Init
    PROVE  RemoteInv
<1>1. Streams
    BY None DEF Init, Streams
<1>2. Counts
    <2>1. 0 \in Nat /\ \A m \in Nat : 0 \in 0 .. m
        OBVIOUS
    <2> QED  BY <2>1, BoundAssumption DEF Init, Counts
<1>3. Control
    BY Inputs DEF Init, Control, Connection, Inside, Outside
<1>4. LoopOK
    BY DEF Init, LoopOK
<1>5. PeerOK
    BY DEF Init, PeerOK
<1>6. NoDel
    BY None, Roles DEF Init, NoDel
<1>7. HangUpOK
    BY Roles DEF Init, HangUpOK
<1>8. /\ Unread = 0 /\ Waiting("client") = 0 /\ Waiting("server") = 0
      /\ Batched("client") = 0 /\ Batched("server") = 0 /\ Written = 0
    BY None, Roles DEF Init, Unread, Waiting, Batched, Written
<1>9. Held("client") = 0 /\ Held("server") = 0
    BY <1>8 DEF Held
<1>10. shown = 0 /\ produced = 0 /\ typed = 0
    BY DEF Init
<1>11. Budget /\ Account
    BY <1>8, <1>9, <1>10 DEF Budget, Account
<1>12. TypeOK
    BY <1>1, <1>2, <1>3, <1>11, TypeOfParts
<1> QED  BY <1>4, <1>5, <1>6, <1>7, <1>11, <1>12 DEF RemoteInv

LEMMA RemoteInvNext ==
    ASSUME RemoteInv, [Next]_vars
    PROVE  RemoteInv'
<1>1. ASSUME NEW r \in Role, Loop(r)
      PROVE  RemoteInv'
    BY <1>1, PollStep, ReadStep, ReadErrorStep, QuietStep DEF Loop
<1>2. CASE Client
    BY <1>1, <1>2, Roles, ClientDisplaysStep, ClientSendsStep, ClientLeavesStep DEF Client
<1>3. CASE Server
    BY <1>1, <1>3, Roles, HangUpStep, ServerToShellStep, ServerCtrlCStep, ServerCtrlDStep,
       ServerSendsStep, ServerWaitStep DEF Server
<1>4. CASE Network
    BY <1>4, ResetStep DEF Network
<1>5. CASE ShellStep \/ ShellWrite \/ ShellExit \/ Type
    BY <1>5, ShellReadStep, InterruptStep, ShellWriteStep, ShellExitStep, TypeStep
    DEF ShellStep, ShellEof
<1>6. CASE UNCHANGED vars
    <2>1. UNCHANGED <<has_key, keys, typed, inq, eof, err, toShell, fromShell, pipes_open,
                      shell, sigint, produced, pc, n, ready, buf, garbled, exit_triggered,
                      status, left, shown>>
        BY <1>6 DEF vars, typing, socket, pipes, shellVars, loop, ends
    <2>2. /\ toShell' \in Seq({"plain"}) /\ Outside' /\ (ShellDead => ShellDead')
        BY <2>1, TypeParts DEF RemoteInv, Streams, Control, Outside, ShellDead
    <2> QED  BY <2>1, <2>2, SamePeers, StillStep
<1> QED  BY <1>2, <1>3, <1>4, <1>5, <1>6 DEF Next

LEMMA RemoteInvariant == Spec => []RemoteInv
BY RemoteInvInit, RemoteInvNext, PTL DEF Spec

(* For any number of bytes typed and written, with and without encryption: *)
(* every variable of client, server and connection keeps its type; no more *)
(* is displayed than was typed and written.                                *)
THEOREM RemoteTypeCorrect == Spec => []TypeOK
<1>1. RemoteInv => TypeOK
    BY DEF RemoteInv
<1> QED  BY <1>1, RemoteInvariant, PTL

(* When the server leaves because the shell hung up (lab1b-server.c:559)   *)
(* and the client is still there, every byte that the shell ever wrote has *)
(* been displayed or waits to be: on the connection or in the client's     *)
(* batch.                                                                  *)
THEOREM HangUpDelivers == Spec => []OutputDelivered
<1>1. ASSUME RemoteInv
      PROVE  OutputDelivered
    <2> SUFFICES ASSUME left["server"] = "hangup", ~Gone("client"), ~garbled["server"]
                 PROVE  produced = shown + InTransit
        BY DEF OutputDelivered
    <2>1. Held("server") = 0 /\ Written = 0
        BY <1>1, None DEF RemoteInv, HangUpOK, Held, Batched, Written
    <2>2. produced = shown + Waiting("client") + Held("client") + Held("server") + Written
        BY <1>1 DEF RemoteInv, Account
    <2>3. InTransit = Waiting("client") + Held("client")
        BY DEF InTransit, Waiting, Held, Batched
    <2>4. Streams /\ Counts
        BY <1>1, TypeParts DEF RemoteInv
    <2>5. /\ shown \in Nat /\ Waiting("client") \in Nat /\ Held("client") \in Nat
        BY <2>4, Lengths, CountsNat
    <2> QED  BY ONLY <2>1, <2>2, <2>3, <2>5
<1> QED  BY <1>1, RemoteInvariant, PTL

=============================================================================
