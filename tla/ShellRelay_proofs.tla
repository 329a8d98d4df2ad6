------------------------- MODULE ShellRelay_proofs -------------------------
(***************************************************************************)
(* Theorems about the relay of project 1a: its types, that no output of    *)
(* the shell is lost at a hang-up, and that the shell is reaped.           *)
(***************************************************************************)
EXTENDS ShellRelay, SequenceTheorems, TLAPS

(* The relay knows whether there is a shell, and looks at the shell's pipe *)
(* only if there is one.                                                   *)
ShellOK ==
    /\ (shell = "none") <=> ~pass_shell
    /\ n = FROM_SHELL => pass_shell
    /\ writing # "none" => produced < MaxOutput

(* The bytes of the shell that the relay holds and has not displayed.      *)
Held == IF tpc = "byte" /\ n = FROM_SHELL THEN Len(buf) ELSE 0

(* As long as the loop runs, every byte of the shell is displayed, held by *)
(* the relay, or in the pipe.                                              *)
Conserved ==
    tpc \in {"poll", "source", "byte"} =>
        left = "no" /\ produced = shown + Len(fromShell) + Held

(* What poll() said of a hang-up stays true until the next poll(): a dead  *)
(* shell writes no more, so a pipe that was empty then is empty now.       *)
HangUpStable ==
    tpc \in {"source", "byte"} /\ "POLLHUP" \in revents[FROM_SHELL] =>
        /\ ShellDead
        /\ "POLLIN" \notin revents[FROM_SHELL] => fromShell = <<>>

(* The relay left at the hang-up of the shell.                             *)
LeftOK ==
    left = "hangup" /\ n = FROM_SHELL => ShellDead /\ shown = produced

StatusOK ==
    /\ (status = "running") <=> (tpc # "ended")
    /\ ShellReaped

RelayInv ==
    TypeOK /\ ShellOK /\ Conserved /\ HangUpStable /\ LeftOK /\ StatusOK

-----------------------------------------------------------------------------
(* The types, in parts: the sequences of bytes, the counts, and the        *)
(* control state, of the relay (Inside) and of all else (Outside).         *)

Streams ==
    /\ keys \in Seq(Byte)
    /\ toShell \in Seq({"plain"}) /\ Len(toShell) <= PIPE_SIZE
    /\ fromShell \in Seq(ShellBytes) /\ Len(fromShell) <= PIPE_SIZE
    /\ buf \in Seq(Byte) /\ Len(buf) <= BUFSIZE

Counts ==
    /\ typed \in 0 .. MaxKeys
    /\ produced \in 0 .. MaxOutput
    /\ shown \in 0 .. produced

Outside ==
    /\ pass_shell \in BOOLEAN
    /\ kbd_open \in BOOLEAN
    /\ pipes_open \in BOOLEAN
    /\ shell \in {"none", "running", "exited", "killed"}
    /\ sigint \in BOOLEAN
    /\ writing \in ShellBytes \cup {"none"}

Inside ==
    /\ tpc \in {"poll", "source", "byte", "wait", "ended"}
    /\ n \in {FROM_KEYBOARD, FROM_SHELL}
    /\ revents \in [{FROM_KEYBOARD, FROM_SHELL} -> SUBSET {"POLLIN", "POLLHUP"}]
    /\ status \in {"running", "exit 0", "exit 1"}
    /\ left \in {"no", "key", "hangup", "pipe"}

Control == Outside /\ Inside

LEMMA TypeParts == TypeOK <=> Streams /\ Counts /\ Control
BY DEF TypeOK, Streams, Counts, Control, Outside, Inside

LEMMA TypePartsNext ==
    ASSUME Streams', Counts', Control'
    PROVE  TypeOK'
BY DEF TypeOK, Streams, Counts, Control, Outside, Inside

-----------------------------------------------------------------------------
(* What one read() takes of a stream, and what it leaves.                  *)

(* Taking at most b of l leaves the rest.                                  *)
LEMMA Parts ==
    ASSUME NEW l \in Nat, NEW b \in Nat,
           NEW x \in Nat, x = IF b < l THEN b ELSE l,
           NEW y \in Nat, y = IF b < l THEN l - b ELSE 0
    PROVE  x <= b /\ y <= l /\ x + y = l
OBVIOUS

(* A batch that does not hold the whole stream fills the buffer.           *)
LEMMA FullBatch ==
    ASSUME NEW S, NEW s \in Seq(S), Len(s) > BUFSIZE
    PROVE  /\ SubSeq(s, 1, BUFSIZE) \in Seq(S)
           /\ Len(SubSeq(s, 1, BUFSIZE)) = BUFSIZE
<1>1. BUFSIZE \in Nat \ {0} /\ Len(s) \in Nat
    BY SizeAssumption, LenProperties
<1>2. \A i \in 1 .. BUFSIZE : s[i] \in S
    BY <1>1, ElementOfSeq
<1>3. Len(SubSeq(s, 1, BUFSIZE)) = IF 1 <= BUFSIZE THEN BUFSIZE - 1 + 1 ELSE 0
    BY <1>1, <1>2, SubSeqProperties
<1>4. SubSeq(s, 1, BUFSIZE) \in Seq(S)
    BY <1>1, <1>2, SubSeqProperties
<1> QED  BY <1>1, <1>3, <1>4

(* What a batch leaves in the stream.                                      *)
LEMMA Remainder ==
    ASSUME NEW S, NEW s \in Seq(S)
    PROVE  /\ SubSeq(s, BUFSIZE + 1, Len(s)) \in Seq(S)
           /\ Len(SubSeq(s, BUFSIZE + 1, Len(s)))
                = IF BUFSIZE < Len(s) THEN Len(s) - BUFSIZE ELSE 0
<1>1. BUFSIZE \in Nat \ {0} /\ Len(s) \in Nat
    BY SizeAssumption, LenProperties
<1>2. \A i \in BUFSIZE + 1 .. Len(s) : s[i] \in S
    BY <1>1, ElementOfSeq
<1>3. Len(SubSeq(s, BUFSIZE + 1, Len(s)))
        = IF BUFSIZE + 1 <= Len(s) THEN Len(s) - (BUFSIZE + 1) + 1 ELSE 0
    BY <1>1, <1>2, SubSeqProperties
<1>4. SubSeq(s, BUFSIZE + 1, Len(s)) \in Seq(S)
    BY <1>1, <1>2, SubSeqProperties
<1> QED  BY <1>1, <1>3, <1>4

Batch(s) == IF Len(s) <= BUFSIZE THEN s ELSE SubSeq(s, 1, BUFSIZE)
Rest(s) == SubSeq(s, BUFSIZE + 1, Len(s))

(* Batch and remainder are sequences of the same bytes, no byte is lost    *)
(* between them, and the batch fits the buffer.                            *)
LEMMA Cut ==
    ASSUME NEW S, NEW s \in Seq(S)
    PROVE  /\ Batch(s) \in Seq(S) /\ Len(Batch(s)) \in Nat /\ Len(Batch(s)) <= BUFSIZE
           /\ Rest(s) \in Seq(S) /\ Len(Rest(s)) \in Nat /\ Len(Rest(s)) <= Len(s)
           /\ Len(Batch(s)) + Len(Rest(s)) = Len(s)
<1>1. BUFSIZE \in Nat \ {0} /\ Len(s) \in Nat
    BY SizeAssumption, LenProperties
<1>2. Rest(s) \in Seq(S) /\ Batch(s) \in Seq(S)
    BY <1>1, FullBatch, Remainder DEF Batch, Rest
<1>3. Len(Rest(s)) = IF BUFSIZE < Len(s) THEN Len(s) - BUFSIZE ELSE 0
    BY Remainder DEF Rest
<1>4. Len(Batch(s)) = IF BUFSIZE < Len(s) THEN BUFSIZE ELSE Len(s)
    BY <1>1, FullBatch DEF Batch
<1>5. Len(Batch(s)) \in Nat /\ Len(Rest(s)) \in Nat
    BY <1>2, LenProperties
<1>6. /\ Len(Batch(s)) <= BUFSIZE /\ Len(Rest(s)) <= Len(s)
      /\ Len(Batch(s)) + Len(Rest(s)) = Len(s)
    BY <1>1, <1>3, <1>4, <1>5, Parts
<1> QED  BY <1>2, <1>5, <1>6

(* A byte that leaves a batch leaves it one shorter.                       *)
LEMMA Shorter ==
    ASSUME NEW S, NEW s \in Seq(S), s # <<>>
    PROVE  /\ Tail(s) \in Seq(S) /\ Len(s) \in Nat \ {0}
           /\ Len(Tail(s)) = Len(s) - 1
BY HeadTailProperties, EmptySeq

-----------------------------------------------------------------------------
(* Steps that leave parts of the invariant alone.                          *)

LEMMA SameStreams ==
    ASSUME Streams, UNCHANGED <<keys, toShell, fromShell, buf>>
    PROVE  Streams'
BY DEF Streams

LEMMA SameCounts ==
    ASSUME Counts, UNCHANGED <<typed, produced, shown>>
    PROVE  Counts'
BY DEF Counts

LEMMA SameOutside ==
    ASSUME Control, sigint' \in BOOLEAN,
           UNCHANGED <<pass_shell, kbd_open, pipes_open, shell, writing>>
    PROVE  Outside'
BY DEF Control, Outside

LEMMA SameInside ==
    ASSUME Control, UNCHANGED <<tpc, n, revents, status, left>>
    PROVE  Inside'
BY DEF Control, Inside

LEMMA SameControl ==
    ASSUME Control, sigint' \in BOOLEAN,
           UNCHANGED <<pass_shell, kbd_open, pipes_open, shell, writing, tpc, n, revents,
                       status, left>>
    PROVE  Control'
BY SameOutside, SameInside DEF Control

(* What the flow of the shell's output depends on.                         *)
flowVars == <<pass_shell, fromShell, shell, produced, tpc, n, revents, buf, status,
              left, shown>>

LEMMA SameFlow ==
    ASSUME RelayInv, UNCHANGED flowVars
    PROVE  Conserved' /\ HangUpStable' /\ LeftOK' /\ StatusOK'
BY DEF RelayInv, flowVars, Conserved, Held, HangUpStable, LeftOK, StatusOK, ShellReaped,
       ShellDead

LEMMA UserStep ==
    ASSUME RelayInv, User
    PROVE  RelayInv'
<1>0. Streams /\ Counts /\ Control
    BY TypeParts DEF RelayInv
<1>1. CASE Type
    <2>1. UNCHANGED <<flowVars, writing, toShell>>
        BY <1>1 DEF Type, shellVars, flowVars
    <2>2. PICK c \in Byte : keys' = Append(keys, c)
        BY <1>1 DEF Type
    <2>3. keys' \in Seq(Byte)
        BY <1>0, <2>2, AppendProperties DEF Streams
    <2>4. Streams'
        BY <1>0, <2>1, <2>3 DEF Streams, flowVars
    <2>5. Counts'
        BY <1>0, <1>1, SizeAssumption DEF Counts, Type, shellVars
    <2>6. Control'
        <3>1. Outside'
            BY <1>0, <1>1 DEF Control, Outside, Type, shellVars
        <3>2. Inside'
            BY <1>0, <1>1 DEF Control, Inside, Type, shellVars
        <3> QED  BY <3>1, <3>2 DEF Control
    <2>7. TypeOK'
        BY <2>4, <2>5, <2>6, TypePartsNext
    <2>8. Conserved' /\ HangUpStable' /\ LeftOK' /\ StatusOK'
        BY <2>1, SameFlow
    <2> QED  BY <2>1, <2>7, <2>8 DEF RelayInv, ShellOK, flowVars
<1>2. CASE CloseKeyboard
    <2>1. UNCHANGED <<flowVars, writing, typed, keys, toShell>>
        BY <1>2 DEF CloseKeyboard, shellVars, flowVars
    <2>2. Streams' /\ Counts'
        BY <1>0, <2>1, SameStreams, SameCounts DEF flowVars
    <2>3. Control'
        <3>1. Outside'
            BY <1>0, <1>2 DEF Control, Outside, CloseKeyboard, shellVars
        <3>2. Inside'
            BY <1>0, <1>2 DEF Control, Inside, CloseKeyboard, shellVars
        <3> QED  BY <3>1, <3>2 DEF Control
    <2>4. TypeOK'
        BY <2>2, <2>3, TypePartsNext
    <2>5. Conserved' /\ HangUpStable' /\ LeftOK' /\ StatusOK'
        BY <2>1, SameFlow
    <2> QED  BY <2>1, <2>4, <2>5 DEF RelayInv, ShellOK, flowVars
<1> QED  BY <1>1, <1>2 DEF User

-----------------------------------------------------------------------------
(* Steps of the shell.                                                     *)

LEMMA ShellReadStep ==
    ASSUME RelayInv, ShellRead
    PROVE  RelayInv'
<1>0. Streams /\ Counts /\ Control
    BY TypeParts DEF RelayInv
<1>1. UNCHANGED <<flowVars, keys, typed>>
    BY DEF ShellRead, Unread, relayVars, flowVars, keyboard
<1>2. Streams'
    <2>1. toShell' \in Seq({"plain"}) /\ Len(toShell) \in Nat /\ Len(toShell') = Len(toShell) - 1
        BY <1>0, Shorter DEF Streams, ShellRead
    <2>2. Len(toShell') <= PIPE_SIZE
        BY <1>0, <2>1, SizeAssumption DEF Streams
    <2> QED  BY <1>0, <1>1, <2>1, <2>2 DEF Streams, flowVars
<1>3. Counts'
    BY <1>0, <1>1, SameCounts DEF flowVars
<1>4. Control'
    <2>1. Outside'
        BY <1>0 DEF Control, Outside, ShellRead, Unread, relayVars, keyboard
    <2>2. Inside'
        BY <1>0 DEF Control, Inside, ShellRead, Unread, relayVars, keyboard
    <2> QED  BY <2>1, <2>2 DEF Control
<1>5. ShellOK'
    BY <1>1 DEF RelayInv, ShellOK, ShellRead, flowVars
<1>6. TypeOK'
    BY <1>2, <1>3, <1>4, TypePartsNext
<1>7. Conserved' /\ HangUpStable' /\ LeftOK' /\ StatusOK'
    BY <1>1, SameFlow
<1> QED  BY <1>5, <1>6, <1>7 DEF RelayInv

LEMMA ShellStartsWritingStep ==
    ASSUME RelayInv, ShellStartsWriting
    PROVE  RelayInv'
<1>0. Streams /\ Counts /\ Control
    BY TypeParts DEF RelayInv
<1>1. UNCHANGED <<flowVars, keys, typed, toShell>>
    BY DEF ShellStartsWriting, Unread, relayVars, flowVars, keyboard
<1>2. Streams' /\ Counts'
    BY <1>0, <1>1, SameStreams, SameCounts DEF flowVars
<1>3. Control'
    <2>1. Outside'
        BY <1>0 DEF Control, Outside, ShellStartsWriting, Unread, relayVars, keyboard
    <2>2. Inside'
        BY <1>0 DEF Control, Inside, ShellStartsWriting, Unread, relayVars, keyboard
    <2> QED  BY <2>1, <2>2 DEF Control
<1>4. ShellOK'
    BY <1>1 DEF RelayInv, ShellOK, ShellStartsWriting, flowVars
<1>5. TypeOK'
    BY <1>2, <1>3, TypePartsNext
<1>6. Conserved' /\ HangUpStable' /\ LeftOK' /\ StatusOK'
    BY <1>1, SameFlow
<1> QED  BY <1>4, <1>5, <1>6 DEF RelayInv

(* One byte more in the pipe is one byte more written.                     *)
LEMMA OneMoreByte ==
    ASSUME NEW p \in Nat, NEW s \in Nat, NEW l \in Nat, NEW h \in Nat, p = s + l + h
    PROVE  p + 1 = s + (l + 1) + h
OBVIOUS

(* A running shell that ends, in whatever way, disturbs nothing: it has    *)
(* written what it has written.                                            *)
LEMMA ShellEnds ==
    ASSUME RelayInv, TypeOK', shell = "running", shell' \in {"exited", "killed"},
           UNCHANGED <<pass_shell, fromShell, writing, produced, tpc, n, revents, buf,
                       status, left, shown>>
    PROVE  RelayInv'
<1>1. ShellOK'
    BY DEF RelayInv, ShellOK
<1>2. Conserved'
    BY DEF RelayInv, Conserved, Held
<1>3. ~ShellDead /\ ShellDead'
    BY DEF ShellDead
<1>4. HangUpStable' /\ LeftOK'
    BY <1>3 DEF RelayInv, HangUpStable, LeftOK
<1>5. pass_shell => status = "running"
    BY DEF RelayInv, StatusOK, ShellReaped
<1>6. StatusOK'
    BY <1>5 DEF RelayInv, StatusOK, ShellReaped
<1> QED  BY <1>1, <1>2, <1>4, <1>6 DEF RelayInv

(* ShellWrite: the byte goes from the shell into the pipe.                 *)
LEMMA ShellWriteStep ==
    ASSUME RelayInv, ShellWrite
    PROVE  RelayInv'
<1>0. Streams /\ Counts /\ Control
    BY TypeParts DEF RelayInv
<1>1. UNCHANGED <<keys, typed, toShell, pass_shell, tpc, n, revents, buf, status, left, shown>>
    BY DEF ShellWrite, Unread, relayVars, keyboard
<1>2. CASE /\ Len(fromShell) < PIPE_SIZE
           /\ fromShell' = Append(fromShell, writing)
           /\ produced' = produced + 1
           /\ writing' = "none"
           /\ UNCHANGED shell
    <2>1. writing \in ShellBytes
        BY <1>0 DEF ShellWrite, Control, Outside
    <2>2. /\ fromShell' \in Seq(ShellBytes)
          /\ Len(fromShell) \in Nat /\ Len(fromShell') = Len(fromShell) + 1
        BY <1>0, <1>2, <2>1, AppendProperties, LenProperties DEF Streams
    <2>3. Len(fromShell') <= PIPE_SIZE
        BY <1>2, <2>2, SizeAssumption
    <2>4. Streams'
        BY <1>0, <1>1, <2>2, <2>3 DEF Streams
    <2>5. produced < MaxOutput
        BY DEF ShellWrite, RelayInv, ShellOK
    <2>6. Counts'
        BY <1>0, <1>1, <1>2, <2>5, SizeAssumption DEF Counts
    <2>7. Control'
        <3>1. Outside'
            BY <1>0, <1>2 DEF Control, Outside, ShellWrite, Unread, relayVars, keyboard
        <3>2. Inside'
            BY <1>0, <1>2 DEF Control, Inside, ShellWrite, Unread, relayVars, keyboard
        <3> QED  BY <3>1, <3>2 DEF Control
    <2>8. TypeOK'
        BY <2>4, <2>6, <2>7, TypePartsNext
    <2>9. ShellOK'
        BY <1>1, <1>2 DEF RelayInv, ShellOK
    <2>10. Conserved'
        <3>1. Held' = Held
            BY <1>1 DEF Held
        <3>2. Held \in Nat
            BY <1>0, LenProperties DEF Held, Streams
        <3>3. produced = shown + Len(fromShell) + Held
                => produced' = shown' + Len(fromShell') + Held'
            BY <1>0, <1>1, <1>2, <2>2, <3>1, <3>2, OneMoreByte DEF Counts
        <3> QED  BY <1>1, <3>3 DEF RelayInv, Conserved
    <2>11. ~ShellDead
        BY DEF ShellWrite, ShellDead
    <2>12. HangUpStable' /\ LeftOK'
        BY <1>1, <1>2, <2>11 DEF RelayInv, HangUpStable, LeftOK, ShellDead
    <2>13. StatusOK'
        BY <1>1, <1>2 DEF RelayInv, StatusOK, ShellReaped
    <2> QED  BY <2>8, <2>9, <2>10, <2>12, <2>13 DEF RelayInv
<1>3. CASE shell' = "killed" /\ UNCHANGED <<fromShell, produced, writing>>
    <2>1. Streams' /\ Counts'
        BY <1>0, <1>1, <1>3, SameStreams, SameCounts
    <2>2. Control'
        <3>1. Outside'
            BY <1>0, <1>3 DEF Control, Outside, ShellWrite, Unread, relayVars, keyboard
        <3>2. Inside'
            BY <1>0, <1>3 DEF Control, Inside, ShellWrite, Unread, relayVars, keyboard
        <3> QED  BY <3>1, <3>2 DEF Control
    <2>3. TypeOK'
        BY <2>1, <2>2, TypePartsNext
    <2>4. shell = "running"
        BY DEF ShellWrite
    <2> QED  BY <1>1, <1>3, <2>3, <2>4, ShellEnds
<1> QED  BY <1>2, <1>3 DEF ShellWrite

LEMMA ShellExitStep ==
    ASSUME RelayInv, ShellExit
    PROVE  RelayInv'
<1>0. Streams /\ Counts /\ Control
    BY TypeParts DEF RelayInv
<1>1. UNCHANGED <<keys, typed, toShell, fromShell, writing, produced, pass_shell, tpc, n,
                  revents, buf, status, left, shown>>
    BY DEF ShellExit, Unread, relayVars, keyboard
<1>2. shell = "running" /\ shell' = "exited"
    BY DEF ShellExit
<1>3. Control'
    <2>1. Outside'
        BY <1>0 DEF Control, Outside, ShellExit, Unread, relayVars, keyboard
    <2>2. Inside'
        BY <1>0 DEF Control, Inside, ShellExit, Unread, relayVars, keyboard
    <2> QED  BY <2>1, <2>2 DEF Control
<1>4. TypeOK'
    BY <1>0, <1>1, <1>3, SameStreams, SameCounts, TypePartsNext
<1> QED  BY <1>1, <1>2, <1>4, ShellEnds

LEMMA InterruptStep ==
    ASSUME RelayInv, Interrupt
    PROVE  RelayInv'
<1>0. Streams /\ Counts /\ Control
    BY TypeParts DEF RelayInv
<1>1. UNCHANGED <<keys, typed, toShell, fromShell, writing, produced, pass_shell, tpc, n,
                  revents, buf, status, left, shown>>
    BY DEF Interrupt, Unread, relayVars, keyboard
<1>2. Control'
    <2>1. Outside'
        BY <1>0 DEF Control, Outside, Interrupt, Unread, relayVars, keyboard
    <2>2. Inside'
        BY <1>0 DEF Control, Inside, Interrupt, Unread, relayVars, keyboard
    <2> QED  BY <2>1, <2>2 DEF Control
<1>3. TypeOK'
    BY <1>0, <1>1, <1>2, SameStreams, SameCounts, TypePartsNext
<1>4. CASE shell' = "killed"
    <2>1. shell = "running"
        BY DEF Interrupt
    <2> QED  BY <1>1, <1>3, <1>4, <2>1, ShellEnds
<1>5. CASE shell' = "running"
    <2>1. UNCHANGED <<flowVars, writing>>
        BY <1>1, <1>5 DEF Interrupt, flowVars
    <2>2. Conserved' /\ HangUpStable' /\ LeftOK' /\ StatusOK'
        BY <2>1, SameFlow
    <2> QED  BY <1>3, <2>1, <2>2 DEF RelayInv, ShellOK, flowVars
<1> QED  BY <1>4, <1>5 DEF Interrupt

-----------------------------------------------------------------------------
(* Steps of the relay between the batches.                                 *)

LEMMA PollStep ==
    ASSUME RelayInv, Poll
    PROVE  RelayInv'
<1>0. Streams /\ Counts /\ Control
    BY TypeParts DEF RelayInv
<1>1. UNCHANGED <<keys, typed, toShell, fromShell, pass_shell, shell, writing, produced, buf,
                  status, left, shown>>
    BY DEF Poll, keyboard, shellVars
<1>2. Control'
    <2>1. revents' \in [{FROM_KEYBOARD, FROM_SHELL} -> SUBSET {"POLLIN", "POLLHUP"}]
        BY DEF Poll, Bits
    <2>2. Inside'
        BY <1>0, <2>1 DEF Control, Inside, Poll
    <2>3. Outside'
        BY <1>0 DEF Control, Outside, Poll, keyboard, shellVars
    <2> QED  BY <2>2, <2>3 DEF Control
<1>3. TypeOK'
    BY <1>0, <1>1, <1>2, SameStreams, SameCounts, TypePartsNext
<1>4. ShellOK'
    BY <1>1 DEF RelayInv, ShellOK, Poll, FROM_KEYBOARD, FROM_SHELL
<1>5. Conserved'
    <2>1. Held = 0 /\ Held' = 0
        BY DEF Poll, Held
    <2> QED  BY <1>1, <2>1 DEF RelayInv, Conserved, Poll
<1>6. HangUpStable'
    <2>1. revents'[FROM_SHELL] = Bits(FROM_SHELL)
        BY DEF Poll
    <2>2. "POLLHUP" \in Bits(FROM_SHELL) =>
              ShellDead /\ ("POLLIN" \notin Bits(FROM_SHELL) => fromShell = <<>>)
        BY DEF Bits, Stream, FROM_KEYBOARD, FROM_SHELL
    <2> QED  BY <1>1, <2>1, <2>2 DEF HangUpStable, ShellDead
<1>7. LeftOK'
    BY <1>1 DEF RelayInv, Conserved, LeftOK, Poll
<1>8. StatusOK'
    BY <1>1 DEF RelayInv, StatusOK, ShellReaped, Poll
<1> QED  BY <1>3, <1>4, <1>5, <1>6, <1>7, <1>8 DEF RelayInv

(* The next round, when nothing of the last batch is held.                 *)
LEMMA NextRound ==
    ASSUME RelayInv, NextSource, tpc \in {"source", "byte"}, Held = 0,
           UNCHANGED <<pass_shell, keyboard, toShell, fromShell, pipes_open, shellVars,
                       sigint, revents, buf, status, left, shown>>
    PROVE  RelayInv'
<1>0. Streams /\ Counts /\ Control
    BY TypeParts DEF RelayInv
<1>1. UNCHANGED <<keys, typed, kbd_open, shell, writing, produced>>
    BY DEF keyboard, shellVars
<1>2. tpc' \in {"poll", "source"} /\ n' \in {n, FROM_SHELL}
    BY DEF NextSource
<1>3. n' = FROM_SHELL => pass_shell
    BY DEF NextSource, RelayInv, ShellOK
<1>4. Control'
    <2>1. n' \in {FROM_KEYBOARD, FROM_SHELL}
        BY <1>0, <1>2 DEF Control, Inside
    <2>2. UNCHANGED <<pipes_open, sigint, revents, status, left, pass_shell>>
        OBVIOUS
    <2>3. Inside'
        BY <1>0, <1>2, <2>1, <2>2 DEF Control, Inside
    <2>4. Outside'
        BY <1>0, <1>1, <2>2 DEF Control, Outside
    <2> QED  BY <2>3, <2>4 DEF Control
<1>5. TypeOK'
    BY <1>0, <1>1, <1>4, SameStreams, SameCounts, TypePartsNext
<1>6. ShellOK'
    BY <1>1, <1>3 DEF RelayInv, ShellOK
<1>7. Conserved'
    <2>1. Held' = 0
        BY <1>2 DEF Held
    <2> QED  BY <1>1, <2>1 DEF RelayInv, Conserved
<1>8. HangUpStable'
    BY <1>1 DEF RelayInv, HangUpStable, ShellDead
<1>9. LeftOK'
    BY DEF RelayInv, Conserved, LeftOK
<1>10. StatusOK'
    BY <1>1, <1>2 DEF RelayInv, StatusOK, ShellReaped
<1> QED  BY <1>5, <1>6, <1>7, <1>8, <1>9, <1>10 DEF RelayInv

LEMMA QuietStep ==
    ASSUME RelayInv, Quiet
    PROVE  RelayInv'
<1>1. Held = 0
    BY DEF Quiet, Held
<1> QED  BY <1>1, NextRound DEF Quiet

LEMMA BatchDoneStep ==
    ASSUME RelayInv, BatchDone
    PROVE  RelayInv'
<1>1. Held = 0
    BY EmptySeq DEF BatchDone, Held
<1> QED  BY <1>1, NextRound DEF BatchDone

(* With nothing held and nothing in the pipe all is shown.                 *)
LEMMA AllShown ==
    ASSUME NEW s \in Nat, NEW p, p = s + 0 + 0
    PROVE  s = p
OBVIOUS

(* The hang-up of the shell: its pipe is empty, so that everything it      *)
(* wrote has been displayed.                                               *)
LEMMA HangUpStep ==
    ASSUME RelayInv, HangUp
    PROVE  RelayInv'
<1>0. Streams /\ Counts /\ Control
    BY TypeParts DEF RelayInv
<1>1. UNCHANGED <<keys, typed, toShell, fromShell, pass_shell, shell, writing, produced, n,
                  buf, status, shown>>
    BY DEF HangUp, ShellStatus, keyboard, shellVars
<1>2. tpc = "source" /\ tpc' = "wait" /\ left' = "hangup"
    BY DEF HangUp, ShellStatus
<1>3. Control'
    <2>1. Outside'
        BY <1>0 DEF Control, Outside, HangUp, ShellStatus, keyboard, shellVars
    <2>2. Inside'
        BY <1>0 DEF Control, Inside, HangUp, ShellStatus, keyboard, shellVars
    <2> QED  BY <2>1, <2>2 DEF Control
<1>4. TypeOK'
    BY <1>0, <1>1, <1>3, SameStreams, SameCounts, TypePartsNext
<1>5. ShellOK' /\ Conserved' /\ HangUpStable'
    BY <1>1, <1>2 DEF RelayInv, ShellOK, Conserved, HangUpStable
<1>6. LeftOK'
    <2>1. n = FROM_SHELL => ShellDead /\ fromShell = <<>>
        BY DEF HangUp, RelayInv, HangUpStable
    <2>2. produced = shown + Len(fromShell) + Held
        BY <1>2 DEF RelayInv, Conserved
    <2>3. Held = 0
        BY <1>2 DEF Held
    <2>4. n = FROM_SHELL => shown = produced
        BY <1>0, <2>1, <2>2, <2>3, EmptySeq, AllShown DEF Counts
    <2> QED  BY <1>1, <2>1, <2>4 DEF LeftOK, ShellDead
<1>7. StatusOK'
    BY <1>1, <1>2 DEF RelayInv, StatusOK, ShellReaped
<1> QED  BY <1>4, <1>5, <1>6, <1>7 DEF RelayInv

-----------------------------------------------------------------------------
(* The batches.                                                            *)

(* A batch moves from the pipe to the buffer, the account stays the same.  *)
LEMMA Moved ==
    ASSUME NEW s \in Nat, NEW l \in Nat, NEW x \in Nat, NEW y \in Nat, x + y = l,
           NEW p, p = s + l + 0
    PROVE  p = s + y + x
OBVIOUS

LEMMA ReadStep ==
    ASSUME RelayInv, Read
    PROVE  RelayInv'
<1>0. Streams /\ Counts /\ Control
    BY TypeParts DEF RelayInv
<1>1. UNCHANGED <<typed, toShell, pass_shell, shell, writing, produced, n, revents, status,
                  left, shown>>
    BY DEF Read, shellVars
<1>2. tpc = "source" /\ tpc' = "byte"
    BY DEF Read
<1>3. /\ buf' = Batch(Stream(n))
      /\ \/ n = FROM_KEYBOARD /\ keys' = Rest(keys) /\ UNCHANGED fromShell
         \/ n = FROM_SHELL /\ fromShell' = Rest(fromShell) /\ UNCHANGED keys
    BY DEF Read, Batch, Rest, Stream, FROM_KEYBOARD, FROM_SHELL
<1>4. Stream(n) \in Seq(Byte)
    BY <1>0, SeqMonotonic, ShellAssumption DEF Stream, Streams
<1>5. buf' \in Seq(Byte) /\ Len(buf') <= BUFSIZE
    BY <1>3, <1>4, Cut
<1>6. keys' \in Seq(Byte)
    BY <1>0, <1>3, Cut DEF Streams
<1>7. fromShell' \in Seq(ShellBytes) /\ Len(fromShell') <= PIPE_SIZE
    <2>1. CASE fromShell' = fromShell
        BY <1>0, <2>1 DEF Streams
    <2>2. CASE fromShell' = Rest(fromShell)
        <3>1. /\ fromShell' \in Seq(ShellBytes) /\ Len(fromShell') \in Nat
              /\ Len(fromShell') <= Len(fromShell) /\ Len(fromShell) \in Nat
            BY <1>0, <2>2, Cut, LenProperties DEF Streams
        <3>2. Len(fromShell) <= PIPE_SIZE
            BY <1>0 DEF Streams
        <3> QED  BY <3>1, <3>2, SizeAssumption
    <2> QED  BY <1>3, <2>1, <2>2
<1>8. Streams'
    BY <1>0, <1>1, <1>5, <1>6, <1>7 DEF Streams
<1>9. Control'
    <2>1. Outside'
        BY <1>0 DEF Control, Outside, Read, shellVars
    <2>2. Inside'
        BY <1>0 DEF Control, Inside, Read, shellVars
    <2> QED  BY <2>1, <2>2 DEF Control
<1>10. TypeOK'
    BY <1>0, <1>1, <1>8, <1>9, SameCounts, TypePartsNext
<1>11. ShellOK'
    BY <1>1 DEF RelayInv, ShellOK
<1>12. Conserved'
    <2>1. produced = shown + Len(fromShell) + 0
        BY <1>2 DEF RelayInv, Conserved, Held
    <2>2. CASE n = FROM_KEYBOARD
        <3>1. Held' = 0 /\ fromShell' = fromShell
            BY <1>1, <1>3, <2>2 DEF Held, FROM_KEYBOARD, FROM_SHELL
        <3>2. produced' = shown' + Len(fromShell') + Held'
            BY <1>1, <2>1, <3>1
        <3> QED  BY <1>1, <1>2, <3>2 DEF RelayInv, Conserved
    <2>3. CASE n = FROM_SHELL
        <3>1. /\ fromShell' = Rest(fromShell) /\ buf' = Batch(fromShell)
              /\ Held' = Len(Batch(fromShell))
            BY <1>1, <1>2, <1>3, <2>3 DEF Held, Stream, FROM_KEYBOARD, FROM_SHELL
        <3>2. /\ Len(Batch(fromShell)) \in Nat /\ Len(Rest(fromShell)) \in Nat
              /\ Len(Batch(fromShell)) + Len(Rest(fromShell)) = Len(fromShell)
              /\ Len(fromShell) \in Nat
            BY <1>0, Cut, LenProperties DEF Streams
        <3>3. shown \in Nat
            BY <1>0 DEF Counts
        <3>4. produced = shown + Len(Rest(fromShell)) + Len(Batch(fromShell))
            BY <2>1, <3>2, <3>3, Moved
        <3>5. produced' = shown' + Len(fromShell') + Held'
            BY <1>1, <3>1, <3>4
        <3> QED  BY <1>1, <1>2, <3>5 DEF RelayInv, Conserved
    <2> QED  BY <1>3, <2>2, <2>3
<1>13. HangUpStable'
    <2>1. n = FROM_SHELL => "POLLIN" \in revents[FROM_SHELL]
        BY DEF Read
    <2> QED  BY <1>1, <1>2, <1>3, <2>1 DEF RelayInv, HangUpStable, ShellDead
<1>14. LeftOK' /\ StatusOK'
    BY <1>1, <1>2 DEF RelayInv, Conserved, LeftOK, StatusOK, ShellReaped
<1> QED  BY <1>10, <1>11, <1>12, <1>13, <1>14 DEF RelayInv

-----------------------------------------------------------------------------
(* The bytes of a batch.                                                   *)

(* A byte is displayed, the account stays the same.                        *)
LEMMA Displayed ==
    ASSUME NEW s \in Nat, NEW l \in Nat, NEW b \in Nat \ {0}, NEW p, p = s + l + b
    PROVE  p = (s + 1) + l + (b - 1) /\ s + 1 \in 0 .. p
OBVIOUS

LEMMA TakeStep ==
    ASSUME RelayInv, NEW c, Take(c),
           UNCHANGED <<pass_shell, keys, typed, fromShell, shell, writing, produced, n,
                       revents>>
    PROVE  /\ buf' \in Seq(Byte) /\ Len(buf') <= BUFSIZE
           /\ Counts'
           /\ UNCHANGED <<tpc, left>> => Conserved'
<1>0. Streams /\ Counts /\ Control
    BY TypeParts DEF RelayInv
<1>1. /\ buf' \in Seq(Byte) /\ Len(buf) \in Nat \ {0} /\ Len(buf') = Len(buf) - 1
    BY <1>0, Shorter DEF Take, Streams
<1>2. Len(buf) <= BUFSIZE
    BY <1>0 DEF Streams
<1>3. Len(buf') <= BUFSIZE
    BY <1>1, <1>2, SizeAssumption
<1>4. tpc = "byte"
    BY DEF Take
<1>5. left = "no" /\ produced = shown + Len(fromShell) + Held
    BY <1>4 DEF RelayInv, Conserved
<1>6. Len(fromShell) \in Nat /\ shown \in Nat /\ produced \in Nat
    BY <1>0, LenProperties, SizeAssumption DEF Streams, Counts
<1>7. CASE n = FROM_KEYBOARD
    <2>1. shown' = shown
        BY <1>7 DEF Take, FROM_KEYBOARD, FROM_SHELL
    <2>2. Counts'
        BY <1>0, <2>1, SameCounts
    <2>3. Held = 0 /\ Held' = 0
        BY <1>7 DEF Held, FROM_KEYBOARD, FROM_SHELL
    <2>4. produced' = shown' + Len(fromShell') + Held'
        BY <1>5, <2>1, <2>3
    <2> QED  BY <1>1, <1>3, <2>2, <2>4 DEF RelayInv, Conserved
<1>8. CASE n = FROM_SHELL
    <2>1. shown' = shown + 1
        BY <1>8 DEF Take
    <2>2. Held = Len(buf)
        BY <1>4, <1>8 DEF Held
    <2>3. produced = (shown + 1) + Len(fromShell) + (Len(buf) - 1) /\ shown + 1 \in 0 .. produced
        BY <1>1, <1>5, <1>6, <2>2, Displayed
    <2>4. Counts'
        BY <1>0, <2>1, <2>3 DEF Counts
    <2>5. UNCHANGED tpc => Held' = Len(buf) - 1
        BY <1>1, <1>4, <1>8 DEF Held
    <2>6. UNCHANGED tpc => produced' = shown' + Len(fromShell') + Held'
        BY <2>1, <2>3, <2>5
    <2> QED  BY <1>1, <1>3, <2>4, <2>6 DEF RelayInv, Conserved
<1> QED  BY <1>0, <1>7, <1>8 DEF Control, Inside

(* A byte after which the loop goes on.                                    *)
LEMMA StayStep ==
    ASSUME RelayInv, NEW c, Take(c), Control',
           toShell' \in Seq({"plain"}), Len(toShell') <= PIPE_SIZE,
           UNCHANGED <<pass_shell, keys, typed, fromShell, shell, writing, produced, n,
                       revents, tpc, status, left>>
    PROVE  RelayInv'
<1>0. Streams
    BY TypeParts DEF RelayInv
<1>1. buf' \in Seq(Byte) /\ Len(buf') <= BUFSIZE /\ Counts' /\ Conserved'
    BY TakeStep
<1>2. Streams'
    BY <1>0, <1>1 DEF Streams
<1>3. TypeOK'
    BY <1>1, <1>2, TypePartsNext
<1>4. tpc = "byte" /\ left = "no"
    BY DEF Take, RelayInv, Conserved
<1>5. ShellOK' /\ HangUpStable' /\ LeftOK' /\ StatusOK'
    BY <1>4 DEF RelayInv, ShellOK, HangUpStable, ShellDead, LeftOK, StatusOK, ShellReaped
<1> QED  BY <1>1, <1>3, <1>5 DEF RelayInv

(* A byte with which the loop ends.                                        *)
LEMMA LeaveStep ==
    ASSUME RelayInv, NEW c, Take(c), Control', left' \in {"key", "pipe"},
           \/ tpc' = "wait" /\ UNCHANGED status
           \/ tpc' = "ended" /\ status' = "exit 0" /\ ~pass_shell,
           UNCHANGED <<pass_shell, keys, typed, toShell, fromShell, shell, writing, produced,
                       n, revents>>
    PROVE  RelayInv'
<1>0. Streams
    BY TypeParts DEF RelayInv
<1>1. buf' \in Seq(Byte) /\ Len(buf') <= BUFSIZE /\ Counts'
    BY TakeStep
<1>2. Streams'
    BY <1>0, <1>1 DEF Streams
<1>3. TypeOK'
    BY <1>1, <1>2, TypePartsNext
<1>4. tpc = "byte" /\ status = "running"
    BY DEF Take, RelayInv, StatusOK
<1>5. ShellOK' /\ Conserved' /\ HangUpStable' /\ LeftOK'
    BY DEF RelayInv, ShellOK, Conserved, HangUpStable, LeftOK
<1>6. StatusOK'
    BY <1>4 DEF StatusOK, ShellReaped
<1> QED  BY <1>3, <1>5, <1>6 DEF RelayInv

LEMMA PassOnStep ==
    ASSUME RelayInv, PassOn
    PROVE  RelayInv'
<1>0. Streams /\ Counts /\ Control
    BY TypeParts DEF RelayInv
<1>1. Take("plain")
    BY DEF PassOn
<1>2. CASE UNCHANGED <<pass_shell, keyboard, toShell, fromShell, pipes_open, shellVars,
                       sigint, tpc, n, revents, status, left>>
    <2>1. UNCHANGED <<keys, typed, kbd_open, shell, writing, produced>>
        BY <1>2 DEF keyboard, shellVars
    <2>2. Control'
        <3>1. sigint' \in BOOLEAN
            BY <1>0, <1>2 DEF Control, Outside
        <3> QED  BY <1>0, <1>2, <2>1, <3>1, SameControl
    <2>3. toShell' \in Seq({"plain"}) /\ Len(toShell') <= PIPE_SIZE
        BY <1>0, <1>2 DEF Streams
    <2> QED  BY <1>1, <1>2, <2>1, <2>2, <2>3, StayStep
<1>3. CASE /\ Len(toShell) < PIPE_SIZE
           /\ toShell' = Append(toShell, "plain")
           /\ UNCHANGED <<pass_shell, keyboard, fromShell, pipes_open, shellVars,
                          sigint, tpc, n, revents, status, left>>
    <2>1. UNCHANGED <<keys, typed, kbd_open, shell, writing, produced>>
        BY <1>3 DEF keyboard, shellVars
    <2>2. Control'
        <3>1. sigint' \in BOOLEAN
            BY <1>0, <1>3 DEF Control, Outside
        <3> QED  BY <1>0, <1>3, <2>1, <3>1, SameControl
    <2>longer. /\ toShell' \in Seq({"plain"}) /\ Len(toShell) \in Nat
          /\ Len(toShell') = Len(toShell) + 1
        BY <1>0, <1>3, AppendProperties, LenProperties DEF Streams
    <2>4. Len(toShell') <= PIPE_SIZE
        BY <1>3, <2>longer, SizeAssumption
    <2> QED  BY <1>1, <1>3, <2>1, <2>2, <2>longer, <2>4, StayStep
<1>4. CASE ShellStatus("pipe")
    <2>1. /\ left' = "pipe" /\ tpc' = "wait"
          /\ UNCHANGED <<status, pass_shell, keys, typed, toShell, fromShell, shell, writing,
                         produced, n, revents>>
        BY <1>4 DEF ShellStatus, keyboard, shellVars
    <2>2. Control'
        <3>1. Outside'
            BY <1>0, <1>4 DEF Control, Outside, ShellStatus, keyboard, shellVars
        <3>2. Inside'
            BY <1>0, <1>4 DEF Control, Inside, ShellStatus, keyboard, shellVars
        <3> QED  BY <3>1, <3>2 DEF Control
    <2> QED  BY <1>1, <2>1, <2>2, LeaveStep
<1> QED  BY <1>2, <1>3, <1>4 DEF PassOn

LEMMA DelStep ==
    ASSUME RelayInv, Del
    PROVE  RelayInv'
<1>0. Streams /\ Counts /\ Control
    BY TypeParts DEF RelayInv
<1>1. UNCHANGED <<keys, typed, kbd_open, shell, writing, produced, toShell, pass_shell,
                  fromShell, pipes_open, n, revents, tpc, status, left>>
    BY DEF Del, keyboard, shellVars
<1>2. Control'
    <2>1. sigint' \in BOOLEAN
        BY <1>0 DEF Control, Outside, Del
    <2> QED  BY <1>0, <1>1, <2>1, SameControl
<1>3. toShell' \in Seq({"plain"}) /\ Len(toShell') <= PIPE_SIZE
    BY <1>0, <1>1 DEF Streams
<1>4. Take("del")
    BY DEF Del
<1> QED  BY <1>1, <1>2, <1>3, <1>4, StayStep

LEMMA CtrlCStep ==
    ASSUME RelayInv, CtrlC
    PROVE  RelayInv'
<1>0. Streams /\ Counts /\ Control
    BY TypeParts DEF RelayInv
<1>1. UNCHANGED <<keys, typed, kbd_open, shell, writing, produced, toShell, pass_shell,
                  fromShell, pipes_open, n, revents, tpc, status, left>>
    BY DEF CtrlC, keyboard, shellVars
<1>2. Control'
    <2>1. sigint' \in BOOLEAN
        BY <1>0 DEF Control, Outside, CtrlC
    <2> QED  BY <1>0, <1>1, <2>1, SameControl
<1>3. toShell' \in Seq({"plain"}) /\ Len(toShell') <= PIPE_SIZE
    BY <1>0, <1>1 DEF Streams
<1>4. Take("ctrlC")
    BY DEF CtrlC
<1> QED  BY <1>1, <1>2, <1>3, <1>4, StayStep

LEMMA CtrlDStep ==
    ASSUME RelayInv, CtrlD
    PROVE  RelayInv'
<1>0. Streams /\ Counts /\ Control
    BY TypeParts DEF RelayInv
<1>1. Take("ctrlD")
    BY DEF CtrlD
<1>2. /\ UNCHANGED <<keys, typed, kbd_open, shell, writing, produced, toShell, pass_shell,
                     fromShell, n, revents, sigint>>
      /\ left' = "key"
      /\ pipes_open' \in {FALSE, pipes_open}
      /\ \/ tpc' = "wait" /\ UNCHANGED status
         \/ tpc' = "ended" /\ status' = "exit 0" /\ ~pass_shell
    BY DEF CtrlD, ShellStatus, keyboard, shellVars
<1>3. Control'
    <2>1. Outside'
        BY <1>0, <1>2 DEF Control, Outside
    <2>2. Inside'
        BY <1>0, <1>2 DEF Control, Inside
    <2> QED  BY <2>1, <2>2 DEF Control
<1> QED  BY <1>1, <1>2, <1>3, LeaveStep

LEMMA WaitStep ==
    ASSUME RelayInv, Wait
    PROVE  RelayInv'
<1>0. Streams /\ Counts /\ Control
    BY TypeParts DEF RelayInv
<1>1. UNCHANGED <<keys, typed, kbd_open, toShell, fromShell, pass_shell, shell, writing,
                  produced, n, revents, buf, left, shown>>
    BY DEF Wait, keyboard, shellVars
<1>2. Control'
    <2>1. Outside'
        BY <1>0, <1>1 DEF Control, Outside, Wait
    <2>2. Inside'
        BY <1>0, <1>1 DEF Control, Inside, Wait
    <2> QED  BY <2>1, <2>2 DEF Control
<1>3. TypeOK'
    BY <1>0, <1>1, <1>2, SameStreams, SameCounts, TypePartsNext
<1>4. tpc' = "ended"
    BY DEF Wait
<1>5. ShellOK' /\ LeftOK'
    BY <1>1 DEF RelayInv, ShellOK, LeftOK, ShellDead
<1>6. Conserved' /\ HangUpStable'
    BY <1>4 DEF Conserved, HangUpStable
<1>7. StatusOK'
    <2>1. pass_shell => shell \in {"exited", "killed"}
        BY <1>0 DEF RelayInv, ShellOK, Control, Outside, Wait
    <2>2. status' = IF shell = "exited" THEN "exit 0" ELSE "exit 1"
        BY DEF Wait
    <2> QED  BY <1>1, <1>4, <2>1, <2>2 DEF StatusOK, ShellReaped
<1> QED  BY <1>3, <1>5, <1>6, <1>7 DEF RelayInv

-----------------------------------------------------------------------------
LEMMA RelayInvInit ==
    ASSUME Init
    PROVE  RelayInv
<1>1. Streams /\ Counts
    BY EmptySeq, SizeAssumption DEF Init, Streams, Counts
<1>2. Control
    BY DEF Init, Control, Outside, Inside
<1>3. TypeOK
    BY <1>1, <1>2, TypeParts
<1>4. ShellOK /\ HangUpStable /\ LeftOK /\ StatusOK
    BY DEF Init, ShellOK, HangUpStable, LeftOK, StatusOK, ShellReaped, FROM_KEYBOARD,
           FROM_SHELL
<1>5. Conserved
    BY EmptySeq DEF Init, Conserved, Held
<1> QED  BY <1>3, <1>4, <1>5 DEF RelayInv

LEMMA RelayInvNext ==
    ASSUME RelayInv, [Next]_vars
    PROVE  RelayInv'
<1>1. CASE Relay
    BY <1>1, PollStep, ReadStep, QuietStep, HangUpStep, BatchDoneStep, PassOnStep, DelStep,
       CtrlCStep, CtrlDStep, WaitStep DEF Relay
<1>2. CASE ShellStep \/ ShellExit
    BY <1>2, ShellReadStep, ShellWriteStep, ShellExitStep, InterruptStep
    DEF ShellStep, ShellEof
<1>3. CASE ShellStartsWriting
    BY <1>3, ShellStartsWritingStep
<1>4. CASE User
    BY <1>4, UserStep
<1>5. CASE UNCHANGED vars
    <2>0. Streams /\ Counts /\ Control
        BY TypeParts DEF RelayInv
    <2>1. UNCHANGED <<flowVars, keys, typed, kbd_open, toShell, pipes_open, sigint, writing>>
        BY <1>5 DEF vars, keyboard, shellVars, flowVars
    <2>2. Control'
        BY <2>0, <2>1, SameControl DEF flowVars, Control, Outside
    <2>3. TypeOK'
        BY <2>0, <2>1, <2>2, SameStreams, SameCounts, TypePartsNext DEF flowVars
    <2>4. Conserved' /\ HangUpStable' /\ LeftOK' /\ StatusOK'
        BY <2>1, SameFlow
    <2> QED  BY <2>1, <2>3, <2>4 DEF RelayInv, ShellOK, flowVars
<1> QED  BY <1>1, <1>2, <1>3, <1>4, <1>5 DEF Next

LEMMA RelayInvariant == Spec => []RelayInv
BY RelayInvInit, RelayInvNext, PTL DEF Spec

(* For any size of buffer and pipes and any number of bytes: every         *)
(* variable of the relay keeps its type; in particular a batch never       *)
(* overruns the buffer and no more is displayed than was written.          *)
THEOREM RelayTypeCorrect == Spec => []TypeOK
<1>1. RelayInv => TypeOK
    BY DEF RelayInv
<1> QED  BY <1>1, RelayInvariant, PTL

(* When the relay leaves at the hang-up of the shell, everything that the  *)
(* shell ever wrote has been displayed.                                    *)
THEOREM OutputShown == Spec => []NoOutputLost
<1>1. RelayInv => NoOutputLost
    BY DEF RelayInv, LeftOK, NoOutputLost
<1> QED  BY <1>1, RelayInvariant, PTL

(* The relay leaves no shell behind, and its exit status tells how the     *)
(* shell ended.                                                            *)
THEOREM ShellAlwaysReaped == Spec => []ShellReaped
<1>1. RelayInv => ShellReaped
    BY DEF RelayInv, StatusOK
<1> QED  BY <1>1, RelayInvariant, PTL

=============================================================================
