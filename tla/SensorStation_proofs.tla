----------------------- MODULE SensorStation_proofs -----------------------
(***************************************************************************)
(* Theorems about the station of projects 4b and 4c: its types, among them *)
(* the bounds of its two buffers and the account of the bytes sent, and    *)
(* that its orders do not depend on how the input is cut into reads.       *)
(***************************************************************************)
EXTENDS SensorStation, SequenceTheorems, TLAPS

(* Every byte sent is handled, in the batch, held by SSL, or in a record   *)
(* not yet received; the records end at increasing positions.              *)
Accounted ==
    /\ inq = <<>> => Received = sent
    /\ inq # <<>> => Received < inq[1] /\ inq[Len(inq)] = sent
    /\ \A i, j \in 1 .. Len(inq) : i < j => inq[i] < inq[j]
    /\ ~is_secure => pending = 0 /\ Len(inq) <= 1

(* Between the batches nothing is left of a batch.                         *)
BatchOK ==
    /\ pc \notin {"store", "ended"} => num_chars = 0
    /\ (pc = "ended") <=> (status # "running")

(* The line of the stream fits the buffer as long as none has filled it,   *)
(* so that the buffer is never dropped.                                    *)
OrdersOK ==
    status = "running" /\ ~understood.full =>
        /\ line_buf = understood.line
        /\ generate_reports = understood.on
        /\ Len(line_buf) < BUFSIZE

StationInv == TypeOK /\ Accounted /\ BatchOK /\ OrdersOK

-----------------------------------------------------------------------------
(* The types, in parts: the bytes on their way, the lines, the settings    *)
(* and the control state.                                                  *)

Stream == [line : Seq(Word), on : BOOLEAN, full : BOOLEAN]

Traffic ==
    /\ sent \in 0 .. MaxBytes /\ done \in 0 .. sent
    /\ inq \in Seq(1 .. MaxBytes)
    /\ pending \in 0 .. MaxBytes
    /\ num_chars \in 0 .. BUFSIZE

Lines ==
    /\ understood \in Stream
    /\ line_buf \in Seq(Word) /\ Len(line_buf) <= BUFSIZE

Settings ==
    /\ program \in Programs
    /\ generate_reports \in BOOLEAN /\ interrupt \in BOOLEAN
    /\ period \in {"some", "zero", "never"}
    /\ elapsed \in BOOLEAN

Running ==
    /\ link \in {"open", "fin", "rst", "written", "broken"}
    /\ reported \in {"nothing", "temperature", "SHUTDOWN"}
    /\ pc \in {"first", "poll", "store", "button", "period", "ended"}
    /\ status \in {"running", "exit 0", "exit 1", "exit 2", "SIGPIPE", "undefined"}

LEMMA TypeParts == TypeOK <=> Traffic /\ Lines /\ Settings /\ Running
BY DEF TypeOK, Traffic, Lines, Settings, Running, Stream

LEMMA TypePartsNext ==
    ASSUME Traffic', Lines', Settings', Running'
    PROVE  TypeOK'
BY DEF TypeOK, Traffic, Lines, Settings, Running, Stream

-----------------------------------------------------------------------------
(* Steps that leave a part alone.                                          *)

LEMMA SameTraffic ==
    ASSUME Traffic, Accounted, UNCHANGED <<program, sent, done, inq, pending, num_chars>>
    PROVE  Traffic' /\ Accounted'
<1>1. Traffic'
    BY DEF Traffic
<1>2. Accounted'
    BY DEF Accounted, Received, is_secure
<1> QED  BY <1>1, <1>2

LEMMA SameLines ==
    ASSUME Lines, UNCHANGED <<understood, line_buf>>
    PROVE  Lines'
BY DEF Lines

LEMMA SameSettings ==
    ASSUME Settings, UNCHANGED <<program, settings, elapsed>>
    PROVE  Settings'
BY DEF Settings, settings

LEMMA SameOrders ==
    ASSUME OrdersOK, UNCHANGED <<understood, line_buf, generate_reports>>,
           status # "running" => status' # "running"
    PROVE  OrdersOK'
BY DEF OrdersOK

(* A step of the host or of the clock: it is not the station's.            *)
LEMMA OutsideStep ==
    ASSUME StationInv, Traffic', Accounted', Settings',
           link' \in {"open", "fin", "rst", "written", "broken"},
           UNCHANGED <<num_chars, understood, line_buf, generate_reports, reported, pc, status>>
    PROVE  StationInv'
<1>0. Traffic /\ Lines /\ Settings /\ Running
    BY TypeParts DEF StationInv
<1>1. Lines' /\ OrdersOK'
    BY <1>0, SameLines, SameOrders DEF StationInv
<1>2. Running'
    BY <1>0 DEF Running
<1>3. TypeOK'
    BY <1>1, <1>2, TypePartsNext
<1>4. BatchOK'
    BY DEF StationInv, BatchOK
<1> QED  BY <1>1, <1>3, <1>4 DEF StationInv

-----------------------------------------------------------------------------
(* The account of the bytes.                                               *)

(* No record ends beyond the bytes sent.                                   *)
LEMMA WithinSent ==
    ASSUME Traffic, Accounted
    PROVE  /\ Received \in Nat /\ Received <= sent
           /\ \A i \in 1 .. Len(inq) : inq[i] \in Nat /\ inq[i] <= sent
           /\ Len(inq) \in Nat /\ (inq # <<>> => Len(inq) >= 1)
<1>1. Received \in Nat
    BY SizeAssumption, BoundAssumption DEF Traffic, Received
<1>2. sent \in Nat /\ Len(inq) \in Nat /\ (inq # <<>> => Len(inq) >= 1)
    BY EmptySeq, LenProperties, BoundAssumption DEF Traffic
<1>3. \A i \in 1 .. Len(inq) : inq[i] \in Nat
    BY ElementOfSeq, BoundAssumption DEF Traffic
<1>4. ASSUME NEW i \in 1 .. Len(inq)
      PROVE  inq[i] <= sent
    <2>1. inq # <<>>
        BY <1>2, EmptySeq
    <2>2. inq[Len(inq)] = sent
        BY <2>1 DEF Accounted
    <2>where. i = Len(inq) \/ i < Len(inq)
        BY <1>2
    <2>4. Len(inq) \in 1 .. Len(inq)
        BY <1>2, <2>1
    <2>5. i < Len(inq) => inq[i] < inq[Len(inq)]
        BY <2>4 DEF Accounted
    <2> QED  BY <1>2, <1>3, <2>2, <2>where, <2>4, <2>5
<1>5. Received <= sent
    <2>1. CASE inq = <<>>
        BY <1>1, <1>2, <2>1 DEF Accounted
    <2>2. CASE inq # <<>>
        <3>1. 1 \in 1 .. Len(inq)
            BY <1>2, <2>2
        <3>2. Received < inq[1]
            BY <2>2 DEF Accounted
        <3> QED  BY <1>1, <1>2, <1>3, <1>4, <3>1, <3>2
    <2> QED  BY <2>1, <2>2
<1> QED  BY <1>1, <1>2, <1>3, <1>4, <1>5

LEMMA SendStep ==
    ASSUME StationInv, Send
    PROVE  StationInv'
<1>0. Traffic /\ Lines /\ Settings /\ Running /\ Accounted
    BY TypeParts DEF StationInv
<1>1. PICK k \in 1 .. (IF is_secure THEN MaxRecord ELSE 1) :
          /\ sent + k <= MaxBytes
          /\ sent' = sent + k
          /\ inq' = IF is_secure \/ inq = <<>> THEN Append(inq, sent + k) ELSE <<sent + k>>
    BY DEF Send
<1>2. k \in Nat \ {0} /\ sent \in Nat
    BY <1>0, BoundAssumption DEF Traffic
<1>3. UNCHANGED <<program, done, pending, num_chars, understood, line_buf, generate_reports,
                  interrupt, period, elapsed, link, reported, pc, status>>
    BY DEF Send, reading, settings, ending
<1>4. sent + k \in 1 .. MaxBytes
    BY <1>1, <1>2, BoundAssumption
<1>5. Received' = Received /\ Received \in Nat /\ Received <= sent
    BY <1>0, <1>3, WithinSent DEF Received
<1>6. ASSUME is_secure \/ inq = <<>>
      PROVE  inq' \in Seq(1 .. MaxBytes) /\ Accounted'
    <2>1. inq' = Append(inq, sent + k)
        BY <1>1, <1>6
    <2>2. /\ inq' \in Seq(1 .. MaxBytes) /\ inq' # <<>>
          /\ Len(inq) \in Nat /\ Len(inq') = Len(inq) + 1
          /\ \A i \in 1 .. Len(inq) : inq'[i] = inq[i]
          /\ inq'[Len(inq) + 1] = sent + k
        BY <1>0, <1>4, <2>1, AppendProperties, LenProperties DEF Traffic
    <2>3. \A i \in 1 .. Len(inq) : inq'[i] < sent + k
        BY <1>0, <1>2, <2>2, WithinSent
    <2>4. \A i, j \in 1 .. Len(inq') : i < j => inq'[i] < inq'[j]
        <3> SUFFICES ASSUME NEW i \in 1 .. Len(inq'), NEW j \in 1 .. Len(inq'), i < j
                     PROVE  inq'[i] < inq'[j]
            OBVIOUS
        <3>1. i \in 1 .. Len(inq)
            BY <2>2
        <3>2. CASE j = Len(inq) + 1
            BY <2>2, <2>3, <3>1, <3>2
        <3>3. CASE j # Len(inq) + 1
            <4>1. j \in 1 .. Len(inq)
                BY <2>2, <3>3
            <4> QED  BY <1>0, <2>2, <3>1, <4>1 DEF Accounted
        <3> QED  BY <3>2, <3>3
    <2>5. Received' < inq'[1]
        <3>1. CASE inq = <<>>
            <4>1. inq'[1] = sent + k
                BY <2>2, <3>1, EmptySeq
            <4> QED  BY <1>2, <1>5, <4>1
        <3>2. CASE inq # <<>>
            <4>1. 1 \in 1 .. Len(inq)
                BY <1>0, <3>2, WithinSent
            <4> QED  BY <1>0, <1>5, <2>2, <3>2, <4>1 DEF Accounted
        <3> QED  BY <3>1, <3>2
    <2>6. ~is_secure => Len(inq') <= 1
        BY <1>6, <2>2, EmptySeq
    <2>7. inq'[Len(inq')] = sent'
        BY <1>1, <2>2
    <2>8. ~is_secure' => pending' = 0 /\ Len(inq') <= 1
        BY <1>0, <1>3, <2>6 DEF Accounted, is_secure
    <2>9. Accounted'
        BY <2>2, <2>4, <2>5, <2>7, <2>8 DEF Accounted
    <2> QED  BY <2>2, <2>9
<1>7. ASSUME ~is_secure /\ inq # <<>>
      PROVE  inq' \in Seq(1 .. MaxBytes) /\ Accounted'
    <2>1. inq' = <<sent + k>>
        BY <1>1, <1>7
    <2>2. inq' \in Seq(1 .. MaxBytes) /\ Len(inq') = 1 /\ inq'[1] = sent + k /\ inq' # <<>>
        BY <1>4, <2>1
    <2>first. Received' < inq'[1]
        BY <1>2, <1>5, <2>2
    <2>4. inq'[Len(inq')] = sent' /\ pending' = 0
        BY <1>0, <1>1, <1>3, <1>7, <2>2 DEF Accounted
    <2>5. \A i, j \in 1 .. Len(inq') : i < j => inq'[i] < inq'[j]
        BY <2>2
    <2>6. Accounted'
        BY <2>2, <2>first, <2>4, <2>5 DEF Accounted
    <2> QED  BY <2>2, <2>6
<1>8. Traffic'
    <2>1. sent' \in 0 .. MaxBytes /\ done' \in 0 .. sent'
        BY <1>0, <1>1, <1>2, <1>3, <1>4 DEF Traffic
    <2>2. inq' \in Seq(1 .. MaxBytes)
        BY <1>6, <1>7
    <2>3. pending' \in 0 .. MaxBytes /\ num_chars' \in 0 .. BUFSIZE
        BY <1>0, <1>3 DEF Traffic
    <2> QED  BY <2>1, <2>2, <2>3 DEF Traffic
<1>9. Accounted'
    BY <1>6, <1>7
<1>10. link' \in {"open", "fin", "rst", "written", "broken"}
    BY <1>0, <1>3 DEF Running
<1>11. Settings'
    BY <1>0, <1>3 DEF Settings
<1> QED  BY <1>3, <1>8, <1>9, <1>10, <1>11, OutsideStep

LEMMA HostStep ==
    ASSUME StationInv, HostCloses \/ Reset \/ Clock
    PROVE  StationInv'
<1>0. Traffic /\ Lines /\ Settings /\ Running /\ Accounted
    BY TypeParts DEF StationInv
<1>1. UNCHANGED <<program, sent, done, inq, pending, num_chars, understood, line_buf,
                  generate_reports, interrupt, period, reported, pc, status>>
    BY DEF HostCloses, Reset, Clock, input, reading, settings, ending
<1>2. link' \in {"open", "fin", "rst", "written", "broken"}
    BY <1>0 DEF HostCloses, Reset, Clock, ending, Running
<1>3. Settings'
    BY <1>0, <1>1 DEF HostCloses, Reset, Clock, Settings
<1>4. Traffic' /\ Accounted'
    BY <1>0, <1>1, SameTraffic
<1> QED  BY <1>1, <1>2, <1>3, <1>4, OutsideStep

-----------------------------------------------------------------------------
(* One read.                                                               *)

(* A read returns something, and no more than fits the buffer.             *)
LEMMA ReadSize ==
    ASSUME Available \in Nat, Available > 0
    PROVE  /\ Read \in Nat /\ Read >= 1 /\ Read <= BUFSIZE /\ Read <= Available
           /\ Available - Read \in Nat
           /\ Available # Read => Read < Available
BY SizeAssumption DEF Read

(* The bytes of a record move into the batch and to what SSL holds.        *)
LEMMA RecordMoves ==
    ASSUME NEW d \in Nat, NEW e \in Nat, NEW r \in Nat, NEW a \in Nat,
           a = e - (d + 0 + 0), r <= a
    PROVE  /\ d + r + (a - r) = e
           /\ a = r => d + r + 0 = e
           /\ r < a => d + r + 0 < e
OBVIOUS

(* The bytes that SSL holds move into the batch.                           *)
LEMMA HeldMove ==
    ASSUME NEW d \in Nat, NEW r \in Nat, NEW q \in Nat, r <= q
    PROVE  d + r + (q - r) = d + 0 + q
OBVIOUS

LEMMA ExactlyOne ==
    ASSUME NEW l \in Nat, l <= 1, l >= 1
    PROVE  l = 1
OBVIOUS

(* What a record leaves when it is the first to go.                        *)
LEMMA FirstRecordGone ==
    ASSUME Traffic, Accounted, inq # <<>>
    PROVE  /\ Tail(inq) \in Seq(1 .. MaxBytes)
           /\ \A i, j \in 1 .. Len(Tail(inq)) : i < j => Tail(inq)[i] < Tail(inq)[j]
           /\ Tail(inq) = <<>> => inq[1] = sent
           /\ Tail(inq) # <<>> => inq[1] < Tail(inq)[1] /\ Tail(inq)[Len(Tail(inq))] = sent
<1>1. /\ Tail(inq) \in Seq(1 .. MaxBytes)
      /\ Len(Tail(inq)) = Len(inq) - 1
      /\ \A i \in 1 .. Len(Tail(inq)) : Tail(inq)[i] = inq[i + 1]
    BY HeadTailProperties DEF Traffic
<1>2. Len(inq) \in Nat /\ Len(inq) >= 1 /\ Len(Tail(inq)) \in Nat
    BY <1>1, WithinSent, LenProperties
<1>3. inq[Len(inq)] = sent
    BY DEF Accounted
<1>4. Tail(inq) = <<>> => inq[1] = sent
    BY <1>1, <1>2, <1>3, EmptySeq
<1>5. ASSUME NEW i \in 1 .. Len(Tail(inq)), NEW j \in 1 .. Len(Tail(inq)), i < j
      PROVE  Tail(inq)[i] < Tail(inq)[j]
    <2>1. i + 1 \in 1 .. Len(inq) /\ j + 1 \in 1 .. Len(inq) /\ i + 1 < j + 1
        BY <1>1, <1>2, <1>5
    <2>2. inq[i + 1] < inq[j + 1]
        BY <2>1 DEF Accounted
    <2> QED  BY <1>1, <2>2
<1>6. ASSUME Tail(inq) # <<>>
      PROVE  inq[1] < Tail(inq)[1] /\ Tail(inq)[Len(Tail(inq))] = sent
    <2>1. Len(Tail(inq)) >= 1
        BY <1>1, <1>6, EmptySeq
    <2>2. Tail(inq)[1] = inq[2] /\ Tail(inq)[Len(Tail(inq))] = inq[Len(inq)]
        BY <1>1, <1>2, <2>1
    <2>3. 1 \in 1 .. Len(inq) /\ 2 \in 1 .. Len(inq)
        BY <1>1, <1>2, <2>1
    <2>4. inq[1] < inq[2]
        BY <2>3 DEF Accounted
    <2> QED  BY <1>3, <2>2, <2>4
<1> QED  BY <1>1, <1>4, <1>5, <1>6

LEMMA ReadTraffic ==
    ASSUME StationInv, ReadInput
    PROVE  Traffic' /\ Accounted'
<1>0. Traffic /\ Accounted
    BY TypeParts DEF StationInv
<1>1. num_chars = 0
    BY DEF ReadInput, StationInv, BatchOK
<1>2. /\ Available > 0 /\ num_chars' = Read
      /\ is_secure => pending' = Available - Read /\ inq' = IF pending = 0 THEN Tail(inq) ELSE inq
      /\ ~is_secure => /\ inq' = IF Available = Read THEN <<>> ELSE inq
                       /\ pending' = pending
      /\ UNCHANGED <<program, sent, done>>
    BY DEF ReadInput
<1>3. done \in Nat /\ sent \in Nat /\ pending \in Nat /\ done <= sent /\ sent <= MaxBytes
    BY <1>0, BoundAssumption DEF Traffic
<1>4. Received = done + 0 + pending /\ Received' = done + Read + pending'
    BY <1>1, <1>2 DEF Received
<1>5. /\ Received \in Nat /\ Received <= sent
      /\ \A i \in 1 .. Len(inq) : inq[i] \in Nat /\ inq[i] <= sent
      /\ Len(inq) \in Nat /\ (inq # <<>> => Len(inq) >= 1)
    BY <1>0, WithinSent
<1>6. ASSUME inq # <<>>, is_secure => pending = 0
      PROVE  Traffic' /\ Accounted'
    <2>1. pending = 0
        BY <1>0, <1>6 DEF Accounted
    <2>2. 1 \in 1 .. Len(inq) /\ Received < inq[1] /\ inq[1] \in Nat /\ inq[1] <= sent
        BY <1>0, <1>5, <1>6 DEF Accounted
    <2>available. Available = inq[1] - (done + 0 + 0)
        BY <1>4, <1>6, <2>1 DEF Available
    <2>4. Available \in Nat
        BY <1>2, <1>3, <2>2, <2>available
    <2>5. /\ Read \in Nat /\ Read >= 1 /\ Read <= BUFSIZE /\ Read <= Available
          /\ Available - Read \in Nat
          /\ Available # Read => Read < Available
        BY <1>2, <2>4, ReadSize
    <2>6. /\ done + Read + (Available - Read) = inq[1]
          /\ Available = Read => done + Read + 0 = inq[1]
          /\ Read < Available => done + Read + 0 < inq[1]
        BY <1>3, <2>2, <2>available, <2>4, <2>5, RecordMoves
    <2>7. num_chars' \in 0 .. BUFSIZE
        BY <1>2, <2>5, SizeAssumption
    <2>8. CASE is_secure
        <3>1. pending' = Available - Read /\ inq' = Tail(inq) /\ Received' = inq[1]
            BY <1>2, <1>4, <2>1, <2>6, <2>8
        <3>2. pending' \in 0 .. MaxBytes
            BY <1>3, <2>2, <2>available, <2>5, <3>1, BoundAssumption
        <3>3. Traffic'
            BY <1>0, <1>2, <2>7, <3>1, <3>2, <1>6, FirstRecordGone DEF Traffic
        <3>4. Accounted'
            BY <1>0, <1>2, <1>6, <2>8, <3>1, FirstRecordGone DEF Accounted, is_secure
        <3> QED  BY <3>3, <3>4
    <2>9. CASE ~is_secure
        <3>1. pending' = 0 /\ Len(inq) = 1 /\ Len(inq) <= 1 /\ inq[1] = sent
            <4>1. Len(inq) <= 1 /\ inq[Len(inq)] = sent
                BY <1>0, <1>6, <2>9 DEF Accounted
            <4>2. Len(inq) \in Nat /\ Len(inq) >= 1
                BY <1>0, <1>6, WithinSent
            <4>3. Len(inq) = 1
                BY <4>1, <4>2, ExactlyOne
            <4>4. pending' = 0
                BY <1>2, <2>1, <2>9
            <4> QED  BY <4>1, <4>3, <4>4
        <3>2. Received' = done + Read + 0
            BY <1>4, <3>1
        <3>3. inq' = IF Available = Read THEN <<>> ELSE inq
            BY <1>2, <2>9
        <3>4. inq' \in Seq(1 .. MaxBytes) /\ pending' \in 0 .. MaxBytes
            <4>1. inq \in Seq(1 .. MaxBytes) /\ <<>> \in Seq(1 .. MaxBytes)
                BY <1>0, EmptySeq DEF Traffic
            <4>2. pending' \in 0 .. MaxBytes
                BY <3>1, BoundAssumption
            <4> QED  BY <3>3, <4>1, <4>2
        <3>5. Traffic'
            BY <1>0, <1>2, <2>7, <3>4 DEF Traffic
        <3>6. CASE Available = Read
            <4>1. inq' = <<>> /\ Received' = sent' /\ Len(inq') = 0
                BY <1>2, <2>6, <3>1, <3>2, <3>3, <3>6, EmptySeq
            <4> QED  BY <1>2, <3>1, <3>5, <4>1 DEF Accounted
        <3>7. CASE Available # Read
            <4>1. inq' = inq /\ Received' < inq'[1]
                BY <2>5, <2>6, <3>2, <3>3, <3>7
            <4>2. inq' # <<>> /\ inq'[Len(inq')] = sent' /\ Len(inq') <= 1
                BY <1>2, <1>6, <3>1, <4>1
            <4>3. \A i, j \in 1 .. Len(inq') : i < j => inq'[i] < inq'[j]
                BY <1>0, <4>1 DEF Accounted
            <4> QED  BY <3>1, <3>5, <4>1, <4>2, <4>3 DEF Accounted
        <3> QED  BY <3>6, <3>7
    <2> QED  BY <2>8, <2>9
<1>7. ASSUME ~(inq # <<>> /\ (is_secure => pending = 0))
      PROVE  Traffic' /\ Accounted'
    <2>1. Available = pending
        BY <1>7 DEF Available
    <2>2. is_secure /\ pending # 0
        BY <1>0, <1>2, <1>3, <2>1 DEF Accounted
    <2>3. /\ Read \in Nat /\ Read >= 1 /\ Read <= BUFSIZE /\ Read <= pending
          /\ pending - Read \in Nat
        BY <1>2, <1>3, <2>1, ReadSize
    <2>4. pending' = pending - Read /\ inq' = inq
        BY <1>2, <2>1, <2>2
    <2>5. Received' = Received
        BY <1>3, <1>4, <2>3, <2>4, HeldMove
    <2>6. pending' \in 0 .. MaxBytes /\ num_chars' \in 0 .. BUFSIZE
        BY <1>0, <1>2, <2>3, <2>4, BoundAssumption, SizeAssumption DEF Traffic
    <2>7. Traffic'
        BY <1>0, <1>2, <2>4, <2>6 DEF Traffic
    <2>8. Accounted'
        BY <1>0, <1>2, <2>2, <2>4, <2>5 DEF Accounted, is_secure
    <2> QED  BY <2>7, <2>8
<1> QED  BY <1>6, <1>7

-----------------------------------------------------------------------------
(* Steps of the main loop other than those of store_buffer.                *)

(* report() leaves its caller where it was told to go on, or ends the      *)
(* station; the last report always does.                                   *)
LEMMA ReportOutcome ==
    ASSUME Running, status = "running",
           NEW shutdown \in BOOLEAN, NEW generate \in BOOLEAN,
           NEW l \in {"first", "poll", "store", "button", "period"},
           Report(shutdown, generate, l)
    PROVE  /\ Running'
           /\ \/ pc' = l /\ status' = "running" /\ ~shutdown
              \/ pc' = "ended" /\ status' # "running"
<1>1. CASE SensorFails
    BY <1>1 DEF SensorFails, Exit, Running
<1>2. CASE ~shutdown /\ Goto(l) /\ UNCHANGED <<link, reported>>
    BY <1>2 DEF Goto, Running
<1>3. CASE WriteFails
    BY <1>3 DEF WriteFails, Exit, Running
<1>4. CASE /\ WriteToHost
           /\ reported' = IF shutdown THEN "SHUTDOWN" ELSE "temperature"
           /\ IF shutdown THEN Exit("exit 0") ELSE Goto(l)
    <2>1. link' \in {"open", "fin", "rst", "written", "broken"}
        BY <1>4 DEF WriteToHost, Running
    <2>2. reported' \in {"nothing", "temperature", "SHUTDOWN"}
        BY <1>4
    <2>3. CASE shutdown
        BY <1>4, <2>1, <2>2, <2>3 DEF Exit, Running
    <2>4. CASE ~shutdown
        BY <1>4, <2>1, <2>2, <2>4 DEF Goto, Running
    <2> QED  BY <2>3, <2>4
<1> QED  BY <1>1, <1>2, <1>3, <1>4 DEF Report

(* A step of the main loop that stores nothing.                            *)
LEMMA MainStep ==
    ASSUME StationInv, status = "running", pc \notin {"store", "ended"},
           Settings', Running',
           (pc' = "ended") <=> (status' # "running"),
           UNCHANGED <<program, sent, done, inq, pending, num_chars, understood, line_buf,
                       generate_reports>>
    PROVE  StationInv'
<1>0. Traffic /\ Lines /\ Accounted
    BY TypeParts DEF StationInv
<1>1. Traffic' /\ Accounted' /\ Lines' /\ OrdersOK'
    BY <1>0, SameTraffic, SameLines, SameOrders DEF StationInv
<1>2. TypeOK'
    BY <1>1, TypePartsNext
<1>3. num_chars' = 0
    BY DEF StationInv, BatchOK
<1>4. BatchOK'
    BY <1>3 DEF BatchOK
<1> QED  BY <1>1, <1>2, <1>4 DEF StationInv

LEMMA FirstReportStep ==
    ASSUME StationInv, FirstReport
    PROVE  StationInv'
<1>0. Settings /\ Running
    BY TypeParts DEF StationInv
<1>1. pc = "first" /\ status = "running"
    BY DEF FirstReport, StationInv, BatchOK
<1>2. interrupt \in BOOLEAN /\ generate_reports \in BOOLEAN
    BY <1>0 DEF Settings
<1>3. Report(interrupt, generate_reports, "poll")
    BY DEF FirstReport
<1>4. Running' /\ ((pc' = "ended") <=> (status' # "running"))
    BY <1>0, <1>1, <1>2, <1>3, ReportOutcome
<1>5. UNCHANGED <<program, sent, done, inq, pending, num_chars, understood, line_buf,
                  generate_reports, interrupt, period, elapsed>>
    BY DEF FirstReport, input, reading, settings
<1>6. Settings'
    BY <1>0, <1>5 DEF Settings
<1> QED  BY <1>1, <1>4, <1>5, <1>6, MainStep

LEMMA TestPeriodStep ==
    ASSUME StationInv, TestPeriod
    PROVE  StationInv'
<1>0. Settings /\ Running
    BY TypeParts DEF StationInv
<1>1. pc = "period" /\ status = "running"
    BY DEF TestPeriod, StationInv, BatchOK
<1>2. interrupt \in BOOLEAN /\ generate_reports \in BOOLEAN
    BY <1>0 DEF Settings
<1>3. Running' /\ ((pc' = "ended") <=> (status' # "running"))
    <2>1. CASE Report(interrupt, generate_reports, "poll")
        BY <1>0, <1>1, <1>2, <2>1, ReportOutcome
    <2>2. CASE Goto("poll") /\ UNCHANGED <<link, reported>>
        BY <1>0, <1>1, <2>2 DEF Goto, Running
    <2> QED  BY <2>1, <2>2 DEF TestPeriod
<1>4. UNCHANGED <<program, sent, done, inq, pending, num_chars, understood, line_buf,
                  generate_reports, interrupt, period>>
    BY DEF TestPeriod, input, reading, settings
<1>5. elapsed' \in BOOLEAN
    BY <1>0 DEF TestPeriod, Settings
<1>6. Settings'
    BY <1>0, <1>4, <1>5 DEF Settings
<1> QED  BY <1>1, <1>3, <1>4, <1>6, MainStep

LEMMA ReadButtonStep ==
    ASSUME StationInv, ReadButton
    PROVE  StationInv'
<1>0. Settings /\ Running
    BY TypeParts DEF StationInv
<1>1. pc = "button" /\ status = "running"
    BY DEF ReadButton, StationInv, BatchOK
<1>2. UNCHANGED <<program, sent, done, inq, pending, num_chars, understood, line_buf,
                  generate_reports, period, elapsed, link, reported>>
    BY DEF ReadButton, input, reading
<1>3. Running' /\ ((pc' = "ended") <=> (status' # "running"))
    BY <1>0, <1>1, <1>2 DEF ReadButton, Goto, Exit, Running
<1>4. Settings'
    <2>1. interrupt' \in BOOLEAN
        BY <1>0 DEF ReadButton, Settings
    <2> QED  BY <1>0, <1>2, <2>1 DEF Settings
<1> QED  BY <1>1, <1>2, <1>3, <1>4, MainStep

LEMMA NoInputStep ==
    ASSUME StationInv, NoInput
    PROVE  StationInv'
<1>0. Settings /\ Running
    BY TypeParts DEF StationInv
<1>1. pc = "poll" /\ status = "running"
    BY DEF NoInput, StationInv, BatchOK
<1>2. UNCHANGED <<program, sent, done, inq, pending, num_chars, understood, line_buf,
                  generate_reports, interrupt, period, elapsed, reported>>
    BY DEF NoInput, input, reading, settings
<1>3. Running' /\ ((pc' = "ended") <=> (status' # "running"))
    <2>1. link' \in {"open", "fin", "rst", "written", "broken"}
        BY <1>0 DEF NoInput, Running
    <2> QED  BY <1>0, <1>1, <1>2, <2>1 DEF NoInput, Goto, Running
<1>4. Settings'
    BY <1>0, <1>2 DEF Settings
<1> QED  BY <1>1, <1>2, <1>3, <1>4, MainStep

LEMMA BatchDoneStep ==
    ASSUME StationInv, BatchDone
    PROVE  StationInv'
<1>0. Traffic /\ Accounted /\ Lines /\ Settings /\ Running
    BY TypeParts DEF StationInv
<1>1. pc = "store" /\ status = "running" /\ num_chars = 0
    BY DEF BatchDone, StationInv, BatchOK
<1>2. UNCHANGED <<program, sent, done, inq, pending, num_chars, understood, line_buf,
                  generate_reports, interrupt, period, elapsed, link, reported, status>>
    BY DEF BatchDone, Goto, input, reading, settings
<1>3. pc' = "button"
    BY DEF BatchDone, Goto
<1>4. Traffic' /\ Accounted' /\ Lines' /\ OrdersOK'
    BY <1>0, <1>2, SameTraffic, SameLines, SameOrders DEF StationInv
<1>5. Running' /\ BatchOK'
    BY <1>0, <1>1, <1>2, <1>3 DEF Running, BatchOK
<1>6. Settings'
    BY <1>0, <1>2 DEF Settings
<1>7. TypeOK'
    BY <1>4, <1>5, <1>6, TypePartsNext
<1> QED  BY <1>4, <1>5, <1>7 DEF StationInv

(* The line is dropped only when it fills the buffer, and then it has      *)
(* filled it.                                                              *)
LEMMA ReadInputStep ==
    ASSUME StationInv, ReadInput
    PROVE  StationInv'
<1>0. Lines /\ Settings /\ Running
    BY TypeParts DEF StationInv
<1>1. pc = "poll" /\ status = "running"
    BY DEF ReadInput, StationInv, BatchOK
<1>2. /\ UNCHANGED <<program, understood, generate_reports, interrupt, period, elapsed, link,
                     reported, status>>
      /\ pc' = "store"
    BY DEF ReadInput, Goto, settings
<1>3. line_buf' = IF Len(line_buf) > BUFSIZE - 1 THEN <<>> ELSE line_buf
    BY DEF ReadInput
<1>4. Traffic' /\ Accounted'
    BY ReadTraffic
<1>5. Lines'
    <2>1. <<>> \in Seq(Word) /\ Len(<<>>) <= BUFSIZE
        BY EmptySeq, SizeAssumption
    <2> QED  BY <1>0, <1>2, <1>3, <2>1 DEF Lines
<1>6. Settings' /\ Running'
    BY <1>0, <1>2 DEF Settings, Running
<1>7. BatchOK'
    BY <1>1, <1>2 DEF BatchOK
<1>8. OrdersOK'
    <2>1. Len(line_buf) < BUFSIZE => ~(Len(line_buf) > BUFSIZE - 1)
        BY <1>0, LenProperties, SizeAssumption DEF Lines
    <2> QED  BY <1>1, <1>2, <1>3, <2>1 DEF StationInv, OrdersOK
<1>9. TypeOK'
    BY <1>4, <1>5, <1>6, TypePartsNext
<1> QED  BY <1>4, <1>7, <1>8, <1>9 DEF StationInv

-----------------------------------------------------------------------------
(* The bytes as a stream.                                                  *)

LEMMA OneLess ==
    ASSUME NEW l \in Nat \ {0}
    PROVE  (IF 1 <= l - 1 THEN l - 1 - 1 + 1 ELSE 0) = l - 1
OBVIOUS

LEMMA FrontShorter ==
    ASSUME NEW S, NEW s \in Seq(S), s # <<>>
    PROVE  /\ Front(s) \in Seq(S)
           /\ Len(s) \in Nat /\ Len(Front(s)) = Len(s) - 1
<1>1. Len(s) \in Nat \ {0}
    BY EmptySeq
<1>2. \A i \in 1 .. Len(s) - 1 : s[i] \in S
    BY <1>1, ElementOfSeq
<1>3. /\ SubSeq(s, 1, Len(s) - 1) \in Seq(S)
      /\ Len(SubSeq(s, 1, Len(s) - 1)) = IF 1 <= Len(s) - 1 THEN Len(s) - 1 - 1 + 1 ELSE 0
    BY <1>1, <1>2, SubSeqProperties
<1> QED  BY <1>1, <1>3, OneLess DEF Front

LEMMA TypedWord ==
    ASSUME NEW s \in Stream, NEW c \in Word
    PROVE  /\ Typed(s, c) \in Stream
           /\ Typed(s, c).line = Append(s.line, c)
           /\ Typed(s, c).on = s.on
           /\ ~Typed(s, c).full => ~s.full /\ ~(Len(s.line) + 1 >= BUFSIZE)
<1>1. Typed(s, c) = [s EXCEPT !.line = Append(@, c), !.full = @ \/ Len(s.line) + 1 >= BUFSIZE]
    BY DEF Typed, Word
<1>2. s.line \in Seq(Word) /\ s.full \in BOOLEAN /\ s.on \in BOOLEAN
    BY DEF Stream
<1>3. Append(s.line, c) \in Seq(Word)
    BY <1>2, AppendProperties
<1>4. s = [line |-> s.line, on |-> s.on, full |-> s.full]
    BY DEF Stream
<1>5. Typed(s, c) = [line |-> Append(s.line, c), on |-> s.on,
                     full |-> s.full \/ Len(s.line) + 1 >= BUFSIZE]
    BY <1>1, <1>4
<1>6. PICK f \in BOOLEAN : f = (s.full \/ Len(s.line) + 1 >= BUFSIZE)
    OBVIOUS
<1>7. Typed(s, c) = [line |-> Append(s.line, c), on |-> s.on, full |-> f]
    BY <1>5, <1>6
<1>8. /\ Typed(s, c) \in Stream
      /\ Typed(s, c).line = Append(s.line, c)
      /\ Typed(s, c).on = s.on
      /\ Typed(s, c).full = f
    BY <1>2, <1>3, <1>7 DEF Stream
<1> QED  BY <1>2, <1>6, <1>8

LEMMA TypedDel ==
    ASSUME NEW s \in Stream
    PROVE  /\ Typed(s, "DEL") \in Stream
           /\ Typed(s, "DEL").line = IF s.line = <<>> THEN <<>> ELSE Front(s.line)
           /\ Typed(s, "DEL").on = s.on
           /\ Typed(s, "DEL").full = s.full
<1>1. s.line \in Seq(Word)
    BY DEF Stream
<1>2. CASE s.line = <<>>
    <2>1. Typed(s, "DEL") = s
        BY <1>2 DEF Typed, Word
    <2> QED  BY <1>2, <2>1
<1>3. CASE s.line # <<>>
    <2>1. Typed(s, "DEL") = [s EXCEPT !.line = Front(@)]
        BY <1>3 DEF Typed, Word
    <2>2. Front(s.line) \in Seq(Word)
        BY <1>1, <1>3, FrontShorter
    <2> QED  BY <1>3, <2>1, <2>2 DEF Stream
<1> QED  BY <1>2, <1>3

LEMMA TypedNewLine ==
    ASSUME NEW s \in Stream, s.line # <<>>
    PROVE  /\ Typed(s, "NL") \in Stream
           /\ Typed(s, "NL").line = <<>>
           /\ Typed(s, "NL").on = ((s.on \/ Head(s.line) = "START") /\ Head(s.line) # "STOP")
           /\ Typed(s, "NL").full = s.full
<1>1. Typed(s, "NL") =
          [s EXCEPT !.line = <<>>,
                    !.on = IF Head(s.line) \in {"STOP", "START"} THEN Head(s.line) = "START" ELSE @]
    BY DEF Typed, Word
<1>2. s.on \in BOOLEAN /\ <<>> \in Seq(Word)
    BY EmptySeq DEF Stream
<1>3. /\ Typed(s, "NL").line = <<>>
      /\ Typed(s, "NL").on =
             (IF Head(s.line) \in {"STOP", "START"} THEN Head(s.line) = "START" ELSE s.on)
      /\ Typed(s, "NL").full = s.full
    BY <1>1 DEF Stream
<1>4. (IF Head(s.line) \in {"STOP", "START"} THEN Head(s.line) = "START" ELSE s.on) \in BOOLEAN
    BY <1>2
<1>5. Typed(s, "NL") \in Stream
    BY <1>1, <1>2, <1>4 DEF Stream
<1>6. (IF Head(s.line) \in {"STOP", "START"} THEN Head(s.line) = "START" ELSE s.on)
          = ((s.on \/ Head(s.line) = "START") /\ Head(s.line) # "STOP")
    BY <1>2
<1> QED  BY <1>3, <1>5, <1>6

LEMMA TypedElse ==
    ASSUME NEW s \in Stream
    PROVE  /\ Typed(s, "^C") = s
           /\ s.line = <<>> => Typed(s, "NL") = s
BY DEF Typed, Word

-----------------------------------------------------------------------------
(* Steps of store_buffer.                                                  *)

(* A byte of the batch is handled, the account stays the same.             *)
LEMMA OneHandled ==
    ASSUME NEW d \in Nat, NEW k \in Nat \ {0}, NEW p \in Nat, NEW l \in Nat, d + k + p <= l
    PROVE  /\ (d + 1) + (k - 1) + p = d + k + p
           /\ d + 1 \in 0 .. l /\ k - 1 \in 0 .. k
OBVIOUS

LEMMA StoreTraffic ==
    ASSUME StationInv, NEW c, Store(c)
    PROVE  Traffic' /\ Accounted'
<1>0. Traffic /\ Accounted
    BY TypeParts DEF StationInv
<1>1. /\ num_chars > 0 /\ num_chars' = num_chars - 1 /\ done' = done + 1
      /\ UNCHANGED <<program, sent, inq, pending>>
    BY DEF Store, input
<1>2. done \in Nat /\ num_chars \in Nat \ {0} /\ pending \in Nat /\ sent \in Nat
    BY <1>0, <1>1, SizeAssumption, BoundAssumption DEF Traffic
<1>3. done + num_chars + pending <= sent
    BY <1>0, WithinSent DEF Received
<1>4. /\ (done + 1) + (num_chars - 1) + pending = done + num_chars + pending
      /\ done + 1 \in 0 .. sent /\ num_chars - 1 \in 0 .. num_chars
    BY <1>2, <1>3, OneHandled
<1>5. Received' = Received
    BY <1>1, <1>4 DEF Received
<1>6. num_chars' \in 0 .. BUFSIZE
    BY <1>0, <1>1, <1>4, SizeAssumption DEF Traffic
<1>7. Traffic'
    BY <1>0, <1>1, <1>4, <1>6 DEF Traffic
<1>8. Accounted'
    BY <1>0, <1>1, <1>5 DEF Accounted, is_secure
<1> QED  BY <1>7, <1>8

(* What is left to show of a byte: what it does to the line, the settings  *)
(* and the control state.                                                  *)
LEMMA StoreStep ==
    ASSUME StationInv, NEW c, Store(c), Lines', Settings', Running', OrdersOK',
           pc' \in {"store", "ended"}, (pc' = "ended") <=> (status' # "running")
    PROVE  StationInv'
<1>1. Traffic' /\ Accounted'
    BY StoreTraffic
<1>2. TypeOK'
    BY <1>1, TypePartsNext
<1>3. BatchOK'
    BY DEF BatchOK
<1> QED  BY <1>1, <1>2, <1>3 DEF StationInv

LEMMA StoreFacts ==
    ASSUME StationInv, NEW c, Store(c)
    PROVE  /\ Lines /\ Settings /\ Running /\ OrdersOK
           /\ understood \in Stream /\ line_buf \in Seq(Word) /\ Len(line_buf) <= BUFSIZE
           /\ pc = "store" /\ status = "running"
           /\ program' = program /\ understood' = Typed(understood, c)
BY TypeParts DEF StationInv, Store, Lines, BatchOK

LEMMA Longer ==
    ASSUME NEW l \in Nat, NEW b \in Nat
    PROVE  /\ l < b => l + 1 <= b
           /\ ~(l + 1 >= b) => l + 1 < b /\ l < b
OBVIOUS

(* A word: if it does not fill the line of the stream it fits the buffer.  *)
LEMMA StoreWordStep ==
    ASSUME StationInv, NEW c \in Word, StoreWord(c)
    PROVE  StationInv'
<1>1. Store(c)
    BY DEF StoreWord
<1>2. /\ Lines /\ Settings /\ Running /\ OrdersOK
      /\ understood \in Stream /\ line_buf \in Seq(Word) /\ Len(line_buf) <= BUFSIZE
      /\ pc = "store" /\ status = "running"
      /\ program' = program /\ understood' = Typed(understood, c)
    BY <1>1, StoreFacts
<1>3. UNCHANGED <<generate_reports, interrupt, period, elapsed, link, reported>>
    BY DEF StoreWord, settings
<1>4. /\ Typed(understood, c) \in Stream
      /\ Typed(understood, c).line = Append(understood.line, c)
      /\ Typed(understood, c).on = understood.on
      /\ ~Typed(understood, c).full =>
             ~understood.full /\ ~(Len(understood.line) + 1 >= BUFSIZE)
    BY <1>2, TypedWord
<1>5. Settings'
    BY <1>2, <1>3 DEF Settings
<1>6. /\ Append(line_buf, c) \in Seq(Word)
      /\ Len(line_buf) \in Nat /\ Len(Append(line_buf, c)) = Len(line_buf) + 1
    BY <1>2, AppendProperties, LenProperties
<1>7. BUFSIZE \in Nat
    BY SizeAssumption
<1>8. CASE Len(line_buf) < BUFSIZE /\ line_buf' = Append(line_buf, c) /\ UNCHANGED <<pc, status>>
    <2>1. Len(line_buf') <= BUFSIZE
        BY <1>6, <1>7, <1>8, Longer
    <2>2. Lines'
        BY <1>2, <1>4, <1>6, <1>8, <2>1 DEF Lines
    <2>3. Running'
        BY <1>2, <1>3, <1>8 DEF Running
    <2>4. ASSUME ~understood'.full
          PROVE  /\ line_buf' = understood'.line
                 /\ generate_reports' = understood'.on
                 /\ Len(line_buf') < BUFSIZE
        <3>1. ~understood.full /\ ~(Len(understood.line) + 1 >= BUFSIZE)
            BY <1>2, <1>4, <2>4
        <3>2. line_buf = understood.line /\ generate_reports = understood.on
            BY <1>2, <3>1 DEF OrdersOK
        <3>3. Len(line_buf) + 1 < BUFSIZE
            BY <1>6, <1>7, <3>1, <3>2, Longer
        <3> QED  BY <1>2, <1>3, <1>4, <1>6, <1>8, <3>2, <3>3
    <2>5. OrdersOK'
        BY <2>4 DEF OrdersOK
    <2> QED  BY <1>1, <1>2, <1>5, <1>8, <2>2, <2>3, <2>5, StoreStep
<1>9. CASE Exit("undefined") /\ UNCHANGED line_buf
    <2>1. pc' = "ended" /\ status' = "undefined"
        BY <1>9 DEF Exit
    <2>2. Lines'
        BY <1>2, <1>4, <1>9 DEF Lines
    <2>3. Running' /\ OrdersOK'
        BY <1>2, <1>3, <2>1 DEF Running, OrdersOK
    <2> QED  BY <1>1, <1>5, <2>1, <2>2, <2>3, StoreStep
<1> QED  BY <1>8, <1>9 DEF StoreWord

LEMMA StoreDelStep ==
    ASSUME StationInv, StoreDel
    PROVE  StationInv'
<1>1. Store("DEL")
    BY DEF StoreDel
<1>2. /\ Lines /\ Settings /\ Running /\ OrdersOK
      /\ understood \in Stream /\ line_buf \in Seq(Word) /\ Len(line_buf) <= BUFSIZE
      /\ pc = "store" /\ status = "running"
      /\ program' = program /\ understood' = Typed(understood, "DEL")
    BY <1>1, StoreFacts
<1>3. UNCHANGED <<generate_reports, interrupt, period, elapsed, link, reported, pc, status>>
    BY DEF StoreDel, settings, ending
<1>4. line_buf' = IF line_buf = <<>> THEN <<>> ELSE Front(line_buf)
    BY DEF StoreDel
<1>5. /\ Typed(understood, "DEL") \in Stream
      /\ Typed(understood, "DEL").line
           = IF understood.line = <<>> THEN <<>> ELSE Front(understood.line)
      /\ Typed(understood, "DEL").on = understood.on
      /\ Typed(understood, "DEL").full = understood.full
    BY <1>2, TypedDel
<1>6. line_buf' \in Seq(Word) /\ Len(line_buf') <= Len(line_buf) /\ Len(line_buf') \in Nat
    <2>1. CASE line_buf = <<>>
        BY <1>2, <1>4, <2>1, EmptySeq
    <2>2. CASE line_buf # <<>>
        <3>1. /\ Front(line_buf) \in Seq(Word)
              /\ Len(line_buf) \in Nat /\ Len(Front(line_buf)) = Len(line_buf) - 1
            BY <1>2, <2>2, FrontShorter
        <3>2. line_buf' = Front(line_buf)
            BY <1>4, <2>2
        <3> QED  BY <3>1, <3>2, LenProperties
    <2> QED  BY <2>1, <2>2
<1>7. Len(line_buf) \in Nat /\ BUFSIZE \in Nat
    BY <1>2, LenProperties, SizeAssumption
<1>8. Len(line_buf') <= BUFSIZE /\ (Len(line_buf) < BUFSIZE => Len(line_buf') < BUFSIZE)
    BY <1>2, <1>6, <1>7
<1>9. Lines'
    BY <1>2, <1>5, <1>6, <1>8 DEF Lines
<1>10. Settings' /\ Running'
    BY <1>2, <1>3 DEF Settings, Running
<1>11. OrdersOK'
    BY <1>2, <1>3, <1>4, <1>5, <1>8 DEF OrdersOK
<1> QED  BY <1>1, <1>2, <1>3, <1>9, <1>10, <1>11, StoreStep

(* A byte with which the station ends.                                     *)
LEMMA FatalStep ==
    ASSUME StationInv, NEW c, Store(c), Typed(understood, c) \in Stream,
           NEW how \in {"exit 1", "exit 2"}, Exit(how),
           UNCHANGED <<line_buf, settings, elapsed, link, reported>>
    PROVE  StationInv'
<1>1. /\ Lines /\ Settings /\ Running
      /\ program' = program /\ understood' = Typed(understood, c)
    BY StoreFacts
<1>2. pc' = "ended" /\ status' = how /\ status' # "running"
    BY DEF Exit
<1>3. Lines'
    BY <1>1 DEF Lines
<1>4. Settings'
    BY <1>1, SameSettings
<1>5. Running' /\ OrdersOK'
    BY <1>1, <1>2 DEF Running, OrdersOK
<1> QED  BY <1>2, <1>3, <1>4, <1>5, StoreStep

LEMMA CtrlCStep ==
    ASSUME StationInv, CtrlC
    PROVE  StationInv'
<1>1. Store("^C") /\ Exit("exit 2") /\ UNCHANGED <<line_buf, settings, elapsed, link, reported>>
    BY DEF CtrlC
<1>2. Typed(understood, "^C") \in Stream
    BY <1>1, StoreFacts, TypedElse
<1> QED  BY <1>1, <1>2, FatalStep

LEMMA InvalidScaleStep ==
    ASSUME StationInv, InvalidScale
    PROVE  StationInv'
<1>1. Store("NL") /\ Exit("exit 1") /\ UNCHANGED <<line_buf, settings, elapsed, link, reported>>
    BY DEF InvalidScale
<1>2. understood \in Stream
    BY <1>1, StoreFacts
<1>3. Typed(understood, "NL") \in Stream
    <2>1. CASE understood.line = <<>>
        BY <1>2, <2>1, TypedElse
    <2>2. CASE understood.line # <<>>
        BY <1>2, <2>2, TypedNewLine
    <2> QED  BY <2>1, <2>2
<1> QED  BY <1>1, <1>3, FatalStep

LEMMA EmptyLineStep ==
    ASSUME StationInv, EmptyLine
    PROVE  StationInv'
<1>1. Store("NL") /\ line_buf = <<>>
    BY DEF EmptyLine
<1>2. /\ Lines /\ Settings /\ Running /\ OrdersOK
      /\ understood \in Stream
      /\ pc = "store" /\ status = "running"
      /\ program' = program /\ understood' = Typed(understood, "NL")
    BY <1>1, StoreFacts
<1>3. UNCHANGED <<line_buf, generate_reports, interrupt, period, elapsed, link, reported, pc, status>>
    BY DEF EmptyLine, settings, ending
<1>4. Settings' /\ Running'
    BY <1>2, <1>3 DEF Settings, Running
<1>5. CASE understood.line = <<>>
    <2>1. understood' = understood
        BY <1>2, <1>5, TypedElse
    <2>2. Lines' /\ OrdersOK'
        BY <1>2, <1>3, <2>1, SameLines, SameOrders
    <2> QED  BY <1>1, <1>2, <1>3, <1>4, <2>2, StoreStep
<1>6. CASE understood.line # <<>>
    <2>1. understood' \in Stream /\ understood'.full = understood.full
        BY <1>2, <1>6, TypedNewLine
    <2>2. understood.full
        BY <1>1, <1>2, <1>6 DEF OrdersOK
    <2>3. Lines' /\ OrdersOK'
        BY <1>2, <1>3, <2>1, <2>2 DEF Lines, OrdersOK
    <2> QED  BY <1>1, <1>2, <1>3, <1>4, <2>3, StoreStep
<1> QED  BY <1>5, <1>6

(* A command: STOP and START do to the settings what they do to the stream.*)
LEMMA CommandStep ==
    ASSUME StationInv, Command
    PROVE  StationInv'
<1> DEFINE command == Head(line_buf)
           generate == (generate_reports \/ command = "START") /\ command # "STOP"
<1>1. /\ Store("NL") /\ line_buf # <<>>
      /\ generate_reports' = generate
      /\ interrupt' = (interrupt \/ command = "OFF")
      /\ line_buf' = <<>>
      /\ period' \in {"some", "zero", "never", period} /\ elapsed' \in {TRUE, FALSE, elapsed}
      /\ \/ ~interrupt' /\ UNCHANGED ending
         \/ interrupt' /\ Report(TRUE, generate, pc)
    BY DEF Command, ProcessCommand
<1>2. /\ Lines /\ Settings /\ Running /\ OrdersOK
      /\ understood \in Stream
      /\ pc = "store" /\ status = "running"
      /\ program' = program /\ understood' = Typed(understood, "NL")
    BY <1>1, StoreFacts
<1>3. Settings'
    <2>1. generate_reports' \in BOOLEAN /\ interrupt' \in BOOLEAN
        BY <1>1
    <2>2. period' \in {"some", "zero", "never"} /\ elapsed' \in BOOLEAN
        BY <1>1, <1>2 DEF Settings
    <2> QED  BY <1>2, <2>1, <2>2 DEF Settings
<1>4. /\ Running'
      /\ \/ pc' = "store" /\ status' = "running"
         \/ pc' = "ended" /\ status' # "running"
    <2>1. CASE UNCHANGED ending
        BY <1>2, <2>1 DEF ending, Running
    <2>2. CASE Report(TRUE, generate, pc)
        <3>1. generate \in BOOLEAN
            OBVIOUS
        <3>2. Report(TRUE, generate, "store")
            BY <1>2, <2>2
        <3> HIDE DEF generate
        <3> QED  BY <1>2, <3>1, <3>2, ReportOutcome
    <2> QED  BY <1>1, <2>1, <2>2
<1>5. understood' \in Stream
    <2>1. CASE understood.line = <<>>
        BY <1>2, <2>1, TypedElse
    <2>2. CASE understood.line # <<>>
        BY <1>2, <2>2, TypedNewLine
    <2> QED  BY <2>1, <2>2
<1>6. line_buf' \in Seq(Word) /\ Len(line_buf') = 0 /\ 0 <= BUFSIZE /\ 0 < BUFSIZE
    BY <1>1, EmptySeq, SizeAssumption
<1>7. Lines'
    BY <1>5, <1>6 DEF Lines
<1>8. OrdersOK'
    <2>1. ASSUME status' = "running", ~understood'.full
          PROVE  line_buf' = understood'.line /\ generate_reports' = understood'.on
        <3>1. CASE understood.line = <<>>
            <4>1. understood' = understood
                BY <1>2, <3>1, TypedElse
            <4>2. line_buf = <<>>
                BY <1>2, <2>1, <3>1, <4>1 DEF OrdersOK
            <4> QED  BY <1>1, <4>2
        <3>2. CASE understood.line # <<>>
            <4>1. /\ understood'.line = <<>> /\ understood'.full = understood.full
                  /\ understood'.on = ((understood.on \/ Head(understood.line) = "START")
                                         /\ Head(understood.line) # "STOP")
                BY <1>2, <3>2, TypedNewLine
            <4>2. line_buf = understood.line /\ generate_reports = understood.on
                BY <1>2, <2>1, <4>1 DEF OrdersOK
            <4> QED  BY <1>1, <4>1, <4>2
        <3> QED  BY <3>1, <3>2
    <2> QED  BY <1>6, <2>1 DEF OrdersOK
<1> QED  BY <1>1, <1>3, <1>4, <1>7, <1>8, StoreStep

-----------------------------------------------------------------------------
LEMMA StationInvInit ==
    ASSUME Init
    PROVE  StationInv
<1>1. Traffic
    BY EmptySeq, SizeAssumption, BoundAssumption DEF Init, Traffic
<1>2. Lines
    BY EmptySeq, SizeAssumption DEF Init, Lines, Stream
<1>3. Settings /\ Running
    BY DEF Init, Settings, Running
<1>4. TypeOK
    BY <1>1, <1>2, <1>3, TypeParts
<1>5. Received = sent /\ inq = <<>> /\ Len(inq) = 0 /\ pending = 0
    BY EmptySeq DEF Init, Received
<1>6. Accounted
    BY <1>5 DEF Accounted
<1>7. BatchOK
    BY DEF Init, BatchOK
<1>8. OrdersOK
    BY EmptySeq, SizeAssumption DEF Init, OrdersOK
<1> QED  BY <1>4, <1>6, <1>7, <1>8 DEF StationInv

LEMMA StationInvNext ==
    ASSUME StationInv, [Next]_vars
    PROVE  StationInv'
<1>1. CASE Loop
    <2>1. ASSUME NEW c \in Word \cap Sendable, StoreWord(c)
          PROVE  StationInv'
        BY <2>1, StoreWordStep
    <2> QED  BY <1>1, <2>1, FirstReportStep, ReadInputStep, NoInputStep, StoreDelStep, CtrlCStep,
                EmptyLineStep, InvalidScaleStep, CommandStep, BatchDoneStep, ReadButtonStep,
                TestPeriodStep DEF Loop
<1>2. CASE Send
    BY <1>2, SendStep
<1>3. CASE HostCloses \/ Reset \/ Clock
    BY <1>3, HostStep
<1>4. CASE UNCHANGED vars
    <2>0. Traffic /\ Accounted /\ Lines /\ Settings /\ Running
        BY TypeParts DEF StationInv
    <2>1. UNCHANGED <<program, sent, inq, done, understood, pending, num_chars, line_buf, settings,
                      generate_reports, elapsed, link, reported, pc, status>>
        BY <1>4 DEF vars, input, reading, settings, ending
    <2>2. Traffic' /\ Accounted' /\ Lines' /\ Settings' /\ OrdersOK'
        BY <2>0, <2>1, SameTraffic, SameLines, SameSettings, SameOrders DEF StationInv
    <2>3. Running' /\ BatchOK'
        BY <2>0, <2>1 DEF StationInv, Running, BatchOK
    <2>4. TypeOK'
        BY <2>2, <2>3, TypePartsNext
    <2> QED  BY <2>2, <2>3, <2>4 DEF StationInv
<1> QED  BY <1>1, <1>2, <1>3, <1>4 DEF Next

LEMMA StationInvariant == Spec => []StationInv
BY StationInvInit, StationInvNext, PTL DEF Spec

(* For any size of buffer and of records: a batch never overruns new_buf,  *)
(* a line never overruns line_buf unless the station has stopped there,    *)
(* and no more bytes are handled than were sent, over TLS too.             *)
THEOREM StationTypeCorrect == Spec => []TypeOK
<1>1. StationInv => TypeOK
    BY DEF StationInv
<1> QED  BY <1>1, StationInvariant, PTL

(* However the stream is cut into records and reads, the station reports   *)
(* exactly if the last STOP or START says so, as long as no line has       *)
(* filled its buffer.                                                      *)
THEOREM OrdersAlwaysFollowed == Spec => []OrdersFollowed
<1>1. StationInv => OrdersFollowed
    BY DEF StationInv, OrdersOK, OrdersFollowed
<1> QED  BY <1>1, StationInvariant, PTL

=============================================================================
