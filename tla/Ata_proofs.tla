----------------------------- MODULE Ata_proofs -----------------------------
(* Calls of the ATA driver keep their word, for disks, limits and calls of   *)
(* any number and size, and whatever the drive does.                         *)
EXTENDS Ata, TLAPS

-----------------------------------------------------------------------------
(* The inductive invariant *)

Label == {"boot", "down", "idle", "next", "select", "ready", "issue", "busy", "written",
          "identify", "signature", "status", "drq", "data"}
Highs == {h \in Nat : h * Lows <= MaxLba}

DriveState ==
  [kind : {"disk", "packet", "none"}, bsy : BOOLEAN, drq : BOOLEAN, err : BOOLEAN, df : BOOLEAN,
   doing : {"none", "identify", "read", "write"}, high : Highs, low : 0..(Lows - 1),
   lba : Sectors, full : BOOLEAN, data : Datum]

CallState ==
  [op : {"identify", "read", "write"}, lba : 0..(MaxLba + 1), count : Nat, i : Nat,
   ready : BOOLEAN, disk : [Sectors -> Datum], result : {"none", "true", "false"}]

Types ==
  /\ pc \in Label /\ polls \in 0..(Polls - 1) /\ calls \in 0..MaxCalls
  /\ call \in CallState /\ call.i <= call.count
  /\ disk \in [Sectors -> Datum] /\ buffer \in [0..(call.count - 1) -> Datum]
  /\ drive \in DriveState

\* The drive is ready when it has nothing to do, and never busy while it asks.
DriveSound ==
  /\ Ready <=> drive.doing = "none"
  /\ ~(drive.bsy /\ drive.drq)
  /\ drive.full => drive.bsy /\ drive.doing = "write"

\* The driver is where the call needs it, at a sector that it names.
DriverSound ==
  /\ pc \in {"next", "select", "ready", "issue", "busy", "written"} => call.op # "identify"
  /\ pc \in {"boot", "identify", "signature"} => call.op = "identify"
  /\ pc = "busy" => call.op = "read"
  /\ pc = "written" => call.op = "write"
  /\ pc = "status" => call.op # "identify"
  /\ pc \in {"select", "ready", "issue", "busy", "written", "status", "drq", "data"}
       /\ call.op # "identify"
     => call.i < call.count /\ call.lba + call.i <= MaxLba

TypeInv == Types /\ DriveSound /\ DriverSound

Here == call.lba + call.i
Stored == disk[Here] = Payload(call.i)

\* Where drive and driver stand in a call that found the drive ready.
InStep ==
  /\ drive.doing # "none" =>
       /\ drive.doing = call.op /\ drive.lba = Here /\ call.i < call.count
       /\ pc \notin {"next", "select", "ready", "issue"}
       /\ call.result # "true"
  /\ drive.full => drive.data = Payload(call.i)
  /\ call.result = "true" => pc = "idle" /\ call.i = call.count
  /\ pc \in {"ready", "issue"} => drive.high = Here \div Lows
  /\ pc = "busy" => Faulty \/ drive.doing = "read"
  /\ pc = "drq" => call.op = "write" /\ ~drive.full /\ (Faulty \/ drive.doing = "write")
  /\ pc = "data" => drive.drq
  /\ pc = "written" => drive.full \/ (drive.doing = "none" /\ (Faulty \/ Stored))
  /\ pc = "status" =>
       /\ ~drive.bsy
       /\ IF call.op = "read" THEN Faulty \/ drive.drq
          ELSE drive.doing = "none" /\ (Faulty \/ Stored)

\* The sectors that the call counts as done, and those it does not name.
Named(s) == s >= call.lba /\ s < call.lba + call.count
OthersKept == \A s \in Sectors : ~Named(s) => disk[s] = call.disk[s]
DoneRead == call.op = "read" => \A i \in 0..(call.i - 1) : disk[call.lba + i] = buffer[i]
DoneWritten == call.op = "write" => \A i \in 0..(call.i - 1) : disk[call.lba + i] = Payload(i)

Kept == InStep /\ OthersKept /\ DoneRead /\ DoneWritten
OnDuty == call.ready /\ call.op # "identify"

Inv == TypeInv /\ (OnDuty => Kept)

-----------------------------------------------------------------------------
(* Arithmetic *)

\* A product of naturals grows with its first factor.
LEMMA ProductGrows ==
  ASSUME NEW a \in Nat, NEW b \in Nat, NEW m \in Nat, a <= b
  PROVE  a * m \in Nat /\ b * m \in Nat /\ a * m <= b * m
<1> DEFINE r == b - a
<1>1. r \in Nat /\ b = a + r
  OBVIOUS
<1>2. r * m \in Nat /\ a * m \in Nat /\ b * m \in Nat
  BY <1>1
<1> HIDE DEF r
<1>3. (a + r) * m = a * m + r * m
  BY <1>1
<1> QED
  BY <1>1, <1>2, <1>3

\* The two parts of an LBA make it up again.
LEMMA LbaSplits ==
  ASSUME NEW x \in Sectors
  PROVE  /\ x \div Lows \in Highs /\ x % Lows \in 0..(Lows - 1)
         /\ (x \div Lows) * Lows + (x % Lows) = x
<1>1. x \in Nat /\ x <= MaxLba /\ Lows \in Nat /\ Lows > 0 /\ MaxLba \in Nat
  BY AtaAssumption DEF Sectors
<1>2. x % Lows \in 0..(Lows - 1) /\ x \div Lows \in Nat
  BY <1>1
<1>3. (x \div Lows) * Lows + (x % Lows) = x
  BY <1>1
<1>4. (x \div Lows) * Lows \in Nat
  BY <1>1, <1>2
<1> QED
  BY <1>1, <1>2, <1>3, <1>4 DEF Highs

\* Any high and any low part make up a sector of the disk.
LEMMA PartsAreSector ==
  ASSUME NEW h \in Highs, NEW l \in 0..(Lows - 1)
  PROVE  h * Lows + l \in Sectors
<1> DEFINE q == (MaxLba + 1) \div Lows
<1>1. h \in Nat /\ h * Lows <= MaxLba /\ Lows \in Nat /\ Lows > 0 /\ MaxLba \in Nat
  BY AtaAssumption DEF Highs
<1>2. q \in Nat
  BY <1>1
<1>3. MaxLba + 1 = q * Lows
  BY <1>1, AtaAssumption
<1> HIDE DEF q
<1>4. h < q
  <2> SUFFICES ASSUME q <= h PROVE FALSE
    BY <1>1, <1>2
  <2>1. q * Lows <= h * Lows /\ q * Lows \in Nat /\ h * Lows \in Nat
    BY <1>1, <1>2, ProductGrows
  <2> QED
    BY <1>1, <1>3, <2>1
<1>5. (h + 1) * Lows <= q * Lows /\ (h + 1) * Lows \in Nat
  BY <1>1, <1>2, <1>4, ProductGrows
<1>6. (h + 1) * Lows = h * Lows + Lows /\ h * Lows \in Nat
  BY <1>1
<1>7. h * Lows + l <= MaxLba /\ h * Lows + l \in Nat
  BY <1>1, <1>3, <1>5, <1>6
<1> QED
  BY <1>7, <1>1 DEF Sectors

\* What was on the disk and what a call brings are data.
LEMMA Data ==
  /\ 0 \in Datum /\ Nothing \in Datum
  /\ \A s \in Sectors : Old(s) \in Datum
  /\ calls \in 0..MaxCalls => \A i \in 0..MaxLba : Payload(i) \in Datum
<1> DEFINE m == MaxLba + 2
<1>1. m \in Nat /\ MaxCalls \in Nat /\ MaxLba \in Nat
  BY AtaAssumption
<1>2. MaxCalls * m \in Nat /\ (MaxCalls + 1) * m = MaxCalls * m + m
  BY <1>1
<1>3. Datum = 0..(MaxCalls * m + m + MaxLba)
  BY <1>2 DEF Datum
<1>4. ASSUME calls \in 0..MaxCalls, NEW i \in 0..MaxLba
      PROVE  Payload(i) \in Datum
  <2>1. calls \in Nat /\ calls <= MaxCalls
    BY <1>1, <1>4
  <2>2. calls * m \in Nat /\ calls * m <= MaxCalls * m
    BY <1>1, <2>1, ProductGrows
  <2>3. Payload(i) = calls * m + MaxLba + 1 + i
    BY DEF Payload
  <2> HIDE DEF m
  <2>4. calls * m + MaxLba + 1 + i <= MaxCalls * m + MaxLba + 1 + MaxLba
    BY <1>1, <1>2, <2>2
  <2> QED
    BY <1>1, <1>2, <1>3, <2>2, <2>3, <2>4 DEF m
<1>5. /\ 0 \in Datum /\ Nothing \in Datum
      /\ \A s \in Sectors : Old(s) \in Datum
  BY <1>1, <1>2, <1>3 DEF Old, Sectors, Nothing
<1> QED
  BY <1>4, <1>5

-----------------------------------------------------------------------------
(* Types, and where the drive and the driver stand *)

LEMMA InitTypes == Init => TypeInv
<1> SUFFICES ASSUME Init PROVE TypeInv
  OBVIOUS
<1> USE DEF Init
<1>1. disk \in [Sectors -> Datum]
  BY Data
<1>2. buffer \in [0..(0 - 1) -> Datum]
  BY Data
<1>3. call \in CallState
  BY <1>1, AtaAssumption DEF CallState
<1>4. drive \in DriveState
  <2>1. 0 \in Highs /\ 0 \in 0..(Lows - 1) /\ 0 \in Sectors
    BY AtaAssumption DEF Highs, Sectors
  <2> QED
    BY <2>1, Data DEF DriveState
<1>5. pc \in Label /\ polls \in 0..(Polls - 1) /\ calls \in 0..MaxCalls
  BY AtaAssumption DEF Label
<1> QED
  BY <1>1, <1>2, <1>3, <1>4, <1>5
  DEF TypeInv, Types, DriveSound, DriverSound, Ready, CallState

\* The types of what the drive is given to do.
LEMMA SetTypes ==
  ASSUME Types, NEW d \in DriveState
  PROVE  /\ \A h \in Highs : SetHigh(d, h) \in DriveState
         /\ \A l \in 0..(Lows - 1) : SetLow(d, l) \in DriveState
         /\ \A c \in {"identify", "read", "write"} : Given(d, c) \in DriveState
<1>1. /\ \A h \in Highs : SetHigh(d, h) \in DriveState
      /\ \A l \in 0..(Lows - 1) : SetLow(d, l) \in DriveState
  BY DEF SetHigh, SetLow, DriveState
<1>2. d.high * Lows + d.low \in Sectors
  BY PartsAreSector DEF DriveState
<1>3. ASSUME NEW c \in {"identify", "read", "write"}, NEW at \in Sectors
      PROVE  [d EXCEPT !.bsy = TRUE, !.err = FALSE, !.df = FALSE, !.doing = c, !.lba = at]
               \in DriveState
  BY DEF DriveState
<1>4. \A c \in {"identify", "read", "write"} : Given(d, c) \in DriveState
  BY <1>2, <1>3 DEF Given
<1> QED
  BY <1>1, <1>4

LEMMA DriveTypes == TypeInv /\ Drive => TypeInv'
<1> SUFFICES ASSUME TypeInv, Drive PROVE TypeInv'
  OBVIOUS
<1> USE DEF TypeInv
<1>1. /\ pc' = pc /\ polls' = polls /\ call' = call /\ buffer' = buffer /\ calls' = calls
      /\ DriverSound'
  BY DEF Drive, DriverSound
<1>2. drive \in DriveState /\ disk \in [Sectors -> Datum]
  BY DEF Types
<1>3. CASE DriveRequests
  BY <1>1, <1>2, <1>3 DEF DriveRequests, Types, DriveState, DriveSound, Ready
<1>4. CASE DriveWrites
  BY <1>1, <1>2, <1>4 DEF DriveWrites, Types, DriveState, DriveSound, Ready
<1>5. CASE DriveFails
  <2>1. drive' \in DriveState
    BY <1>2, <1>5 DEF DriveFails, DriveState
  <2>2. disk' \in [Sectors -> Datum]
    BY <1>2, <1>5 DEF DriveFails, DriveState
  <2>3. DriveSound'
    BY <1>2, <1>5 DEF DriveFails, DriveSound, DriveState, Ready
  <2> QED
    BY <1>1, <2>1, <2>2, <2>3 DEF Types
<1> QED
  BY <1>3, <1>4, <1>5 DEF Drive

\* A step that leaves drive and disk alone moves the driver where it may be.
LEMMA FailTypes == TypeInv /\ Fail /\ UNCHANGED <<buffer, calls, drive, disk>> => TypeInv'
<1> SUFFICES ASSUME TypeInv, Fail, UNCHANGED <<buffer, calls, drive, disk>> PROVE TypeInv'
  OBVIOUS
<1>1. /\ pc' \in {"down", "idle"} /\ polls' = 0 /\ call' \in CallState
      /\ call'.i = call.i /\ call'.count = call.count
  BY DEF Fail, Goto, TypeInv, Types, CallState
<1> QED
  BY <1>1, AtaAssumption DEF TypeInv, Types, DriveSound, DriverSound, Ready, Label

LEMMA PollTypes == TypeInv /\ PollAgain /\ UNCHANGED <<buffer, calls, drive, disk>> => TypeInv'
<1> SUFFICES ASSUME TypeInv, PollAgain, UNCHANGED <<buffer, calls, drive, disk>> PROVE TypeInv'
  OBVIOUS
<1>1. CASE Polled < Polls
  BY <1>1, AtaAssumption
  DEF PollAgain, Polled, TypeInv, Types, DriveSound, DriverSound, Ready
<1>2. CASE ~(Polled < Polls)
  BY <1>2, FailTypes DEF PollAgain
<1> QED
  BY <1>1, <1>2

LEMMA StepTypes == TypeInv /\ Driver => TypeInv'
<1> SUFFICES ASSUME TypeInv, Driver PROVE TypeInv'
  OBVIOUS
<1>0. /\ Types /\ DriveSound /\ DriverSound
      /\ drive \in DriveState /\ call \in CallState
      /\ 0 \in 0..(Polls - 1)
  BY AtaAssumption DEF TypeInv, Types
<1>1. CASE Identify
  <2>1. CASE drive.kind = "none"
    BY <1>1, <2>1, FailTypes DEF Identify
  <2>2. CASE drive.kind # "none"
    <3>1. 0 \in Highs /\ 0 \in 0..(Lows - 1)
      BY AtaAssumption DEF Highs
    <3>2. drive' \in DriveState
      BY <1>0, <1>1, <2>2, <3>1, SetTypes DEF Identify
    <3>3. DriveSound'
      BY <1>0, <1>1, <2>2
      DEF Identify, SetHigh, SetLow, Given, DriveSound, Ready, DriveState
    <3> QED
      BY <1>0, <1>1, <2>2, <3>2, <3>3
      DEF Identify, Goto, TypeInv, Types, DriverSound, Label
  <2> QED
    BY <2>1, <2>2
<1>2. CASE Signature
  <2>1. CASE drive.kind = "packet"
    BY <1>2, <2>1, FailTypes DEF Signature
  <2>2. CASE drive.kind # "packet"
    BY <1>0, <1>2, <2>2
    DEF Signature, Goto, TypeInv, Types, DriveSound, DriverSound, Ready, Label
  <2> QED
    BY <2>1, <2>2
<1>3. CASE NextSector
  <2>1. CASE Finished
    BY <1>0, <1>3, <2>1
    DEF NextSector, Goto, TypeInv, Types, DriveSound, DriverSound, Ready, Label, CallState
  <2>2. CASE ~Finished /\ call.lba + call.i > MaxLba
    BY <1>3, <2>2, FailTypes DEF NextSector
  <2>3. CASE ~Finished /\ ~(call.lba + call.i > MaxLba)
    <3>1. call.i < call.count /\ call.lba + call.i <= MaxLba
      BY <1>0, <2>3, AtaAssumption DEF Finished, CallState
    <3> QED
      BY <1>0, <1>3, <2>3, <3>1
      DEF NextSector, Goto, TypeInv, Types, DriveSound, DriverSound, Ready, Label
  <2> QED
    BY <2>1, <2>2, <2>3
<1>4. CASE Select
  <2>1. call.lba + call.i \in Sectors
    BY <1>0, <1>4, AtaAssumption DEF Select, DriverSound, CallState, Sectors
  <2>2. drive' \in DriveState
    BY <1>0, <1>4, <2>1, LbaSplits, SetTypes DEF Select
  <2>3. DriveSound'
    BY <1>0, <1>4 DEF Select, SetHigh, DriveSound, Ready, DriveState
  <2> QED
    BY <1>0, <1>4, <2>2, <2>3 DEF Select, Goto, TypeInv, Types, DriverSound, Label
<1>5. CASE PollBsy
  <2>1. CASE drive.bsy
    BY <1>5, <2>1, PollTypes DEF PollBsy
  <2>2. CASE ~drive.bsy
    BY <1>0, <1>5, <2>2
    DEF PollBsy, AfterBsy, Goto, TypeInv, Types, DriveSound, DriverSound, Ready, Label
  <2> QED
    BY <2>1, <2>2
<1>6. CASE PollDrq
  <2>1. CASE Fail \/ PollAgain
    BY <1>6, <2>1, FailTypes, PollTypes DEF PollDrq
  <2>2. CASE Goto("data") /\ UNCHANGED call
    BY <1>0, <1>6, <2>2
    DEF PollDrq, Goto, TypeInv, Types, DriveSound, DriverSound, Ready, Label
  <2> QED
    BY <1>6, <2>1, <2>2 DEF PollDrq
<1>7. CASE Issue
  <2>1. call.lba + call.i \in Sectors /\ call.op \in {"read", "write"}
    BY <1>0, <1>7, AtaAssumption DEF Issue, DriverSound, CallState, Sectors
  <2>2. drive' \in DriveState
    BY <1>0, <1>7, <2>1, LbaSplits, SetTypes DEF Issue
  <2>3. DriveSound'
    BY <1>0, <1>7, <2>1
    DEF Issue, SetLow, Given, DriveSound, Ready, DriveState
  <2> QED
    BY <1>0, <1>7, <2>1, <2>2, <2>3 DEF Issue, Goto, TypeInv, Types, DriverSound, Label
<1>8. CASE CheckStatus
  <2>1. CASE Fail
    BY <1>8, <2>1, FailTypes DEF CheckStatus
  <2>2. CASE SectorDone
    <3>1. call.i < call.count /\ call.op # "identify"
      BY <1>0, <1>8 DEF CheckStatus, DriverSound
    <3>2. call' \in CallState /\ call'.i <= call'.count /\ call'.count = call.count
          /\ call'.op = call.op
      BY <1>0, <2>2, <3>1 DEF SectorDone, CallState
    <3> QED
      BY <1>0, <1>8, <2>2, <3>1, <3>2
      DEF CheckStatus, SectorDone, Goto, TypeInv, Types, DriveSound, DriverSound, Ready, Label
  <2>3. CASE Goto(IF drive.drq THEN "data" ELSE "drq") /\ UNCHANGED call
    BY <1>0, <1>8, <2>3
    DEF CheckStatus, Goto, TypeInv, Types, DriveSound, DriverSound, Ready, Label
  <2> QED
    BY <1>8, <2>1, <2>2, <2>3 DEF CheckStatus
<1>9. CASE TransferIn
  <2>1. drive' \in DriveState /\ DriveSound'
    BY <1>0, <1>9 DEF TransferIn, DriveState, DriveSound, Ready
  <2>2. CASE call.op = "identify"
    BY <1>0, <1>9, <2>1, <2>2 DEF TransferIn, Goto, TypeInv, Types, DriverSound, Label
  <2>3. CASE call.op = "read"
    <3>1. call.i < call.count
      BY <1>0, <1>9, <2>3 DEF TransferIn, DriverSound
    <3>2. call' \in CallState /\ call'.i <= call'.count /\ call'.count = call.count
          /\ call'.op = call.op
      BY <1>0, <1>9, <2>3, <3>1 DEF TransferIn, SectorDone, CallState
    <3>3. disk[drive.lba] \in Datum /\ Nothing \in Datum
      BY <1>0, Data DEF Types, DriveState
    <3>4. buffer' \in [0..(call.count - 1) -> Datum]
      BY <1>0, <1>9, <2>3, <3>3 DEF TransferIn, Types
    <3> QED
      BY <1>0, <1>9, <2>1, <2>3, <3>2, <3>4
      DEF TransferIn, SectorDone, Goto, TypeInv, Types, DriverSound, Label
  <2> QED
    BY <1>9, <2>2, <2>3 DEF TransferIn
<1>10. CASE TransferOut
  <2>1. call.i \in 0..MaxLba
    BY <1>0, <1>10, AtaAssumption DEF TransferOut, DriverSound, CallState
  <2>2. Payload(call.i) \in Datum
    BY <1>0, <2>1, Data DEF Types
  <2>3. drive' \in DriveState
    BY <1>0, <1>10, <2>2 DEF TransferOut, DriveState
  <2>4. DriveSound'
    BY <1>0, <1>10 DEF TransferOut, DriveState, DriveSound, Ready
  <2> QED
    BY <1>0, <1>10, <2>3, <2>4 DEF TransferOut, Goto, TypeInv, Types, DriverSound, Label
<1> QED
  BY <1>1, <1>2, <1>3, <1>4, <1>5, <1>6, <1>7, <1>8, <1>9, <1>10 DEF Driver

LEMMA CallTypes ==
  ASSUME TypeInv, NEW op \in {"read", "write"}, NEW lba \in 0..(MaxLba + 1), NEW count \in Counts,
         Call(op, lba, count)
  PROVE  TypeInv'
<1>1. count \in Nat /\ 0 <= count /\ 0 \in 0..(Polls - 1)
  BY AtaAssumption
<1>2. disk \in [Sectors -> Datum] /\ calls \in 0..MaxCalls
  BY DEF TypeInv, Types
<1>3. call' \in CallState /\ call'.i = 0 /\ call'.count = count /\ call'.op = op
  BY <1>1, <1>2 DEF Call, CallState, Ready
<1>4. buffer' \in [0..(count - 1) -> Datum]
  BY Data DEF Call
<1>5. calls' \in 0..MaxCalls
  BY <1>2, AtaAssumption DEF Call
<1> QED
  BY <1>1, <1>2, <1>3, <1>4, <1>5
  DEF Call, Goto, TypeInv, Types, DriveSound, DriverSound, Ready, Label

LEMMA NextTypes == TypeInv /\ [Next]_vars => TypeInv'
<1> SUFFICES ASSUME TypeInv, [Next]_vars PROVE TypeInv'
  OBVIOUS
<1>1. CASE UNCHANGED vars
  BY <1>1 DEF vars, TypeInv, Types, DriveSound, DriverSound, Ready
<1> QED
  BY <1>1, StepTypes, DriveTypes, CallTypes DEF Next

-----------------------------------------------------------------------------
(* Calls keep their word *)

\* A call that begins has nothing done yet, and the drive nothing to do.
LEMMA CallKept ==
  ASSUME TypeInv, NEW op \in {"read", "write"}, NEW lba \in 0..(MaxLba + 1), NEW count \in Counts,
         Call(op, lba, count), OnDuty'
  PROVE  Kept'
<1>1. /\ drive' = drive /\ disk' = disk /\ pc' \in {"idle", "next"}
      /\ call'.i = 0 /\ call'.disk = disk /\ call'.result # "true"
      /\ Ready
  BY DEF Call, Goto, OnDuty, Ready
<1>2. drive.doing = "none" /\ ~drive.full
  BY <1>1 DEF TypeInv, DriveSound, Ready
<1>3. InStep'
  BY <1>1, <1>2 DEF InStep
<1>4. OthersKept' /\ DoneRead' /\ DoneWritten'
  BY <1>1 DEF OthersKept, DoneRead, DoneWritten
<1> QED
  BY <1>3, <1>4 DEF Kept

\* The drive writes no sector but the one the call is at.
LEMMA DriveKept == TypeInv /\ OnDuty /\ Kept /\ Drive => Kept'
<1> SUFFICES ASSUME TypeInv, OnDuty, Kept, Drive PROVE Kept'
  OBVIOUS
<1>0. /\ drive \in DriveState /\ call \in CallState /\ call.i <= call.count
      /\ disk \in [Sectors -> Datum] /\ DriveSound /\ DriverSound /\ InStep
      /\ pc' = pc /\ call' = call /\ buffer' = buffer /\ calls' = calls
      /\ drive.bsy /\ drive.doing # "none"
  BY DEF TypeInv, Types, Kept, Drive, DriveRequests, DriveWrites, DriveFails, DriveSound, Ready
<1>1. CASE disk' = disk /\ ~DriveWrites
  <2>1. InStep'
    BY <1>0, <1>1
    DEF Drive, DriveRequests, DriveFails, InStep, DriveSound, DriverSound, Ready, Faulty, Stored,
        Here, Payload, DriveState
  <2>2. OthersKept' /\ DoneRead' /\ DoneWritten'
    BY <1>0, <1>1 DEF Kept, OthersKept, Named, DoneRead, DoneWritten, Payload
  <2> QED
    BY <2>1, <2>2 DEF Kept
<1>2. CASE drive.full /\ disk' = [disk EXCEPT ![drive.lba] = drive.data]
  <2>1. /\ call.op = "write" /\ drive.data = Payload(call.i) /\ drive.lba = Here
        /\ Here \in Sectors /\ call.i < call.count
    BY <1>0, <1>2 DEF InStep, DriveSound, DriveState
  <2>2. Stored'
    BY <1>0, <1>2, <2>1 DEF Stored, Here, Payload
  <2>3. drive'.doing = "none" /\ ~drive'.full /\ ~drive'.bsy
    BY <1>0, <1>2 DEF Drive, DriveRequests, DriveWrites, DriveFails, DriveState
  <2>4. InStep'
    <3>1. pc \in {"idle", "written"} \/ pc \notin {"next", "select", "ready", "issue", "busy",
                                                    "drq", "data", "status"}
      BY <1>0, <1>2, <2>1 DEF InStep, DriveSound, DriverSound
    <3>2. call.result # "true"
      BY <1>0 DEF InStep
    <3> QED
      BY <1>0, <2>2, <2>3, <3>1, <3>2 DEF InStep
  <2>5. OthersKept'
    BY <1>0, <1>2, <2>1 DEF Kept, OthersKept, Named, Here, CallState, Sectors
  <2>6. DoneWritten'
    <3> SUFFICES ASSUME NEW i \in 0..(call.i - 1)
                 PROVE  disk'[call.lba + i] = Payload(i)
      BY <1>0 DEF DoneWritten, Payload
    <3>1. call.lba + i # Here
      BY <1>0 DEF Here, CallState
    <3> QED
      BY <1>0, <1>2, <2>1, <3>1 DEF Kept, DoneWritten
  <2>7. DoneRead'
    BY <1>0, <2>1 DEF DoneRead
  <2> QED
    BY <2>4, <2>5, <2>6, <2>7 DEF Kept
<1> QED
  BY <1>1, <1>2 DEF Drive, DriveRequests, DriveWrites, DriveFails

LEMMA FailKept ==
  ASSUME TypeInv, OnDuty, Kept, Fail, UNCHANGED <<buffer, calls, drive, disk>>
  PROVE  Kept'
<1>1. /\ pc' = "idle" /\ call' = [call EXCEPT !.result = "false"] /\ call \in CallState
      /\ DriveSound
  BY DEF Fail, Goto, OnDuty, TypeInv, Types
<1>2. InStep'
  BY <1>1 DEF Kept, InStep, Here, Payload, CallState
<1>3. OthersKept' /\ DoneRead' /\ DoneWritten'
  BY <1>1 DEF Kept, OthersKept, Named, DoneRead, DoneWritten, Payload, CallState
<1> QED
  BY <1>2, <1>3 DEF Kept

LEMMA PollKept ==
  ASSUME TypeInv, OnDuty, Kept, PollAgain, UNCHANGED <<buffer, calls, drive, disk>>
  PROVE  Kept'
<1>1. CASE pc' = pc /\ call' = call
  BY <1>1
  DEF Kept, InStep, OthersKept, Named, DoneRead, DoneWritten, Here, Stored, Faulty, Payload
<1>2. CASE Fail
  BY <1>2, FailKept
<1> QED
  BY <1>1, <1>2 DEF PollAgain

\* A step that touches neither the disk nor what is counted leaves the rest as it was.
LEMMA CountKept ==
  ASSUME Kept, UNCHANGED <<buffer, calls, disk>>, call'.op = call.op, call'.lba = call.lba,
         call'.count = call.count, call'.i = call.i, call'.disk = call.disk
  PROVE  OthersKept' /\ DoneRead' /\ DoneWritten'
BY DEF Kept, OthersKept, Named, DoneRead, DoneWritten, Payload

LEMMA StepKept == TypeInv /\ OnDuty /\ Kept /\ Driver => Kept'
<1> SUFFICES ASSUME TypeInv, OnDuty, Kept, Driver PROVE Kept'
  OBVIOUS
<1>0. /\ drive \in DriveState /\ call \in CallState /\ call.i <= call.count
      /\ disk \in [Sectors -> Datum] /\ buffer \in [0..(call.count - 1) -> Datum]
      /\ DriveSound /\ DriverSound /\ InStep
      /\ call.op \in {"read", "write"}
      /\ call.lba \in Nat /\ call.i \in Nat /\ call.count \in Nat /\ MaxLba \in Nat
  BY AtaAssumption DEF TypeInv, Types, Kept, OnDuty, CallState
<1>1. CASE Identify \/ Signature
  BY <1>0, <1>1 DEF Identify, Signature, DriverSound
<1>2. CASE NextSector
  <2>1. CASE Finished
    <3>1. call.i = call.count /\ drive.doing = "none" /\ ~drive.full
      BY <1>0, <1>2, <2>1 DEF Finished, NextSector, InStep, DriveSound
    <3>2. InStep'
      BY <1>0, <1>2, <2>1, <3>1 DEF NextSector, Goto, InStep, CallState
    <3> QED
      BY <1>0, <1>2, <2>1, <3>2, CountKept DEF NextSector, Kept, CallState
  <2>2. CASE Fail
    BY <1>2, <2>2, FailKept DEF NextSector
  <2>3. CASE Goto("select") /\ UNCHANGED call
    <3>1. InStep'
      BY <1>0, <1>2, <2>3 DEF NextSector, Goto, InStep, Payload
    <3> QED
      BY <1>2, <2>3, <3>1, CountKept DEF NextSector, Kept
  <2> QED
    BY <1>2, <2>1, <2>2, <2>3 DEF NextSector
<1>3. CASE Select
  <2>1. Ready /\ drive.doing = "none" /\ ~drive.full /\ Here \in Sectors
    BY <1>0, <1>3 DEF Select, InStep, DriveSound, DriverSound, Here, Sectors
  <2>2. drive' = [drive EXCEPT !.high = Here \div Lows]
    BY <1>3, <2>1 DEF Select, SetHigh, Here
  <2>3. InStep'
    BY <1>0, <1>3, <2>1, <2>2 DEF Select, Goto, InStep, DriveState, Here
  <2> QED
    BY <1>3, <2>3, CountKept DEF Select, Kept
<1>4. CASE PollBsy
  <2>1. CASE drive.bsy
    BY <1>4, <2>1, PollKept DEF PollBsy
  <2>2. CASE ~drive.bsy
    <3>1. pc' = AfterBsy[pc] /\ pc \in {"ready", "busy", "written"}
      BY <1>0, <1>4, <2>2 DEF PollBsy, Goto, AfterBsy, DriverSound
    <3>2. InStep'
      BY <1>0, <1>4, <2>2, <3>1
      DEF PollBsy, AfterBsy, InStep, DriveSound, DriverSound, Ready, Faulty, Stored, Here, Payload
    <3> QED
      BY <1>4, <2>2, <3>2, CountKept DEF PollBsy, Kept
  <2> QED
    BY <2>1, <2>2
<1>5. CASE PollDrq
  <2>1. CASE Fail \/ PollAgain
    BY <1>5, <2>1, FailKept, PollKept DEF PollDrq
  <2>2. CASE Goto("data") /\ UNCHANGED call /\ drive.drq
    <3>1. InStep'
      BY <1>0, <1>5, <2>2 DEF PollDrq, Goto, InStep, Here, Payload
    <3> QED
      BY <1>5, <2>2, <3>1, CountKept DEF PollDrq, Kept
  <2> QED
    BY <1>5, <2>1, <2>2 DEF PollDrq
<1>6. CASE Issue
  <2>1. Ready /\ drive.doing = "none" /\ ~drive.full /\ Here \in Sectors
    <3>1. call.lba + call.i <= MaxLba
      BY <1>0, <1>6 DEF Issue, DriverSound
    <3>2. Here \in Sectors
      BY <1>0, <3>1 DEF Here, Sectors
    <3>3. drive.doing = "none"
      BY <1>0, <1>6 DEF Issue, InStep
    <3> QED
      BY <1>0, <3>2, <3>3 DEF DriveSound
  <2>2. drive.high = Here \div Lows
    BY <1>0, <1>6 DEF Issue, InStep
  <2>3. drive.high * Lows + (Here % Lows) = Here
    BY <2>1, <2>2, LbaSplits
  <2>4. /\ drive'.doing = call.op /\ drive'.lba = Here /\ drive'.full = drive.full
        /\ drive'.data = drive.data
    BY <1>0, <1>6, <2>1, <2>3 DEF Issue, SetLow, Given, Ready, Here, DriveState
  <2>5. call.i < call.count /\ call.result # "true"
    BY <1>0, <1>6 DEF Issue, DriverSound, InStep
  <2>6. InStep'
    BY <1>0, <1>6, <2>1, <2>4, <2>5 DEF Issue, Goto, InStep, Here
  <2> QED
    BY <1>6, <2>6, CountKept DEF Issue, Kept
<1>7. CASE CheckStatus
  <2>1. CASE Fail
    BY <1>7, <2>1, FailKept DEF CheckStatus
  <2>2. CASE SectorDone /\ call.op = "write" /\ ~Faulty
    <3>1. drive.doing = "none" /\ ~drive.full /\ Stored
      BY <1>0, <1>7, <2>2 DEF CheckStatus, InStep, DriveSound
    <3>2. call' = [call EXCEPT !.i = call.i + 1] /\ pc' = "next"
      BY <2>2 DEF SectorDone, Goto
    <3>3. InStep'
      BY <1>0, <1>7, <3>1, <3>2 DEF CheckStatus, InStep, CallState
    <3>4. DoneWritten'
      BY <1>0, <1>7, <3>1, <3>2
      DEF CheckStatus, Kept, DoneWritten, Stored, Here, Payload, CallState
    <3>5. OthersKept' /\ DoneRead'
      BY <1>0, <1>7, <2>2, <3>2
      DEF CheckStatus, Kept, OthersKept, Named, DoneRead, CallState
    <3> QED
      BY <3>3, <3>4, <3>5 DEF Kept
  <2>3. CASE Goto(IF drive.drq THEN "data" ELSE "drq") /\ UNCHANGED call /\ ~Faulty
             /\ call.op = "read"
    <3>1. drive.drq
      BY <1>0, <1>7, <2>3 DEF CheckStatus, InStep
    <3>2. InStep'
      BY <1>0, <1>7, <2>3, <3>1 DEF CheckStatus, Goto, InStep, Here, Payload
    <3> QED
      BY <1>7, <2>3, <3>2, CountKept DEF CheckStatus, Kept
  <2> QED
    BY <1>0, <1>7, <2>1, <2>2, <2>3 DEF CheckStatus, StatusBad
<1>8. CASE TransferIn
  <2>1. /\ drive.drq /\ drive.doing = "read" /\ drive.lba = Here /\ call.op = "read"
        /\ call.i < call.count /\ ~drive.full
    BY <1>0, <1>8 DEF TransferIn, InStep, DriveSound, Ready
  <2>2. /\ call' = [call EXCEPT !.i = call.i + 1] /\ pc' = "next"
        /\ drive' = [drive EXCEPT !.drq = FALSE, !.doing = "none"]
        /\ buffer' = [buffer EXCEPT ![call.i] = disk[Here]]
        /\ calls' = calls /\ disk' = disk
    BY <1>8, <2>1 DEF TransferIn, SectorDone, Goto
  <2>3. InStep'
    BY <1>0, <1>8, <2>1, <2>2 DEF TransferIn, InStep, CallState, DriveState
  <2>4. DoneRead'
    BY <1>0, <2>1, <2>2 DEF Kept, DoneRead, Here, CallState
  <2>5. OthersKept' /\ DoneWritten'
    BY <1>0, <2>1, <2>2 DEF Kept, OthersKept, Named, DoneWritten, CallState
  <2> QED
    BY <2>3, <2>4, <2>5 DEF Kept
<1>9. CASE TransferOut
  <2>1. drive.drq /\ drive.doing = "write" /\ drive.lba = Here /\ call.i < call.count
    BY <1>0, <1>9 DEF TransferOut, InStep, DriveSound, Ready
  <2>2. /\ drive' = [drive EXCEPT !.bsy = TRUE, !.drq = FALSE, !.full = TRUE,
                                  !.data = Payload(call.i)]
        /\ pc' = "written" /\ call.result # "true"
    BY <1>0, <1>9, <2>1 DEF TransferOut, Goto, InStep
  <2>3. InStep'
    BY <1>0, <1>9, <2>1, <2>2 DEF TransferOut, InStep, DriveState, Here, Payload
  <2> QED
    BY <1>9, <2>3, CountKept DEF TransferOut, Kept
<1> QED
  BY <1>1, <1>2, <1>3, <1>4, <1>5, <1>6, <1>7, <1>8, <1>9 DEF Driver

LEMMA InvInductive == Inv /\ [Next]_vars => Inv'
<1> SUFFICES ASSUME Inv, [Next]_vars PROVE Inv'
  OBVIOUS
<1>1. TypeInv'
  BY NextTypes DEF Inv
<1>2. OnDuty' => Kept'
  <2> SUFFICES ASSUME OnDuty' PROVE Kept'
    OBVIOUS
  <2>1. CASE UNCHANGED vars
    <3>1. OnDuty /\ Kept
      BY <2>1 DEF Inv, OnDuty, vars
    <3> QED
      BY <2>1, <3>1
      DEF vars, Kept, InStep, OthersKept, Named, DoneRead, DoneWritten, Here, Stored, Faulty,
          Payload
  <2>2. CASE Driver \/ Drive
    <3>1. OnDuty
      BY <2>2
      DEF OnDuty, Inv, TypeInv, Types, CallState, Driver, Drive, Identify, Signature, NextSector,
          Select, PollBsy, PollDrq, Issue, CheckStatus, TransferIn, TransferOut, PollAgain, Fail,
          SectorDone
    <3> QED
      BY <2>2, <3>1, StepKept, DriveKept DEF Inv
  <2>3. ASSUME NEW op \in {"read", "write"}, NEW lba \in 0..(MaxLba + 1), NEW count \in Counts,
               Call(op, lba, count)
        PROVE  Kept'
    BY <2>3, CallKept DEF Inv
  <2> QED
    BY <2>1, <2>2, <2>3 DEF Next
<1> QED
  BY <1>1, <1>2 DEF Inv

LEMMA InvHolds == Spec => []Inv
<1>1. Init => Inv
  <2> SUFFICES ASSUME Init PROVE Inv
    OBVIOUS
  <2>1. call.op = "identify"
    BY DEF Init
  <2> QED
    BY <2>1, InitTypes DEF Inv, OnDuty
<1> QED
  BY <1>1, InvInductive, PTL DEF Spec

\* On a disk of any size, for calls of any number and length and waits of any
\* length, the driver's locals and the drive's registers keep their types: no
\* call goes past the sectors it was asked for or past the last LBA, so that the
\* drive is never given a sector outside the disk (ata_read, ata_write).
THEOREM AtaTypeCorrect == Spec => []TypeOK
<1>1. Inv => TypeOK
  <2> SUFFICES ASSUME Inv PROVE TypeOK
    OBVIOUS
  <2>1. Types
    BY DEF Inv, TypeInv
  <2>2. call.i \in 0..call.count
    BY <2>1 DEF Types, CallState
  <2>3. DOMAIN AfterBsy = {"ready", "busy", "written", "identify"}
    BY DEF AfterBsy
  <2>4. pc \in {"boot", "down", "idle", "next", "select", "issue", "signature", "status", "drq",
                "data"} \cup DOMAIN AfterBsy
    BY <2>1, <2>3 DEF Types, Label
  <2> QED
    BY <2>1, <2>2, <2>4 DEF TypeOK, Types, CallState, DriveState
<1> QED
  BY <1>1, InvHolds, PTL

\* On such a disk, and whatever the drive answers or when, a call that finds the
\* drive done with its commands reads what the sectors hold, or leaves in them
\* what it was given, for every sector it counts as done, counts all of them when
\* it returns true, and changes no other sector, then or later (ata_read,
\* ata_write and their sector loops).
THEOREM AtaCallsKeepWord == Spec => []CallsKeepWord
<1>1. Inv => CallsKeepWord
  <2> SUFFICES ASSUME Inv, OnDuty PROVE CallsKeepWord
    BY DEF CallsKeepWord, OnDuty
  <2>1. Kept /\ call.op \in {"read", "write"}
    BY DEF Inv, TypeInv, Types, CallState, OnDuty
  <2>2. \A s \in Sectors \ {t \in Sectors : t >= call.lba /\ t < call.lba + call.count} :
          disk[s] = call.disk[s]
    BY <2>1 DEF Kept, OthersKept, Named
  <2>3. \A i \in 0..(call.i - 1) :
          disk[call.lba + i] = IF call.op = "write" THEN Payload(i) ELSE buffer[i]
    BY <2>1 DEF Kept, DoneRead, DoneWritten
  <2>4. call.result = "true" => call.i = call.count
    BY <2>1 DEF Kept, InStep
  <2> QED
    BY <2>2, <2>3, <2>4 DEF CallsKeepWord
<1> QED
  BY <1>1, InvHolds, PTL

=============================================================================
