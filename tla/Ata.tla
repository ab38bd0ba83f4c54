-------------------------------- MODULE Ata --------------------------------
(* The ATA PIO driver, drivers/ata/ata.c: identify at boot, then calls to    *)
(* read and write sectors one by one, each by polling the status register a  *)
(* bounded number of times.  A poll that runs out returns an error and       *)
(* leaves the command with the drive, which may answer it at any later time. *)
(*                                                                           *)
(* The drive is external: registers that it does not take while BSY or DRQ   *)
(* is set, a command it may answer with data, ERR or DF, or never.  It shows *)
(* BSY as soon as it has a command.  The 256 words of a sector move in one   *)
(* step: the drive keeps DRQ up until the last of them.                      *)
(* Left out: ata_last_status and ata_last_error, which are only printed.     *)
EXTENDS Naturals

CONSTANTS
  Lows,       \* LBA values of the three LBA registers (2^24)
  MaxLba,     \* the last sector of LBA28 (0x0FFFFFFF)
  Polls,      \* reads of the status register before a wait gives up (1000000)
  Counts,     \* how many sectors a call asks for
  MaxCalls    \* bound on the calls

ASSUME AtaAssumption ==
  /\ Lows \in Nat \ {0} /\ MaxLba \in Nat /\ (MaxLba + 1) % Lows = 0
  /\ Polls \in Nat \ {0} /\ Counts \subseteq Nat /\ MaxCalls \in Nat

VARIABLES
  pc, polls,  \* where the driver is
  call,       \* the arguments and locals of the call in progress
  buffer,     \* what a read has delivered
  calls,
  drive,      \* the drive's registers and what it is doing
  disk        \* the sectors
vars == <<pc, polls, call, buffer, calls, drive, disk>>

Sectors == 0..MaxLba
Nothing == 0
\* What a sector held at boot, and what the i-th sector of a call brings.
Old(s) == s + 1
Payload(i) == calls * (MaxLba + 2) + MaxLba + 1 + i
Datum == 0..((MaxCalls + 1) * (MaxLba + 2) + MaxLba)

Ready == ~drive.bsy /\ ~drive.drq
Faulty == drive.err \/ drive.df

-----------------------------------------------------------------------------
(* The drive *)

\* The registers drive and LBA low, mid, high.
SetHigh(d, value) == IF Ready THEN [d EXCEPT !.high = value] ELSE d
SetLow(d, value) == IF Ready THEN [d EXCEPT !.low = value] ELSE d

\* A command that comes while BSY or DRQ is set is ignored.
Given(d, command) ==
  IF Ready
  THEN [d EXCEPT !.bsy = TRUE, !.err = FALSE, !.df = FALSE,
                 !.doing = command, !.lba = d.high * Lows + d.low]
  ELSE d

\* The drive asks for the data of a write, or offers those of a read.
DriveRequests ==
  /\ drive.bsy /\ ~drive.full
  /\ drive' = [drive EXCEPT !.bsy = FALSE, !.drq = TRUE]
  /\ UNCHANGED disk

DriveWrites ==
  /\ drive.bsy /\ drive.full
  /\ disk' = [disk EXCEPT ![drive.lba] = drive.data]
  /\ drive' = [drive EXCEPT !.bsy = FALSE, !.full = FALSE, !.doing = "none"]

\* An error or a fault; what was to be written may be on the disk nevertheless.
DriveFails ==
  /\ drive.bsy
  /\ \E fault \in BOOLEAN :
       drive' = [drive EXCEPT !.bsy = FALSE, !.full = FALSE, !.doing = "none",
                              !.df = fault, !.err = ~fault]
  /\ \/ UNCHANGED disk
     \/ drive.full /\ disk' = [disk EXCEPT ![drive.lba] = drive.data]

Drive == /\ DriveRequests \/ DriveWrites \/ DriveFails
         /\ UNCHANGED <<pc, polls, call, buffer, calls>>

-----------------------------------------------------------------------------
(* The driver *)

Goto(label) == pc' = label /\ polls' = 0

\* ata_initialize fails: the kernel stops.  A sector call fails: so does the call.
Fail ==
  IF call.op = "identify" THEN Goto("down") /\ UNCHANGED call
  ELSE Goto("idle") /\ call' = [call EXCEPT !.result = "false"]

\* Mutant: the loop variable is too narrow to reach the limit.
PolledNarrow == polls
Polled == polls + 1

\* One more read of the status register, or the end of the loop.
PollAgain ==
  IF Polled < Polls THEN polls' = Polled /\ UNCHANGED <<pc, call>> ELSE Fail

\* What follows ata_wait_bsy, in the order of the waits.
AfterBsy ==
  [ready |-> "issue", busy |-> "status", written |-> "status", identify |-> "signature"]

PollBsy ==
  /\ pc \in DOMAIN AfterBsy
  /\ IF drive.bsy THEN PollAgain ELSE Goto(AfterBsy[pc]) /\ UNCHANGED call
  /\ UNCHANGED <<buffer, calls, drive, disk>>

PollDrq ==
  /\ pc = "drq"
  /\ IF Faulty THEN Fail
     ELSE IF drive.drq /\ ~drive.bsy THEN Goto("data") /\ UNCHANGED call
     ELSE PollAgain
  /\ UNCHANGED <<buffer, calls, drive, disk>>

\* ata_identify: no drive answers zero at once.
Identify ==
  /\ pc = "boot"
  /\ IF drive.kind = "none" THEN Fail /\ UNCHANGED drive
     ELSE /\ Goto("identify") /\ UNCHANGED call
          /\ drive' = Given(SetLow(SetHigh(drive, 0), 0), "identify")
  /\ UNCHANGED <<buffer, calls, disk>>

\* A packet device leaves its signature in LBA mid and high.
Signature ==
  /\ pc = "signature"
  /\ IF drive.kind = "packet" THEN Fail ELSE Goto("drq") /\ UNCHANGED call
  /\ UNCHANGED <<buffer, calls, drive, disk>>

\* ata_read and ata_write, by a caller of the block device.
Call(op, lba, count) ==
  /\ pc = "idle" /\ calls < MaxCalls
  /\ calls' = calls + 1
  /\ call' = [op |-> op, lba |-> lba, count |-> count, i |-> 0, ready |-> Ready, disk |-> disk,
              result |-> IF lba > MaxLba THEN "false" ELSE "none"]
  /\ buffer' = [i \in 0..(count - 1) |-> Nothing]
  /\ Goto(IF lba > MaxLba THEN "idle" ELSE "next")
  /\ UNCHANGED <<drive, disk>>

\* Mutant: the loop runs once more.
FinishedLate == call.i > call.count
Finished == call.i >= call.count

NextSector ==
  /\ pc = "next"
  /\ IF Finished THEN Goto("idle") /\ call' = [call EXCEPT !.result = "true"]
     ELSE IF call.lba + call.i > MaxLba THEN Fail
     ELSE Goto("select") /\ UNCHANGED call
  /\ UNCHANGED <<buffer, calls, drive, disk>>

\* The high bits of the LBA go with the selection, before the wait.
Select ==
  /\ pc = "select"
  /\ drive' = SetHigh(drive, (call.lba + call.i) \div Lows)
  /\ Goto("ready")
  /\ UNCHANGED <<call, buffer, calls, disk>>

Issue ==
  /\ pc = "issue"
  /\ drive' = Given(SetLow(drive, (call.lba + call.i) % Lows), call.op)
  /\ Goto(IF call.op = "read" THEN "busy" ELSE "drq")
  /\ UNCHANGED <<call, buffer, calls, disk>>

SectorDone == Goto("next") /\ call' = [call EXCEPT !.i = @ + 1]

\* Mutant: a device fault is no error.
StatusBadErrOnly == drive.err
StatusBad == Faulty

\* The status behind a wait for BSY.
CheckStatus ==
  /\ pc = "status"
  /\ IF StatusBad THEN Fail
     ELSE IF call.op = "write" THEN SectorDone
     ELSE Goto(IF drive.drq THEN "data" ELSE "drq") /\ UNCHANGED call
  /\ UNCHANGED <<buffer, calls, drive, disk>>

\* The drive has no data for a driver that reads while it waits for data.
TransferIn ==
  /\ pc = "data" /\ call.op \in {"read", "identify"}
  /\ LET offers == drive.drq /\ drive.doing \in {"read", "identify"} IN
     /\ drive' = IF offers THEN [drive EXCEPT !.drq = FALSE, !.doing = "none"] ELSE drive
     /\ IF call.op = "identify"
        THEN Goto("idle") /\ UNCHANGED <<call, buffer>>
        ELSE /\ SectorDone
             /\ buffer' = [buffer EXCEPT ![call.i] =
                             IF offers /\ drive.doing = "read" THEN disk[drive.lba] ELSE Nothing]
  /\ UNCHANGED <<calls, disk>>

\* Words sent to a drive that wants to be read are lost.
TransferOut ==
  /\ pc = "data" /\ call.op = "write"
  /\ drive' = IF drive.drq /\ drive.doing = "write"
              THEN [drive EXCEPT !.bsy = TRUE, !.drq = FALSE, !.full = TRUE,
                                 !.data = Payload(call.i)]
              ELSE drive
  /\ Goto("written")
  /\ UNCHANGED <<call, buffer, calls, disk>>

-----------------------------------------------------------------------------
Init ==
  /\ pc = "boot" /\ polls = 0 /\ calls = 0 /\ buffer = [i \in 0..(0 - 1) |-> Nothing]
  /\ disk = [s \in Sectors |-> Old(s)]
  /\ call = [op |-> "identify", lba |-> 0, count |-> 0, i |-> 0, ready |-> TRUE, disk |-> disk,
             result |-> "none"]
  /\ \E kind \in {"disk", "packet", "none"} :
       drive = [kind |-> kind, bsy |-> FALSE, drq |-> FALSE, err |-> FALSE, df |-> FALSE,
                doing |-> "none", high |-> 0, low |-> 0, lba |-> 0, full |-> FALSE, data |-> 0]

Driver ==
  \/ Identify \/ Signature \/ NextSector \/ Select \/ PollBsy \/ PollDrq \/ Issue
  \/ CheckStatus \/ TransferIn \/ TransferOut

Next ==
  \/ Driver \/ Drive
  \/ \E op \in {"read", "write"}, lba \in 0..(MaxLba + 1), count \in Counts : Call(op, lba, count)

\* The driver runs on.  Nothing is assumed of the drive.
Spec == Init /\ [][Next]_vars /\ WF_vars(Driver)

-----------------------------------------------------------------------------
(* Properties *)

\* Types; a call never goes past the sectors it was asked for, nor a wait past
\* its polls (ata_read, ata_write, ata_wait_bsy, ata_wait_drq).
TypeOK ==
  /\ pc \in {"boot", "down", "idle", "next", "select", "issue", "signature", "status", "drq",
             "data"} \cup DOMAIN AfterBsy
  /\ polls \in 0..(Polls - 1)
  /\ call.op \in {"identify", "read", "write"} /\ call.lba \in 0..(MaxLba + 1)
  /\ call.i \in 0..call.count /\ call.result \in {"none", "true", "false"}
  /\ calls \in 0..MaxCalls
  /\ {drive.bsy, drive.drq, drive.err, drive.df, drive.full} \subseteq BOOLEAN
  /\ drive.doing \in {"none", "identify", "read", "write"} /\ drive.lba \in Sectors
  /\ disk \in [Sectors -> Datum] /\ buffer \in [0..(call.count - 1) -> Datum]

\* A call that finds the drive done with the commands before it keeps its word:
\* if it returns true it has read what the sectors hold, or they hold what it
\* wrote; if it returns false those it counted as done do; and no sector but
\* those it named changes, not even by a command it gave up on that the drive
\* completes after it returned (ata_read, ata_write and their sector loops).
CallsKeepWord ==
  call.ready /\ call.op # "identify" =>
    LET named == {s \in Sectors : s >= call.lba /\ s < call.lba + call.count} IN
    /\ \A s \in Sectors \ named : disk[s] = call.disk[s]
    /\ \A i \in 0..(call.i - 1) :
         disk[call.lba + i] = IF call.op = "write" THEN Payload(i) ELSE buffer[i]
    /\ call.result = "true" => call.i = call.count

\* Every call and the identification return, whatever the drive does or fails
\* to do, after a bounded number of polls (ata_wait_bsy, ata_wait_drq).
CallsReturn == pc \notin {"idle", "down"} ~> pc \in {"idle", "down"}

=============================================================================
