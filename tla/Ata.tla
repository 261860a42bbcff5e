--------------------------------- MODULE Ata ---------------------------------
(***************************************************************************)
(* The disk driver of drivers/storage/ata.c and the devices it talks to:   *)
(* programmed I/O on two channels of two positions each.                   *)
(*                                                                         *)
(* The driver takes one step from one look at a status to the next.  The   *)
(* devices, which are not part of the code, answer in between: a device is *)
(* BUSY from the moment it gets a command, offers or asks for one sector   *)
(* after the other (DRQ) and may fail at any of them.  What a device does  *)
(* with a command it gets before it is done with the last is not defined.  *)
(* The observers ideal and trusted say what the disks should hold, and     *)
(* whether all went by the rules so far.                                   *)
(***************************************************************************)
EXTENDS Integers, Sequences

CONSTANTS
    Disks,          \* the positions with a disk
    PacketDevices,  \* the positions with a device that refuses IDENTIFY
    DiskSectors,    \* sectors of a disk
    LBA_SPACE,      \* sectors that 28 bits of LBA can name (2^28)
    COUNT_SPACE,    \* values of the 8-bit sector count register (256)
    Words,          \* what sectors are filled with
    Blank, Garbage, \* what an unwritten sector holds, and any other value
    Starts, Counts  \* lba and sectors of the calls

\* A position is a channel and a drive on it; storage_init probes them in order.
Channels == {"primary", "secondary"}
Probed == << <<"primary", 0>>, <<"primary", 1>>, <<"secondary", 0>>, <<"secondary", 1>> >>
Positions == Channels \X {0, 1}

\* Of a sector one word is kept, as the bytes that cross the port first and second.
Swapped(word) == <<word[2], word[1]>>
Contents == Words \cup {Blank}
Transferred == Contents \cup {Swapped(word) : word \in Contents} \cup {Garbage}

Lbas == 0 .. DiskSectors - 1

ASSUME AtaAssumption ==
    /\ Disks \subseteq Positions /\ PacketDevices \subseteq Positions \ Disks
    /\ LBA_SPACE \in Nat /\ DiskSectors \in 1 .. LBA_SPACE
    /\ COUNT_SPACE \in Nat \ {0}
    /\ \A word \in Words \cup {Blank, Garbage} : Len(word) = 2
    /\ Starts \subseteq Nat /\ Counts \subseteq Nat

VARIABLES
    devices,        \* devices[0] .. devices[device_count - 1], as positions
    pc,             \* where the driver is
    probe,          \* the place in Probed storage_init is at
    call,           \* the call of storage_read or storage_write, or the last
    channel,        \* per channel: the registers, and what the device is at
    disk,           \* what the sectors of the disks hold
    in_order,       \* the compiler reads the two bytes of a word in order
    ideal,          \* observer: what the disks should hold
    settled,        \* observer: no device got a command before its last was done
    trusted         \* observer: nor did one fail, nor a call exceed the registers

driver_vars == <<devices, pc, probe, call>>
device_vars == <<channel, disk>>
ata_vars == <<driver_vars, device_vars, in_order, ideal, settled, trusted>>

Call ==
    [op : {"none", "read", "write"}, device : 0 .. 4, lba : Starts \cup {0},
     count : Counts \cup {0},
     buffer : UNION {[1 .. n -> Transferred] : n \in Counts \cup {0}},
     done : Nat]

Registers ==
    [status : {"NONE", "IDLE", "BUSY", "DRQ", "ERR"},
     command : {"none", "identify", "read", "write"},
     drive : {0, 1}, lba : 0 .. LBA_SPACE + COUNT_SPACE, left : 0 .. COUNT_SPACE]

AtaTypeOK ==
    /\ devices \in Seq(Positions) /\ Len(devices) <= 4
    /\ pc \in {"idle", "probe", "identify", "transfer"}
    /\ probe \in 1 .. 4
    /\ call \in Call
    /\ pc = "transfer" => call.done < call.count
    /\ channel \in [Channels -> Registers]
    /\ disk \in [Disks -> [Lbas -> Contents]]
    /\ in_order \in BOOLEAN
    /\ ideal \in [Disks -> [Lbas -> Contents]]
    /\ settled \in BOOLEAN
    /\ trusted \in BOOLEAN /\ (trusted => settled)

\* The registers of a channel whose device has nothing to do: nobody reads them but
\* for the status.
Quiet(status) ==
    [status |-> status, command |-> "none", drive |-> 0, lba |-> 0, left |-> 0]

Blanks == [p \in Disks |-> [l \in Lbas |-> Blank]]

AtaInit ==
    /\ devices = << >>
    /\ pc = "idle"
    /\ probe = 1
    /\ call = [op |-> "none", device |-> 0, lba |-> 0, count |-> 0,
               buffer |-> << >>, done |-> 0]
    /\ channel = [c \in Channels |-> Quiet("IDLE")]
    /\ disk = Blanks
    /\ in_order \in BOOLEAN
    /\ ideal = Blanks
    /\ settled = TRUE
    /\ trusted = TRUE

-----------------------------------------------------------------------------
\* The device on channel c has done with its last command.
Settled(c) == channel[c].status \notin {"BUSY", "DRQ"}

\* Mutant: the drive of the channel is not selected again.
FirstDrive(p) == 0

DriveOf(p) == p[2]

\* The outb sequence of a command for position p.  Its device is BUSY at once; where
\* there is none the status reads 0.  A device that has not done with its last
\* command may drop the new one.
Issue(p, command, lba, count) ==
    LET c == p[1]
        registers ==
            [status |-> IF <<c, DriveOf(p)>> \in Disks \cup PacketDevices
                        THEN "BUSY" ELSE "NONE",
             command |-> command, drive |-> DriveOf(p), lba |-> lba, left |-> count]
    IN  \/ channel' = [channel EXCEPT ![c] = registers]
        \/ ~Settled(c) /\ UNCHANGED channel

\* The 8-bit register keeps the count modulo 256, of which 0 asks for 256.
Programmed(n) == IF n % COUNT_SPACE = 0 THEN COUNT_SPACE ELSE n % COUNT_SPACE

\* storage_init goes on to the next position with the devices found so far.
ProbeNext(found) ==
    /\ devices' = found
    /\ pc' = IF probe = Len(Probed) THEN "idle" ELSE "probe"
    /\ probe' = IF probe = Len(Probed) THEN 1 ELSE probe + 1

\* Mutant: the devices found before stay in the table.
StillKnown == devices

\* storage_init forgets the devices found before.
Forgotten == << >>

storage_init ==
    /\ pc = "idle"
    /\ devices' = Forgotten
    /\ pc' = "probe"
    /\ UNCHANGED <<probe, call, device_vars, in_order, ideal, settled, trusted>>

\* The first half of ata_identify, up to the test for a status of 0.
ata_identify ==
    LET c == Probed[probe][1] IN
    /\ pc = "probe"
    /\ Issue(Probed[probe], "identify", 0, 1)
    /\ \/ channel'[c].status = "NONE" /\ ProbeNext(devices)
       \/ /\ channel'[c].status # "NONE"
          /\ pc' = "identify"
          /\ UNCHANGED <<devices, probe>>
    /\ settled' = (settled /\ Settled(c))
    /\ trusted' = (trusted /\ Settled(c))
    /\ UNCHANGED <<call, disk, in_order, ideal>>

\* Mutant: nobody waits for the device.
Anyhow(status) == TRUE

\* Mutant: ata_wait also waits for the device to offer data.
OffersData(status) == status = "DRQ"

\* ata_wait is over.
Ready(status) == status # "BUSY"

\* The second half: after ata_wait an error, or the device's description.
ata_identified ==
    LET c == Probed[probe][1] IN
    /\ pc = "identify"
    /\ Ready(channel[c].status)
    /\ \/ channel[c].status = "ERR" /\ ProbeNext(devices) /\ UNCHANGED channel
       \/ /\ channel[c].status # "ERR"
          /\ ProbeNext(Append(devices, Probed[probe]))
          /\ channel' = [channel EXCEPT ![c] = Quiet("IDLE")]
    /\ UNCHANGED <<call, disk, in_order, ideal, settled, trusted>>

\* Calls for which the registers are wide enough.
WithinRegisters(lba, n) == n \in 1 .. COUNT_SPACE /\ lba + n <= LBA_SPACE

\* The disks among the first k positions.
There[k \in 0 .. 4] ==
    IF k = 0 THEN << >>
    ELSE IF Probed[k] \in Disks THEN Append(There[k - 1], Probed[k]) ELSE There[k - 1]

\* Device number d ought to be disk p: the d-th disk that is there.
Names(d, p) == d \in DOMAIN There[4] /\ There[4][d] = p

\* storage_read and storage_write up to their loops; a device number out of range
\* returns -1.
Request(op, d, lba, n, buffer) ==
    /\ pc = "idle"
    /\ d \in 1 .. Len(devices)
    /\ Issue(devices[d], op, lba % LBA_SPACE, Programmed(n))
    /\ call' = [op |-> op, device |-> d, lba |-> lba, count |-> n,
                buffer |-> buffer, done |-> 0]
    /\ pc' = IF n = 0 THEN "idle" ELSE "transfer"
    /\ settled' = (settled /\ Settled(devices[d][1]))
    /\ trusted' = (trusted /\ settled' /\ WithinRegisters(lba, n))
    /\ ideal' = IF ~trusted' THEN Blanks
                ELSE [p \in Disks |-> [l \in Lbas |->
                        IF op = "write" /\ Names(d, p) /\ l \in lba .. lba + n - 1
                        THEN buffer[l - lba + 1] ELSE ideal[p][l]]]
    /\ UNCHANGED <<devices, probe, disk, in_order>>

\* The buffer to be filled holds anything.
storage_read(d, lba, n) == Request("read", d, lba, n, [i \in 1 .. n |-> Garbage])

storage_write(d, lba, n) ==
    \E buffer \in [1 .. n -> Words] : Request("write", d, lba, n, buffer)

\* The two calls of inb in one expression may be made in either order.
Received(word) == IF in_order THEN word ELSE Swapped(word)

\* The device goes on to the next sector, and writes the last one down.
AfterSector(r) ==
    IF r.left = 1 /\ r.command = "read" THEN Quiet("IDLE")
    ELSE [r EXCEPT !.lba = @ + 1, !.left = @ - 1, !.status = "BUSY"]

\* One turn of the loops of storage_read and storage_write.  They look at BUSY alone:
\* after an error, or past the last sector, what is read is anything and what is
\* written is lost.
transfer_sector ==
    LET c == devices[call.device][1]
        r == channel[c]
        i == call.done + 1
        granted == r.status = "DRQ" /\ r.command = call.op
        at == <<c, r.drive>>
    IN  /\ pc = "transfer"
        /\ Ready(r.status)
        /\ \/ /\ call.op = "read"
              /\ call' = [call EXCEPT !.done = i, !.buffer[i] =
                    IF granted THEN Received(disk[at][r.lba]) ELSE Garbage]
              /\ UNCHANGED disk
           \/ /\ call.op = "write"
              /\ call' = [call EXCEPT !.done = i]
              /\ disk' = IF granted THEN [disk EXCEPT ![at][r.lba] = call.buffer[i]]
                         ELSE disk
        /\ channel' = IF granted THEN [channel EXCEPT ![c] = AfterSector(r)] ELSE channel
        /\ pc' = IF i = call.count THEN "idle" ELSE "transfer"
        /\ UNCHANGED <<devices, probe, in_order, ideal, settled, trusted>>

\* What a device may answer when it has been BUSY long enough.  A disk may fail at
\* any sector, and does at one it does not have.
Answers(c) ==
    LET r == channel[c]
        refused == \/ <<c, r.drive>> \in PacketDevices
                   \/ r.command # "identify" /\ r.lba \notin Lbas
    IN  IF r.left = 0 THEN {"IDLE"}
        ELSE IF refused THEN {"ERR"} ELSE {"DRQ", "ERR"}

device(c) ==
    /\ channel[c].status = "BUSY"
    /\ \E status \in Answers(c) :
          /\ channel' = [channel EXCEPT ![c] =
                IF status = "DRQ" THEN [@ EXCEPT !.status = "DRQ"] ELSE Quiet(status)]
          /\ trusted' = (trusted /\ (status = "ERR" => <<c, channel[c].drive>> \in PacketDevices))
          /\ ideal' = IF trusted' THEN ideal ELSE Blanks
    /\ UNCHANGED <<driver_vars, disk, in_order, settled>>

Driver == ata_identify \/ ata_identified \/ transfer_sector

AtaNext ==
    \/ storage_init
    \/ \E d \in 1 .. 4, lba \in Starts, n \in Counts :
          storage_read(d, lba, n) \/ storage_write(d, lba, n)
    \/ Driver
    \/ \E c \in Channels : device(c)

AtaSpec == AtaInit /\ [][AtaNext]_ata_vars

\* The driver runs when the device lets it, and a device is not BUSY for ever.
FairSpec == AtaSpec /\ WF_ata_vars(Driver) /\ \A c \in Channels : WF_ata_vars(device(c))

-----------------------------------------------------------------------------
\* By the rules, what a sequence of calls leaves on the disks is what they wrote,
\* each on its own disk and sectors, although two disks share the registers of a
\* channel and the calls of both interleave with their devices.
StoresWhereAsked == trusted /\ pc = "idle" => disk = ideal

\* And a read returns what the disk holds at every sector asked for, or, if the
\* compiler reads the high byte first, the same with the bytes exchanged.
ReadsWhatIsStored ==
    trusted /\ pc = "idle" /\ call.op = "read" =>
        \A p \in Disks, i \in 1 .. call.count :
            Names(call.device, p) =>
                call.buffer[i] = Received(ideal[p][call.lba + i - 1])

\* Nor is a sector touched that the call did not ask for, when a device fails in
\* the middle, when the count is more than the register holds, or when a disk ends:
\* for as long as no device gets a command before its last one is done, which a call
\* for 0 sectors brings about (the register asks for 256, and the loop sends none),
\* and the start fits the 28 bits of the registers.
NothingElsewhere ==
    [][\A p \in Disks, l \in Lbas :
          settled /\ call.lba < LBA_SPACE /\ disk'[p][l] # disk[p][l] =>
              /\ call.op = "write" /\ p = devices[call.device]
              /\ l \in call.lba .. call.lba + call.count - 1]_ata_vars

\* Every call returns, also when a device fails or drops a command: the loops wait
\* for a device that is BUSY and for nothing else.
EveryCallReturns == pc # "idle" ~> pc = "idle"

=============================================================================
