---------------------------- MODULE SerialServer ----------------------------
(* The serial disk server: processRequests of                                *)
(* src/SW/Serial_Server/library/Process.cpp between a serial line that loses *)
(* and damages bytes and the client at its other end, a BIOS that is not in  *)
(* this repository (external).                                               *)
(*                                                                           *)
(* A byte on the line is a record of its value and of the message it is a    *)
(* part of. A checksum is right exactly when the bytes are those of one      *)
(* message, all of them, in order: a damaged message whose checksum fits by  *)
(* chance is left out.                                                       *)
EXTENDS Integers, Sequences, SequencesExt, SerialImage

CONSTANTS
    CMD,           \* bytes of a command (8 in the code)
    SECTOR,        \* bytes of a sector with its checksum (514 in the code)
    TIMEOUT,       \* GetTime_Timeout, in ms
    Starts,        \* platforms, files and command lines the server is started with
    Data,          \* what a sector may hold: the value of its bytes
    LAST_K,        \* clients use the sectors 0..LAST_K of a drive
    MAX_COUNT,     \* sectors of a request
    MAX_FAULTS     \* faults of the line in a behaviour

ASSUME SerialSizes ==
    CMD \in 4..8 /\ SECTOR \in Nat /\ SECTOR > CMD /\ TIMEOUT \in Nat \ {0}

VARIABLES
    server,        \* what main made of its arguments
    \* processRequests
    buff,          \* the bytes before buffoffset
    readto,        \* bytes to collect: 0, 1, CMD or SECTOR
    work,          \* workCommand, workOffset, workCount, mylba and img
    lastScan,
    age,           \* GetTime() - lasttick, counted up to TIMEOUT + 1
    disk,          \* file -> sector -> data, as far as clients use them
    \* the line
    up, down,      \* bytes to the server, replies to the client
    faults,        \* faults so far
    \* the client
    phase,         \* "idle", "send": a sector is next, "wait": for a reply
    req, done, got,
    silent,        \* ms since the last byte of the server reached the client
                   \* or one of the client reached the server or its port
    clean,         \* "faulty" when a fault struck since the request began, "fresh"
                   \* when none did and it found the server listening without work
    calm,          \* the line may do damage again
    futile         \* requests that failed undisturbed since one was disturbed or served,
                   \* counted up to 2

serverVars == <<buff, readto, work, lastScan, age, disk>>
clientVars == <<phase, req, done, got, futile>>
vars == <<server, buff, readto, work, lastScan, age, disk, up, down, faults,
          phase, req, done, got, silent, clean, calm, futile>>

images == server.images
Pipe == server.port = "pipe"            \* speedEmulation, resetConnection
Whole == server.whole                   \* readCharacters waits for all bytes it asked for
order == DriveOrder(images)
Drives == 0..(Len(images) - 1)
File(drive) == order[drive + 1]
Image(drive) == images[File(drive)]

\* Every command line that serves keeps the timeout (no -t), has images such as
\* SerialSetup shows of all that are served, and disks no smaller than clients use.
ASSUME StartsAssumption ==
    \A s \in Starts :
        LET x == Main(s.platform, s.files, s.arguments)
        IN ~x.refused =>
              /\ x.timeout /\ x.rate \in Nat \ {0}
              /\ x.images \in Seq(Images) /\ Len(x.images) \in 1..2
              /\ \A i \in DOMAIN x.images : Fits(x.images[i]) /\ LAST_K < SectorsTold(x.images[i])

Nobody == [cmd |-> 9, drive |-> 0, k |-> 0, data |-> << >>, scan |-> FALSE, rate |-> 0]

-----------------------------------------------------------------------------
(* Bytes and messages.                                                       *)

HEADER == 160                           \* SERIAL_COMMAND_HEADER
WRITE == 3                              \* SERIAL_COMMAND_WRITE | SERIAL_COMMAND_READWRITE
READ == 2
INQUIRE == 0
IsHeader(b) == b.val \div 32 = 5        \* & SERIAL_COMMAND_HEADERMASK

\* A count is never taken for the header of a command.
ASSUME ClientAssumption ==
    Data \subseteq Nat /\ LAST_K \in Nat /\ MAX_COUNT \in 1..(HEADER - 1)

\* In CHS mode the drive and head byte looks like a header itself.
CommandValue(c, i) ==
    CASE i = 1 -> HEADER + c.cmd
      [] i = 2 -> IF c.addr.mode = "chs" THEN 160 ELSE 224
      [] i = 3 -> c.count
      [] OTHER -> 0

Bytes(m) ==
    CASE m.kind = "command" -> [i \in 1..CMD |-> [val |-> CommandValue(m, i), of |-> m, at |-> i]]
      [] m.kind = "sector" -> [i \in 1..SECTOR |-> [val |-> m.data, of |-> m, at |-> i]]
      [] m.kind = "ack" -> <<[val |-> m.left, of |-> m, at |-> 1]>>

Noise(v) == [val |-> v, of |-> [kind |-> "noise"], at |-> 1]

\* checksum() over the buffer agrees with the one received
ChecksumFits(b, kind) ==
    /\ b[1].of.kind = kind
    /\ \A i \in DOMAIN b : b[i].of = b[1].of /\ b[i].at = i

\* What the line makes of some bytes: a run of them lost, or one changed. What
\* is left no longer adds up to a message.
Without(vs, i, j) == SubSeq(vs, 1, i - 1) \o SubSeq(vs, j + 1, Len(vs))
Damaged(bs) ==
    LET values == [i \in DOMAIN bs |-> bs[i].val]
        lost == UNION {{Without(values, i, j) : j \in DOMAIN bs} : i \in DOMAIN bs}
        changed == UNION {{[values EXCEPT ![i] = v] : v \in Data} : i \in DOMAIN bs}
    IN {[i \in DOMAIN vs |-> Noise(vs[i])] : vs \in {x \in lost : Len(x) < Len(bs)} \cup changed}

\* A named pipe neither loses nor changes anything.
\* Faults are rare: a second one comes only after more than TIMEOUT without
\* traffic, or once a request has been served.
Fault == /\ ~Pipe /\ faults < MAX_FAULTS /\ calm
         /\ faults' = faults + 1 /\ clean' = "faulty" /\ calm' = FALSE

SendUp(m) == \/ up' = up \o Bytes(m) /\ UNCHANGED <<faults, clean, calm>>
             \/ Fault /\ \E bs \in Damaged(Bytes(m)) : up' = up \o bs

\* writeCharacters: a reply is lost (a part of it is as good as none), damaged,
\* or arrives.
SendDown(r) == \/ down' = Append(down, r) /\ UNCHANGED <<faults, clean, calm>>
               \/ Fault /\ down' \in {down, Append(down, [kind |-> "damaged"])}

\* How long a reply takes at 10 bits per byte.
ReplyTime(r) == IF Pipe THEN 0 ELSE ((IF r.kind = "echo" THEN 2 ELSE 514) * 10000) \div server.rate

Later(t, ms) == IF t + ms > TIMEOUT THEN TIMEOUT + 1 ELSE t + ms

-----------------------------------------------------------------------------
(* processRequests. A step is a readCharacters that returned some bytes, and *)
(* what the loop does with them up to the next one. The branches take the    *)
(* buffer b, the target t and the work w as the timeout left them.           *)

\* What a finished or dropped work leaves in the variables is never used again.
NoWork == [command |-> 0, offset |-> 0, count |-> 0, lba |-> 0, drive |-> 0]

Listen(w) == buff' = << >> /\ readto' = 0 /\ work' = w
Quiet == UNCHANGED <<down, faults, clean, calm>>

\* "No work currently to do, look at each character as they come in"
LookAtCharacter(b, t, w) ==
    /\ t = 0
    /\ IF IsHeader(b[1]) THEN buff' = b /\ readto' = CMD /\ work' = w ELSE Listen(w)
    /\ Quiet /\ UNCHANGED <<lastScan, disk>>

Partial(b, t, w) ==
    /\ t # 0 /\ Len(b) < t
    /\ buff' = b /\ readto' = t /\ work' = w
    /\ Quiet /\ UNCHANGED <<lastScan, disk>>

\* One sector less to do; the client acknowledges it if there are more.
Advance(w) ==
    /\ buff' = << >>
    /\ IF w.count = 1 THEN work' = NoWork /\ readto' = 0
       ELSE work' = [w EXCEPT !.offset = @ + 1, !.count = @ - 1] /\ readto' = 1

\* seekSector, writeSector
StoreSector(w, d) == disk' = [disk EXCEPT ![File(w.drive)][w.lba + w.offset] = d]

BadSector(b, t, w) ==
    /\ t = SECTOR /\ Len(b) = SECTOR
    /\ ~ChecksumFits(b, "sector")
    /\ Listen(w)
    /\ Quiet /\ UNCHANGED <<lastScan, disk>>

WriteSector(b, t, w) ==
    /\ t = SECTOR /\ Len(b) = SECTOR
    /\ ChecksumFits(b, "sector")
    /\ IF Image(w.drive).readOnly THEN Listen(w) /\ Quiet /\ UNCHANGED disk
       ELSE /\ StoreSector(w, b[1].of.data)
            /\ SendDown([kind |-> "echo", data |-> b[1].of.data])
            /\ Advance(w)
    /\ UNCHANGED lastScan

\* A command or an acknowledgement is complete.
Complete(b, t, w) == Len(b) = t /\ (t = CMD \/ (t = 1 /\ w.count # 0))
\* mutant: the count of the command under way is left as it was
DroppedLater == Listen(work) /\ Quiet /\ UNCHANGED <<lastScan, disk>>
Dropped == Listen(NoWork) /\ Quiet /\ UNCHANGED <<lastScan, disk>>

\* mutant: the count is compared as it was before the last sector
ContinuationBefore(b, w) == w.count # 0 /\ b[1].val = w.count + 1
Continuation(b, w) == w.count # 0 /\ b[1].val = w.count

ContinueFault(b, t, w) ==
    /\ Complete(b, t, w) /\ w.count # 0 /\ ~Continuation(b, w)
    /\ Dropped

BadCommand(b, t, w) ==
    /\ Complete(b, t, w) /\ w.count = 0
    /\ ~ChecksumFits(b, "command")
    /\ Listen(w) /\ Quiet /\ UNCHANGED <<lastScan, disk>>

\* The work a new command asks for.
NewWork(c) == [command |-> c.cmd, offset |-> 0, count |-> c.count,
               lba |-> IF c.drive \in Drives THEN LbaOf(Image(c.drive), c.addr) ELSE 0,
               drive |-> c.drive]

\* no such drive, a write to a read-only one, or (on a pipe, which emulates a
\* speed) an inquiry at another speed
Refuses(c) ==
    \/ c.drive \notin Drives
    \/ c.cmd = WRITE /\ Image(c.drive).readOnly
    \/ c.cmd = INQUIRE /\ Pipe /\ c.rate # server.rate

\* The sector sent for work w: from the disk, or the answer to an inquiry, which
\* names the port when a scan is going on.
Answer(w, scan) ==
    IF w.command = INQUIRE
    THEN [kind |-> "inquiry", file |-> File(w.drive), scan |-> (w.drive = 1 /\ lastScan) \/ scan]
    ELSE [kind |-> "read", data |-> disk[File(w.drive)][w.lba + w.offset]]

Perform(w, scan) ==
    \/ /\ w.command = WRITE /\ w.count # 0
       /\ buff' = << >> /\ readto' = SECTOR /\ work' = w
       /\ Quiet /\ UNCHANGED <<lastScan, disk>>
    \/ /\ ~(w.command = WRITE /\ w.count # 0)
       /\ SendDown(Answer(w, scan))
       /\ lastScan' = (w.command = INQUIRE /\ scan)
       /\ Advance(w)
       /\ UNCHANGED disk

Continue(b, t, w) ==
    /\ Complete(b, t, w) /\ Continuation(b, w)
    /\ Perform(w, FALSE)

NewCommand(b, t, w) ==
    /\ Complete(b, t, w) /\ w.count = 0
    /\ ChecksumFits(b, "command")
    /\ LET c == b[1].of
       IN IF Refuses(c) THEN Dropped ELSE Perform(NewWork(c), c.scan)

Handle(b, t, w) ==
    \/ LookAtCharacter(b, t, w)
    \/ Partial(b, t, w)
    \/ BadSector(b, t, w)
    \/ WriteSector(b, t, w)
    \/ ContinueFault(b, t, w)
    \/ BadCommand(b, t, w)
    \/ Continue(b, t, w)
    \/ NewCommand(b, t, w)

\* mutant: a late byte continues whatever was under way
NeverTimedOut == FALSE
TimedOut == server.timeout /\ readto # 0 /\ age > TIMEOUT

Asked == IF readto = 0 THEN 1 ELSE readto - Len(buff)

\* Nothing is left on the line that the server could take. A Windows port keeps bytes
\* for as long as they are fewer than the read under way asked for.
LineQuiet == IF Whole THEN Len(up) < Asked ELSE up = << >>

\* readCharacters returns n of the bytes that have arrived, up to the number asked
\* for. How many only makes a difference to the timeout; otherwise the model takes
\* all at once.
Receive(n) ==
    /\ n \in 1..Len(up) /\ n <= Asked
    /\ Whole => n = Asked
    /\ ~TimedOut => n = Asked \/ n = Len(up)
    /\ up' = SubSeq(up, n + 1, Len(up))
    /\ LET new == SubSeq(up, 1, n)
       IN \/ ~TimedOut /\ Handle(buff \o new, readto, work) /\ age' = 0
          \/ /\ TimedOut /\ n <= CMD /\ IsHeader(new[1])
             /\ Handle(new, CMD, NoWork) /\ age' = 0
          \/ /\ TimedOut /\ n = 1 /\ ~IsHeader(new[1])
             /\ Handle(new, 0, NoWork) /\ age' = 0
          \/ /\ TimedOut /\ n > 1 /\ (n > CMD \/ ~IsHeader(new[1]))
             /\ Listen(NoWork) /\ Quiet /\ UNCHANGED <<lastScan, disk, age>>
    /\ silent' = 0
    /\ UNCHANGED <<server, clientVars>>

\* The other end of a named pipe goes away: processRequests returns, main
\* connects again and calls it with its variables initialised.
ResetConnection ==
    /\ Pipe
    /\ up' = << >> /\ down' = << >>
    /\ Listen(NoWork) /\ lastScan' = FALSE /\ age' = 0
    /\ phase' = "idle" /\ req' = Nobody /\ done' = 0 /\ got' = << >>
    /\ silent' = 0 /\ clean' = "faulty" /\ calm' = TRUE /\ futile' = 0
    /\ UNCHANGED <<server, disk, faults>>

-----------------------------------------------------------------------------
(* The client (external): sends a command, after a write command the first   *)
(* sector, waits for the reply to each sector and acknowledges it with the   *)
(* number of those left; gives up when a reply is wrong or does not come.    *)

AddressBy(drive, k) == IF drive \in Drives THEN AddressOf(RespondInquire(Image(drive)), k) ELSE LbaAddress(0)

CommandOf(r) ==
    [kind |-> "command", cmd |-> r.cmd, drive |-> r.drive, addr |-> AddressBy(r.drive, r.k),
     count |-> IF r.cmd = INQUIRE THEN 1 ELSE Len(r.data), scan |-> r.scan, rate |-> r.rate]

Request(cmd, drive, k, data) ==
    [cmd |-> cmd, drive |-> drive, k |-> k, data |-> data, scan |-> FALSE, rate |-> server.rate]

TransfersAt(d, k, n) ==
    {Request(WRITE, d, k, data) : data \in [1..n -> Data]}
    \cup {Request(READ, d, k, [i \in 1..n |-> 0])}
Transfers ==
    {r \in UNION {TransfersAt(x[1], x[2], x[3]) : x \in Drives \X (0..LAST_K) \X (1..MAX_COUNT)} :
        r.k + Len(r.data) <= LAST_K + 1}

\* At another speed only a pipe delivers anything.
Inquiries == [cmd : {INQUIRE}, drive : 0..1, k : {0}, data : {<< >>}, scan : BOOLEAN,
              rate : IF Pipe THEN {server.rate, 2400} ELSE {server.rate}]

\* A Windows port has the bytes at once, whether the server reads them or not.
Sent == silent' = IF Whole THEN 0 ELSE silent

Begin ==
    /\ phase = "idle" /\ LineQuiet
    /\ req' \in Transfers \cup Inquiries
    /\ \/ up' = up \o Bytes(CommandOf(req')) /\ UNCHANGED <<faults, calm>>
          /\ clean' = IF readto = 0 /\ work.count = 0 THEN "fresh" ELSE "clean"
       \/ Fault /\ \E bs \in Damaged(Bytes(CommandOf(req'))) : up' = up \o bs
    /\ phase' = IF req'.cmd = WRITE THEN "send" ELSE "wait"
    /\ done' = 0 /\ got' = << >> /\ Sent
    /\ UNCHANGED <<server, serverVars, down, futile>>

SendSector ==
    /\ phase = "send"
    /\ SendUp([kind |-> "sector", data |-> req.data[done + 1]])
    /\ phase' = "wait" /\ Sent
    /\ UNCHANGED <<server, serverVars, down, req, done, got, futile>>

Failed(n) == IF n < 2 THEN n + 1 ELSE n

End(ok) ==
    /\ phase' = "idle" /\ req' = Nobody /\ done' = 0 /\ got' = << >> /\ clean' = "clean"
    /\ futile' = CASE ok \/ clean = "faulty" -> 0
                   [] ~ok /\ clean # "faulty" /\ ~Refuses(CommandOf(req)) -> Failed(futile)
                   [] OTHER -> futile

Expected(r) ==
    CASE req.cmd = WRITE -> r.kind = "echo" /\ r.data = req.data[done + 1]
      [] req.cmd = READ -> r.kind = "read"
      [] req.cmd = INQUIRE -> r.kind = "inquiry"

\* The reply has come in, after the time it takes.
TakeReply ==
    /\ down' = Tail(down)
    /\ age' = Later(age, ReplyTime(Head(down))) /\ silent' = 0
    /\ UNCHANGED <<server, buff, readto, work, lastScan, disk>>

Confirmed ==
    /\ phase = "wait" /\ down # << >> /\ Expected(Head(down))
    /\ TakeReply
    /\ got' = IF req.cmd = READ THEN Append(got, Head(down).data) ELSE got
    /\ done' = IF req.cmd = INQUIRE THEN done ELSE done + 1
    /\ UNCHANGED <<req, futile>>
    /\ IF done' = Len(req.data)
       THEN phase' = "over" /\ UNCHANGED <<up, faults, clean, calm>>
       ELSE /\ SendUp([kind |-> "ack", left |-> Len(req.data) - done'])
            /\ phase' = IF req.cmd = WRITE THEN "send" ELSE "wait"

Succeed == /\ phase = "over" /\ End(TRUE) /\ calm' = TRUE
           /\ UNCHANGED <<server, serverVars, up, down, faults, silent>>

WrongReply ==
    /\ phase = "wait" /\ down # << >> /\ ~Expected(Head(down))
    /\ TakeReply /\ End(FALSE)
    /\ UNCHANGED <<up, faults, calm>>

\* More than TIMEOUT without a reply: the client's patience outlasts the server's.
GiveUp ==
    /\ phase = "wait" /\ LineQuiet /\ down = << >> /\ silent > TIMEOUT
    /\ End(FALSE)
    /\ UNCHANGED <<server, serverVars, up, down, faults, silent, calm>>

\* Nothing happens for longer than TIMEOUT, while nothing moves on the line.
TimePasses ==
    /\ phase \in {"idle", "wait"} /\ LineQuiet /\ down = << >> /\ silent <= TIMEOUT
    /\ age' = TIMEOUT + 1 /\ silent' = TIMEOUT + 1 /\ calm' = TRUE
    /\ UNCHANGED <<server, buff, readto, work, lastScan, disk, clientVars, up, down, faults, clean>>

-----------------------------------------------------------------------------
Init ==
    /\ server \in {m \in {Main(s.platform, s.files, s.arguments) : s \in Starts} : ~m.refused}
    /\ buff = << >> /\ readto = 0 /\ work = NoWork /\ lastScan = FALSE /\ age = 0
    /\ disk = [f \in DOMAIN images |-> [k \in 0..LAST_K |-> 0]]
    /\ up = << >> /\ down = << >> /\ faults = 0
    /\ phase = "idle" /\ req = Nobody /\ done = 0 /\ got = << >>
    /\ silent = 0 /\ clean = "clean" /\ calm = TRUE /\ futile = 0

Server == \E n \in 1..SECTOR : Receive(n)
Client == Begin \/ SendSector \/ Confirmed \/ Succeed \/ WrongReply \/ GiveUp

Next == Server \/ ResetConnection \/ Client \/ TimePasses

Spec == Init /\ [][Next]_vars

-----------------------------------------------------------------------------
(* Properties.                                                               *)

\* The buffer never holds more than the command or sector being collected, an
\* acknowledgement is awaited only while there is work to continue, and a sector
\* only by a write.
TypeOK ==
    /\ readto \in {0, 1, CMD, SECTOR} /\ age \in 0..(TIMEOUT + 1)
    /\ Len(buff) < readto \/ (readto = 0 /\ buff = << >>)
    /\ work.count \in 0..MAX_COUNT /\ work.offset \in 0..MAX_COUNT
    /\ readto = 1 => work.count # 0
    /\ readto = SECTOR => work.command = WRITE /\ work.count # 0
    /\ \A f \in DOMAIN images : disk[f] \in [0..LAST_K -> Data \cup {0}]
    /\ phase \in {"idle", "send", "wait", "over"} /\ Len(down) <= 1
    /\ silent \in 0..(TIMEOUT + 1) /\ clean \in {"fresh", "clean", "faulty"} /\ calm \in BOOLEAN
    /\ faults \in 0..MAX_FAULTS

AbstractOf(r) == [write |-> r.cmd = WRITE, drive |-> r.drive, k |-> r.k, data |-> r.data]
NoRequest == [write |-> FALSE, drive |-> -1, k |-> 0, data |-> << >>]

DiskByDrive == [d \in Drives |-> disk[File(d)]]
RequestMade == IF phase = "idle" THEN NoRequest ELSE AbstractOf(req)

\* Whatever the line loses or damages, the server writes no sector but the one
\* the client's current request has at that place, a sector confirmed to the
\* client is on the disk, and a read that is confirmed is of what is there
\* (WriteSector, Perform; the timeout keeps a new request apart from the rest
\* of an old one).
Promise == INSTANCE SerialDisk WITH disk <- DiskByDrive, req <- RequestMade
ImplementsSerialDisk == Promise!Spec

\* However the server was left by what went wrong before, at most one request
\* fails that the line did not disturb; the next one is served (BadSector leaves
\* its work behind, and a request may begin in the middle of a command).
OneRetryEnough == ~Whole => futile <= 1

\* A request that finds the server listening, without work, and that the line
\* does not disturb, is served (all of NewCommand, Continue, WriteSector).
UndisturbedServed ==
    [][clean = "fresh" /\ phase \notin {"idle", "over"} /\ phase' = "idle"
          => Refuses(CommandOf(req)) \/ clean' = "faulty"]_vars

\* "Timeout waiting on data from client, aborting previous command": the command
\* is aborted only when the client has been silent for that long since it could
\* answer (the test of lasttick in processRequests).
TimeoutMeansSilence ==
    [][server.timeout /\ up' # up /\ TimedOut /\ Len(up') < Len(up) => silent > TIMEOUT]_vars
=============================================================================
