---------------------------- MODULE SerialImage ----------------------------
(* The images of the serial disk server (src/SW/Serial_Server): which files  *)
(* and options make a disk it serves, with which geometry, and which sector  *)
(* of the file an address of the client means. What differs between the      *)
(* platforms the program is built for takes the platform as a parameter.     *)
EXTENDS Integers, Sequences, SequencesExt

NoGeometry == [cyl |-> 0, head |-> 0, sect |-> 0]
Geometry(c, h, s) == [cyl |-> c, head |-> h, sect |-> s]
Sectors(g) == g.cyl * g.head * g.sect

\* Sizes in sectors. "real" ones are recognised as floppies, the other ones are
\* spellings the -n option accepts.
Floppy(real, size, g) == [real |-> real, size |-> size, geo |-> g]
floppyInfos ==
    {Floppy(TRUE,  5760, Geometry(80, 2, 36)), Floppy(FALSE, 5600, Geometry(80, 2, 36)),
     Floppy(FALSE, 5800, Geometry(80, 2, 36)), Floppy(TRUE,  2880, Geometry(80, 2, 18)),
     Floppy(FALSE, 2800, Geometry(80, 2, 18)), Floppy(TRUE,  2400, Geometry(80, 2, 15)),
     Floppy(TRUE,  1440, Geometry(80, 1, 18)), Floppy(TRUE,   720, Geometry(40, 2, 9)),
     Floppy(TRUE,   640, Geometry(40, 2, 8)),  Floppy(TRUE,   360, Geometry(40, 1, 9)),
     Floppy(TRUE,   320, Geometry(40, 1, 8))}

\* The sets of table entries a size fits, exactly or within the rounding of -n.
FindFloppyInfoBySize(size) ==
    {f \in floppyInfos : size + 5 > f.size /\ size - 5 < f.size}
RealFloppies(total) == {f \in floppyInfos : f.real /\ f.size = total}

-----------------------------------------------------------------------------
(* class FileAccess, once per platform. A file is its size: whole sectors    *)
(* and the bytes left over; NoFile is not there.                             *)

Platforms == {"linux", "win32"}
FileOf(sectors) == [sectors |-> sectors, rest |-> 0]
NoFile == FileOf(-1)

MaxLba28 == 268435455               \* MaxSectors, 0xfffffff

\* mutant: a file that is there is made anew
CreateAnew(f, sectors) == FileOf(sectors)

\* Create, then a sector at a time up to the size: a file that is there already is
\* left as it is.
CreateFile(f, sectors) == IF f = NoFile THEN FileOf(sectors) ELSE f

\* Of the 2^23 sectors that 32 bits of a file offset reach.
LOW == 8388608

\* SizeSectors: which sizes it takes, and the number of sectors it returns. Windows
\* puts it together from two halves.
LinuxSize(f) == [ok |-> f.rest = 0 /\ f.sectors \div LOW <= 31, sectors |-> f.sectors]
Win32Size(f) == [ok |-> f.rest = 0 /\ f.sectors \div LOW <= 31,
                 sectors |-> (((f.sectors \div LOW) % 512) * LOW) + (f.sectors % LOW)]
SizeSectors(p, f) == CASE p = "linux" -> LinuxSize(f)
                       [] p = "win32" -> Win32Size(f)

\* SeekSectors: the sector the file is positioned at.
LinuxSeek(lba) == lba
Win32Seek(lba) == ((lba \div LOW) * LOW) + (lba % LOW)
SeekSectors(p, lba) == CASE p = "linux" -> LinuxSeek(lba)
                         [] p = "win32" -> Win32Seek(lba)

-----------------------------------------------------------------------------
(* Image::init.                                                              *)

MaxCylinders == 65536
StandardMax == MaxCylinders * 16 * 63

\* The geometry asked for, by the size of a floppy or by the caller's option.
AskedGeometry(total, g) ==
    IF RealFloppies(total) # {} THEN (CHOOSE f \in RealFloppies(total) : TRUE).geo ELSE g

InRange(g) == /\ g.sect >= 1 /\ g.sect <= 255
              /\ g.head >= 1 /\ g.head <= 16
              /\ g.cyl >= 1 /\ g.cyl <= MaxCylinders

\* mutant: the size of the file is not compared with the geometry
InRangeOnly(total, g) ==
    /\ total >= 1 /\ total <= MaxLba28
    /\ g.cyl # 0 => InRange(g)
    /\ (g.cyl = 0 /\ total <= StandardMax) => (total % 16 = 0 /\ (total \div 16) % 63 = 0)

Acceptable(total, g) ==
    /\ total >= 1 /\ total <= MaxLba28
    /\ g.cyl # 0 => InRange(g) /\ total = Sectors(g)
    /\ (g.cyl = 0 /\ total <= StandardMax) => (total % 16 = 0 /\ (total \div 16) % 63 = 0)

\* The geometry init leaves in the image, for an acceptable size.
InitGeometry(total, g) ==
    IF g.cyl # 0 THEN Geometry(g.cyl, g.head, g.sect)
    ELSE Geometry(IF total > StandardMax THEN MaxCylinders ELSE (total \div 63) \div 16, 16, 63)

ImageOf(total, s) ==
    LET floppy == RealFloppies(total) # {}
    IN [geo      |-> InitGeometry(total, AskedGeometry(total, s.geo)),
        total    |-> total,
        floppy   |-> floppy,
        useCHS   |-> floppy \/ s.useCHS,
        readOnly |-> s.readOnly]

-----------------------------------------------------------------------------
(* The constructor of FlatImage, for a file f and the options s: the file it *)
(* leaves, whether the program goes on, and with which image.                *)

CreateRefused(s) == s.create /\ Sectors(s.geo) > MaxLba28

Created(f, s) ==
    IF s.create /\ ~CreateRefused(s) THEN CreateFile(f, Sectors(s.geo)) ELSE f

Opened(p, f, s) ==
    /\ ~CreateRefused(s)
    /\ Created(f, s) # NoFile
    /\ LET size == SizeSectors(p, Created(f, s))
       IN size.ok /\ Acceptable(size.sectors, AskedGeometry(size.sectors, s.geo))

FlatImage(p, f, s) == ImageOf(SizeSectors(p, Created(f, s)).sectors, s)

-----------------------------------------------------------------------------
(* Addresses. A command has 16 bits for the cylinder, 4 for the head, 8 for  *)
(* the sector, or 28 for an LBA.                                             *)

Word(n) == n % 65536
LbaAddress(k) == [mode |-> "lba", lba |-> k % (MaxLba28 + 1)]
ChsAddress(c, h, s) == [mode |-> "chs", cyl |-> Word(c), head |-> h % 16, sect |-> s % 256]

\* mutant: the sector is counted from zero
LbaFromZero(img, a) ==
    IF a.mode = "lba" THEN a.lba ELSE (a.cyl * img.geo.head + a.head) * img.geo.sect + a.sect

\* processRequests: the sector of the image a command addresses
LbaOf(img, a) ==
    IF a.mode = "lba" THEN a.lba
    ELSE (a.cyl * img.geo.head + a.head) * img.geo.sect + a.sect - 1

\* What an inquiry tells of an image, in words of 16 bits.
RespondInquire(img) ==
    [cyl |-> Word(img.geo.cyl), head |-> img.geo.head, sect |-> img.geo.sect,
     caps_lba |-> ~img.useCHS, lba |-> IF img.useCHS THEN 0 ELSE img.total,
     floppy |-> img.floppy]

\* The client's side: the address of sector k of a drive that answered r (external).
ChsOf(r, k) == ChsAddress(k \div (r.head * r.sect), (k \div r.sect) % r.head, (k % r.sect) + 1)
AddressOf(r, k) == IF r.caps_lba THEN LbaAddress(k) ELSE ChsOf(r, k)

\* An image that is served, and its geometry: the whole file, up to the largest
\* standard geometry.
Geometries == [cyl : Nat, head : Nat, sect : Nat]
Totals == {n \in Nat : n <= MaxLba28}
Images == [geo : Geometries, total : Totals, floppy : BOOLEAN, useCHS : BOOLEAN,
           readOnly : BOOLEAN]

Fits(img) ==
    /\ InRange(img.geo) /\ Sectors(img.geo) <= img.total
    /\ img.total <= StandardMax => Sectors(img.geo) = img.total

\* The sectors an inquiry tells the client of.
SectorsTold(img) == IF img.useCHS THEN Sectors(img.geo) ELSE img.total

-----------------------------------------------------------------------------
(* main: options up to an image file belong to that image, the other ones to *)
(* the connection. An argument is a record with the option's letter and the  *)
(* value that follows it.                                                    *)

NoOptions == [create |-> FALSE, geo |-> NoGeometry, useCHS |-> FALSE, readOnly |-> FALSE]

\* The supported rates; a number is also matched in thousands. 0: none of them.
baudRates == {2400, 4800, 9600, 19200, 38400, 57600, 115200, 230400, 460800, 921600}
simulatedRates == {2400, 4800, 9600, 57600, 115200}    \* those with a divisor of the UART
baudRateMatchString(a) ==
    LET fits == {r \in baudRates : r = a \/ r \div 1000 = a \/ (r + 500) \div 1000 = a}
    IN IF fits = {} THEN 0 ELSE CHOOSE r \in fits : TRUE

\* Defaults applied when a file name ends an image's options.
ImageOptions(s) ==
    IF s.create /\ s.geo.cyl = 0 THEN [s EXCEPT !.geo = Geometry(65, 16, 63)] ELSE s

\* -n: a floppy's geometry, or as many cylinders of 16 heads and 63 sectors
SizeGeometry(size) ==
    IF FindFloppyInfoBySize(size) # {}
    THEN (CHOOSE f \in FindFloppyInfoBySize(size) : TRUE).geo
    ELSE Geometry(size \div (16 * 63), 16, 63)

\* -g: a value that does not start with a number is not taken for one; parseGeometry
\* wants three numbers, none of them 0
parseGeometry(g) == g.cyl # 0 /\ g.head # 0 /\ g.sect # 0

TakeSize(s, size) ==
    [s EXCEPT !.create = TRUE, !.geo = IF size = 0 THEN @ ELSE SizeGeometry(size)]
TakeGeometry(s, g) ==
    [s EXCEPT !.useCHS = TRUE, !.geo = IF parseGeometry(g) THEN g ELSE @]

PipeRate(rate) == IF rate = 0 THEN 115200 ELSE rate
PortRate(rate) == IF rate = 0 THEN 9600 ELSE rate

Start(files) == [files |-> files, next |-> NoOptions, images |-> << >>, timeout |-> TRUE,
                 port |-> "none", whole |-> FALSE, rate |-> 0, refused |-> FALSE]

\* mutant: the options of one image stay in force for the next one
TakeFileKeeping(p, m, a) ==
    LET s == ImageOptions(m.next)
        f == m.files[a.name]
    IN IF Len(m.images) = 2 THEN [m EXCEPT !.refused = TRUE]
       ELSE [m EXCEPT !.files[a.name] = Created(f, s),
                      !.images = IF Opened(p, f, s) THEN Append(@, FlatImage(p, f, s)) ELSE @,
                      !.refused = ~Opened(p, f, s)]

TakeFile(p, m, a) ==
    LET s == ImageOptions(m.next)
        f == m.files[a.name]
    IN IF Len(m.images) = 2 THEN [m EXCEPT !.refused = TRUE]
       ELSE [m EXCEPT !.files[a.name] = Created(f, s),
                      !.images = IF Opened(p, f, s) THEN Append(@, FlatImage(p, f, s)) ELSE @,
                      !.refused = ~Opened(p, f, s),
                      !.next = NoOptions]

TakeArgument(p, m, a) ==
    CASE a.opt = "n" -> [m EXCEPT !.next = TakeSize(@, a.size)]
      [] a.opt = "g" -> [m EXCEPT !.next = TakeGeometry(@, a.geo),
                                  !.refused = a.geo # NoGeometry /\ ~parseGeometry(a.geo)]
      [] a.opt = "r" -> [m EXCEPT !.next = [@ EXCEPT !.readOnly = TRUE]]
      [] a.opt = "t" -> [m EXCEPT !.timeout = FALSE]
      [] a.opt = "c" -> [m EXCEPT !.port = "com"]
      [] a.opt = "p" -> [m EXCEPT !.port = "pipe", !.rate = PipeRate(@)]
      [] a.opt = "b" -> [m EXCEPT !.rate = baudRateMatchString(a.rate),
                                  !.refused = baudRateMatchString(a.rate) = 0]
      [] a.opt = "file" -> TakeFile(p, m, a)

\* Connect: Linux opens the port that was named, Windows the first one or a pipe, at
\* a rate whose divisor can be compared with the client's.
LinuxConnects(m) == m.port = "com"
Win32Connects(m) == m.port = "pipe" => m.rate \in simulatedRates
Connects(p, m) == IF p = "linux" THEN LinuxConnects(m) ELSE Win32Connects(m)

\* After the last argument. The COMMTIMEOUTS of a Windows port are zero: a read of
\* it returns when all bytes it asked for have come.
Connected(p, m) ==
    LET rated == [m EXCEPT !.rate = PortRate(@), !.whole = p = "win32" /\ m.port # "pipe"]
    IN [rated EXCEPT !.refused = m.images = << >> \/ ~Connects(p, rated)]

\* What the program runs with; "refused" when it ended with a message instead.
Main(p, files, arguments) ==
    LET Step(m, a) == IF m.refused THEN m ELSE TakeArgument(p, m, a)
        m == FoldLeft(Step, Start(files), arguments)
    IN IF m.refused THEN m ELSE Connected(p, m)

\* processRequests puts a hard disk in front of a floppy: drive to file.
DriveOrder(images) ==
    IF Len(images) = 2 /\ images[1].floppy /\ ~images[2].floppy THEN <<2, 1>>
    ELSE [k \in 1..Len(images) |-> k]
=============================================================================
