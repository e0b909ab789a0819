---------------------------- MODULE SerialProofs ----------------------------
(* Proofs about the serial disk server: its images, for every command line,  *)
(* every set of files and every history of starts, and the requests it       *)
(* serves, for every number of faults of the line.                           *)
EXTENDS SerialSetup, SerialServer, TLAPS

-----------------------------------------------------------------------------
(* The table of floppies.                                                    *)

LEMMA FloppyTable ==
    ASSUME NEW f \in floppyInfos
    PROVE  /\ f.geo \in Geometries /\ InRange(f.geo)
           /\ f.real => f.size = Sectors(f.geo)
<1>1. \E c, h, s \in Nat :
         /\ f.geo = Geometry(c, h, s)
         /\ c \in {40, 80} /\ h \in {1, 2} /\ s \in {8, 9, 15, 18, 36}
         /\ f.real => f.size = c * h * s
  BY DEF floppyInfos, Floppy
<1>2. PICK c, h, s \in Nat :
         /\ f.geo = Geometry(c, h, s)
         /\ c \in {40, 80} /\ h \in {1, 2} /\ s \in {8, 9, 15, 18, 36}
         /\ f.real => f.size = c * h * s
  BY <1>1
<1>3. f.geo.cyl = c /\ f.geo.head = h /\ f.geo.sect = s /\ f.geo \in Geometries
  BY <1>2 DEF Geometry, Geometries
<1>4. InRange(f.geo)
  <2>1. MaxCylinders \in Nat /\ MaxCylinders >= 80
    BY DEF MaxCylinders
  <2> QED
    BY <1>2, <1>3, <2>1 DEF InRange
<1>5. Sectors(f.geo) = c * h * s
  BY <1>3, Zenon DEF Sectors
<1> QED
  BY <1>2, <1>3, <1>4, <1>5, Zenon

LEMMA AskedInRange ==
    ASSUME NEW total, NEW g \in Geometries, RealFloppies(total) # {}
    PROVE  /\ AskedGeometry(total, g) \in Geometries /\ InRange(AskedGeometry(total, g))
           /\ total = Sectors(AskedGeometry(total, g))
<1> DEFINE f == CHOOSE x \in RealFloppies(total) : TRUE
<1>1. f \in RealFloppies(total)
  OBVIOUS
<1>2. f \in floppyInfos /\ f.real /\ f.size = total
  BY <1>1 DEF RealFloppies
<1>3. AskedGeometry(total, g) = f.geo
  BY DEF AskedGeometry
<1> QED
  BY <1>2, <1>3, FloppyTable

LEMMA Multiple ==
    ASSUME NEW total \in Nat, total % 16 = 0, (total \div 16) % 63 = 0
    PROVE  \E n \in Nat : total = 1008 * n
<1> DEFINE a == total \div 16
           n == a \div 63
<1>1. a \in Nat /\ total = 16 * a
  OBVIOUS
<1>2. n \in Nat /\ a = 63 * n
  <2> HIDE DEF a
  <2> QED
    BY <1>1
<1> HIDE DEF n, a
<1>3. total = 1008 * n
  BY <1>1, <1>2
<1> QED
  BY <1>2, <1>3

LEMMA StandardBound ==
    ASSUME NEW n \in Nat, NEW t \in Nat, t = 1008 * n, t >= 1, t <= StandardMax
    PROVE  n >= 1 /\ n <= MaxCylinders
<1>1. StandardMax = 1008 * MaxCylinders /\ MaxCylinders \in Nat
  BY DEF StandardMax, MaxCylinders
<1> QED
  BY <1>1

\* The standard geometry of 16 heads and 63 sectors covers what it divides.
LEMMA StandardGeometry ==
    ASSUME NEW n \in Nat, NEW total \in Nat, total = 1008 * n,
           total >= 1, total <= StandardMax
    PROVE  LET g == Geometry((total \div 63) \div 16, 16, 63)
           IN InRange(g) /\ Sectors(g) = total
<1>1. (total \div 63) \div 16 = n /\ n * 16 * 63 = total
  <2>1. total \div 63 = 16 * n /\ n * 16 * 63 = total
    OBVIOUS
  <2>2. (16 * n) \div 16 = n
    OBVIOUS
  <2> QED
    BY <2>1, <2>2
<1>2. n >= 1 /\ n <= MaxCylinders
  BY StandardBound
<1>3. InRange(Geometry(n, 16, 63)) /\ Sectors(Geometry(n, 16, 63)) = n * 16 * 63
  BY <1>2 DEF InRange, Sectors, Geometry
<1> QED
  BY <1>1, <1>3, Zenon

LEMMA LargestGeometry ==
    ASSUME NEW total \in Nat, total > StandardMax
    PROVE  LET g == Geometry(MaxCylinders, 16, 63)
           IN InRange(g) /\ Sectors(g) <= total
  BY DEF InRange, Sectors, Geometry, StandardMax, MaxCylinders

LEMMA StandardMaxNat == StandardMax \in Nat /\ MaxCylinders \in Nat
  BY DEF StandardMax, MaxCylinders

\* What init accepts has a geometry that fits.
LEMMA AcceptableFits ==
    ASSUME NEW total \in Nat, NEW s, s.geo \in Geometries,
           Acceptable(total, AskedGeometry(total, s.geo))
    PROVE  Fits(ImageOf(total, s))
<1> DEFINE g == AskedGeometry(total, s.geo)
           img == ImageOf(total, s)
<1>1. img.geo = InitGeometry(total, g) /\ img.total = total
  BY DEF ImageOf
<1>2. g \in Geometries
  BY AskedInRange DEF AskedGeometry
<1> HIDE DEF g, img
<1>3. Acceptable(total, g)
  BY DEF g
<1>4. SUFFICES Fits(img)
  BY DEF img
<1>5. CASE g.cyl # 0
  <2>1. InitGeometry(total, g) = g
    BY <1>2, <1>5 DEF InitGeometry, Geometry, Geometries
  <2>2. InRange(g) /\ total = Sectors(g)
    BY <1>3, <1>5 DEF Acceptable
  <2> QED
    BY <1>1, <2>1, <2>2 DEF Fits
<1>6. CASE g.cyl = 0 /\ total <= StandardMax
  <2>1. InitGeometry(total, g) = Geometry((total \div 63) \div 16, 16, 63)
    <3>1. ~(total > StandardMax)
      BY <1>6, StandardMaxNat
    <3> QED
      BY <1>6, <3>1, Zenon DEF InitGeometry
  <2>2. total >= 1 /\ total % 16 = 0 /\ (total \div 16) % 63 = 0
    BY <1>3, <1>6, Zenon DEF Acceptable
  <2>3. PICK n \in Nat : total = 1008 * n
    BY <2>2, Multiple
  <2>4. total >= 1
    BY <2>2, Zenon
  <2>5. LET h == Geometry((total \div 63) \div 16, 16, 63)
        IN InRange(h) /\ Sectors(h) = total
    BY <1>6, <2>3, <2>4, StandardGeometry
  <2>6. InRange(img.geo) /\ Sectors(img.geo) = total
    BY <1>1, <2>1, <2>5, Zenon
  <2> QED
    BY <1>1, <2>6 DEF Fits
<1>7. CASE g.cyl = 0 /\ total > StandardMax
  <2>1. InitGeometry(total, g) = Geometry(MaxCylinders, 16, 63)
    BY <1>7, Zenon DEF InitGeometry
  <2>2. InRange(img.geo) /\ Sectors(img.geo) <= total
    BY <1>1, <1>7, <2>1, LargestGeometry, Zenon
  <2> QED
    BY <1>1, <1>7, <2>2, StandardMaxNat DEF Fits
<1> QED
  BY <1>2, <1>5, <1>6, <1>7, StandardMaxNat

-----------------------------------------------------------------------------
(* main: types, and what one argument does.                                  *)

Options == [create : BOOLEAN, geo : Geometries, useCHS : BOOLEAN, readOnly : BOOLEAN]
Mains == [files : [Names -> FileStates], next : Options, images : Seq(Images),
          timeout : BOOLEAN, port : {"none", "com", "pipe"}, whole : BOOLEAN, rate : Nat,
          refused : BOOLEAN]

Letters == {"n", "g", "r", "t", "c", "p", "b"}

TypeInv == /\ platform \in Platforms
           /\ m \in Mains
           /\ serving \in BOOLEAN
           /\ given \in Seq(SUBSET Letters)

LEMMA SizeGeometryType == ASSUME NEW n \in Nat PROVE SizeGeometry(n) \in Geometries
<1>1. CASE FindFloppyInfoBySize(n) # {}
  <2> DEFINE f == CHOOSE x \in FindFloppyInfoBySize(n) : TRUE
  <2>1. f \in floppyInfos
    BY <1>1 DEF FindFloppyInfoBySize
  <2>2. SizeGeometry(n) = f.geo
    BY <1>1 DEF SizeGeometry
  <2> QED
    BY <2>1, <2>2, FloppyTable
<1>2. CASE FindFloppyInfoBySize(n) = {}
  <2>1. SizeGeometry(n) = Geometry(n \div (16 * 63), 16, 63)
    BY <1>2 DEF SizeGeometry
  <2> QED
    BY <2>1 DEF Geometry, Geometries
<1> QED
  BY <1>1, <1>2

LEMMA RateType == ASSUME NEW a PROVE baudRateMatchString(a) \in Nat
<1> DEFINE fits == {r \in baudRates : r = a \/ r \div 1000 = a \/ (r + 500) \div 1000 = a}
<1>1. baudRates \subseteq Nat
  BY DEF baudRates
<1>2. CASE fits = {}
  BY <1>2 DEF baudRateMatchString
<1>3. CASE fits # {}
  <2>1. baudRateMatchString(a) = CHOOSE r \in fits : TRUE
    BY <1>3 DEF baudRateMatchString
  <2> HIDE DEF fits
  <2>2. (CHOOSE r \in fits : TRUE) \in fits
    BY <1>3
  <2>3. fits \subseteq Nat
    BY <1>1 DEF fits
  <2> QED
    BY <2>1, <2>2, <2>3
<1> QED
  BY <1>2, <1>3

LEMMA ImageOptionsType ==
    ASSUME NEW s \in Options
    PROVE  /\ ImageOptions(s) \in Options
           /\ ImageOptions(s).useCHS = s.useCHS /\ ImageOptions(s).readOnly = s.readOnly
  BY DEF ImageOptions, Options, Geometries, Geometry

LEMMA SectorsType == ASSUME NEW g \in Geometries PROVE Sectors(g) \in Nat
  BY DEF Sectors, Geometries

LEMMA CreatedType ==
    ASSUME NEW f \in FileStates, NEW s \in Options
    PROVE  /\ Created(f, s) \in FileStates
           /\ f # NoFile => Created(f, s) = f
<1>1. Sectors(s.geo) \in Nat
  BY SectorsType DEF Options
<1>2. FileOf(Sectors(s.geo)) \in FileStates
  BY <1>1 DEF FileOf, FileStates
<1> QED
  BY <1>2 DEF Created, CreateFile

LEMMA SizeType ==
    ASSUME NEW p \in Platforms, NEW f \in FileStates, f # NoFile
    PROVE  SizeSectors(p, f).sectors \in Nat
<1>1. f.sectors \in Nat
  BY DEF FileStates
<1>2. LinuxSize(f).sectors \in Nat
  BY <1>1 DEF LinuxSize
<1>3. Win32Size(f).sectors \in Nat
  BY <1>1 DEF Win32Size, LOW
<1> QED
  BY <1>2, <1>3 DEF SizeSectors, Platforms

\* The image of a file that main keeps.
LEMMA OpenedImage ==
    ASSUME NEW p \in Platforms, NEW f \in FileStates, NEW s \in Options,
           Opened(p, f, s)
    PROVE  LET img == FlatImage(p, f, s)
           IN /\ img \in Images /\ Fits(img)
              /\ img.readOnly = s.readOnly
              /\ img.useCHS = (img.floppy \/ s.useCHS)
<1> DEFINE total == SizeSectors(p, Created(f, s)).sectors
           g == AskedGeometry(total, s.geo)
<1>1. Created(f, s) \in FileStates /\ Created(f, s) # NoFile
  BY CreatedType DEF Opened
<1>2. total \in Nat
  BY <1>1, SizeType
<1>3. Acceptable(total, g)
  BY DEF Opened
<1>4. s.geo \in Geometries
  BY DEF Options
<1>5. FlatImage(p, f, s) = ImageOf(total, s)
  BY DEF FlatImage
<1> HIDE DEF total
<1>6. Fits(ImageOf(total, s))
  BY <1>2, <1>3, <1>4, AcceptableFits
<1>7. g \in Geometries
  BY <1>4, AskedInRange DEF AskedGeometry
<1>8. InitGeometry(total, g) \in Geometries
  <2>1. (total \div 63) \div 16 \in Nat
    BY <1>2
  <2> QED
    BY <1>7, <2>1, StandardMaxNat DEF InitGeometry, Geometry, Geometries
<1>9. total \in Totals
  BY <1>2, <1>3 DEF Acceptable, Totals
<1>10. /\ ImageOf(total, s) \in Images
      /\ ImageOf(total, s).readOnly = s.readOnly
      /\ ImageOf(total, s).useCHS = (ImageOf(total, s).floppy \/ s.useCHS)
  BY <1>8, <1>9 DEF ImageOf, Images, Options
<1> QED
  BY <1>5, <1>6, <1>10

\* Records with fields replaced.
LEMMA TakeSizeType ==
    ASSUME NEW o \in Options, NEW n \in Nat
    PROVE  LET x == TakeSize(o, n)
           IN x \in Options /\ x.readOnly = o.readOnly /\ x.useCHS = o.useCHS
<1> DEFINE g == IF n = 0 THEN o.geo ELSE SizeGeometry(n)
<1>1. g \in Geometries
  BY SizeGeometryType DEF Options
<1>2. TakeSize(o, n) = [o EXCEPT !.create = TRUE, !.geo = g]
  BY Zenon DEF TakeSize
<1> HIDE DEF g
<1> QED
  BY <1>1, <1>2 DEF Options

LEMMA TakeGeometryType ==
    ASSUME NEW o \in Options, NEW h \in Geometries
    PROVE  LET x == TakeGeometry(o, h)
           IN x \in Options /\ x.readOnly = o.readOnly /\ x.useCHS
<1> DEFINE g == IF parseGeometry(h) THEN h ELSE o.geo
<1>1. g \in Geometries
  BY DEF Options
<1>2. TakeGeometry(o, h) = [o EXCEPT !.useCHS = TRUE, !.geo = g]
  BY Zenon DEF TakeGeometry
<1> HIDE DEF g
<1> QED
  BY <1>1, <1>2 DEF Options

LEMMA ReadOnlyType ==
    ASSUME NEW o \in Options
    PROVE  LET x == [o EXCEPT !.readOnly = TRUE]
           IN x \in Options /\ x.readOnly /\ x.useCHS = o.useCHS
  BY DEF Options

LEMMA MainsNext ==
    ASSUME NEW w \in Mains, NEW x \in Options
    PROVE  LET v == [w EXCEPT !.next = x]
           IN v \in Mains /\ v.next = x /\ v.images = w.images /\ v.files = w.files
  BY DEF Mains

LEMMA MainsPort ==
    ASSUME NEW w \in Mains, NEW q \in {"com", "pipe"}, NEW r \in Nat
    PROVE  /\ LET v == [w EXCEPT !.timeout = FALSE]
              IN v \in Mains /\ v.next = w.next /\ v.images = w.images /\ v.files = w.files
           /\ LET v == [w EXCEPT !.port = q]
              IN v \in Mains /\ v.next = w.next /\ v.images = w.images /\ v.files = w.files
           /\ LET v == [w EXCEPT !.port = q, !.rate = r]
              IN v \in Mains /\ v.next = w.next /\ v.images = w.images /\ v.files = w.files
  BY DEF Mains

LEMMA MainsRefused ==
    ASSUME NEW w \in Mains
    PROVE  LET v == [w EXCEPT !.refused = TRUE]
           IN v \in Mains /\ v.refused /\ v.images = w.images /\ v.files = w.files
  BY DEF Mains

LEMMA MainsFile ==
    ASSUME NEW w \in Mains, NEW fs \in [Names -> FileStates], NEW imgs \in Seq(Images),
           NEW b \in BOOLEAN, NEW x \in Options
    PROVE  LET v == [w EXCEPT !.files = fs, !.images = imgs, !.refused = b, !.next = x]
           IN /\ v \in Mains /\ v.next = x /\ v.images = imgs /\ v.files = fs
              /\ v.refused = b
  BY DEF Mains

\* Any argument but a file name leaves the images and the files alone.
LEMMA TakeOptionStep ==
    ASSUME NEW p, NEW w \in Mains, NEW a \in Arguments, a.opt # "file"
    PROVE  LET next == TakeArgument(p, w, a)
           IN /\ next \in Mains /\ next.images = w.images /\ next.files = w.files
              /\ next.next.readOnly = (w.next.readOnly \/ a.opt = "r")
              /\ next.next.useCHS = (w.next.useCHS \/ a.opt = "g")
<1> DEFINE next == TakeArgument(p, w, a)
<1>1. w.next \in Options /\ w.next.readOnly \in BOOLEAN /\ w.next.useCHS \in BOOLEAN
  BY DEF Mains, Options
<1>2. CASE a.opt = "n"
  <2>1. a.size \in Nat
    BY <1>2, ArgumentAssumption
  <2> DEFINE x == TakeSize(w.next, a.size)
  <2>2. next = [w EXCEPT !.next = x]
    BY <1>2, Zenon DEF TakeArgument
  <2>3. x \in Options /\ x.readOnly = w.next.readOnly /\ x.useCHS = w.next.useCHS
    BY <1>1, <2>1, TakeSizeType, Zenon
  <2> HIDE DEF x, next
  <2>4. next \in Mains /\ next.next = x /\ next.images = w.images /\ next.files = w.files
    BY <2>2, <2>3, MainsNext, Zenon
  <2> QED
    BY <1>1, <1>2, <2>3, <2>4 DEF next
<1>3. CASE a.opt = "g"
  <2>1. a.geo \in Geometries
    BY <1>3, ArgumentAssumption
  <2> DEFINE x == TakeGeometry(w.next, a.geo)
             bad == a.geo # NoGeometry /\ ~parseGeometry(a.geo)
  <2>2. next = [w EXCEPT !.next = x, !.refused = bad]
    BY <1>3, Zenon DEF TakeArgument
  <2>3. x \in Options /\ x.readOnly = w.next.readOnly /\ x.useCHS
    BY <1>1, <2>1, TakeGeometryType, Zenon
  <2>4. bad \in BOOLEAN
    OBVIOUS
  <2> HIDE DEF x, bad, next
  <2>5. next \in Mains /\ next.next = x /\ next.images = w.images /\ next.files = w.files
    BY <2>2, <2>3, <2>4 DEF Mains
  <2> QED
    BY <1>1, <1>3, <2>3, <2>5 DEF next
<1>4. CASE a.opt = "r"
  <2> DEFINE x == [w.next EXCEPT !.readOnly = TRUE]
  <2>1. next = [w EXCEPT !.next = x]
    BY <1>4, Zenon DEF TakeArgument
  <2>2. x \in Options /\ x.readOnly /\ x.useCHS = w.next.useCHS
    BY <1>1, ReadOnlyType, Zenon
  <2> HIDE DEF x, next
  <2>3. next \in Mains /\ next.next = x /\ next.images = w.images /\ next.files = w.files
    BY <2>1, <2>2, MainsNext, Zenon
  <2> QED
    BY <1>1, <1>4, <2>2, <2>3 DEF next
<1>5. CASE a.opt \in {"t", "c", "p", "b"}
  <2> DEFINE rate == baudRateMatchString(a.rate)
             port == PipeRate(w.rate)
  <2>1. \/ next = [w EXCEPT !.timeout = FALSE]
        \/ next = [w EXCEPT !.port = "com"]
        \/ next = [w EXCEPT !.port = "pipe", !.rate = port]
        \/ next = [w EXCEPT !.rate = rate, !.refused = (rate = 0)]
    BY <1>5, Zenon DEF TakeArgument
  <2>2. rate \in Nat /\ port \in Nat
    BY RateType DEF PipeRate, Mains
  <2> HIDE DEF rate, port, next
  <2>3. next \in Mains /\ next.next = w.next /\ next.images = w.images /\ next.files = w.files
    <3>1. CASE next = [w EXCEPT !.timeout = FALSE]
      BY <2>2, <3>1, MainsPort, Zenon
    <3>2. CASE next = [w EXCEPT !.port = "com"]
      BY <2>2, <3>2, MainsPort, Zenon
    <3>3. CASE next = [w EXCEPT !.port = "pipe", !.rate = port]
      BY <2>2, <3>3, MainsPort, Zenon
    <3>4. CASE next = [w EXCEPT !.rate = rate, !.refused = (rate = 0)]
      BY <2>2, <3>4 DEF Mains
    <3> QED
      BY <2>1, <3>1, <3>2, <3>3, <3>4, Zenon
  <2> QED
    BY <1>1, <1>5, <2>3 DEF next
<1> QED
  BY <1>2, <1>3, <1>4, <1>5, ArgumentAssumption

\* An image file adds its image, made from the options so far, and ends them.
LEMMA TakeFileStep ==
    ASSUME NEW p \in Platforms, NEW w \in Mains, NEW a \in Arguments,
           a.opt = "file"
    PROVE  LET next == TakeFile(p, w, a)
           IN /\ next \in Mains
              /\ \A n \in Names : w.files[n] # NoFile => next.files[n] = w.files[n]
              /\ ~next.refused =>
                    /\ next.next = NoOptions
                    /\ \E img \in Images :
                          /\ next.images = Append(w.images, img)
                          /\ Fits(img)
                          /\ img.readOnly = w.next.readOnly
                          /\ img.useCHS = (img.floppy \/ w.next.useCHS)
<1> DEFINE s == ImageOptions(w.next)
           f == w.files[a.name]
           next == TakeFile(p, w, a)
<1>1. /\ w.next \in Options /\ w.images \in Seq(Images)
      /\ w.files \in [Names -> FileStates] /\ f \in FileStates /\ a.name \in Names
  BY ArgumentAssumption DEF Mains
<1>2. s \in Options /\ s.useCHS = w.next.useCHS /\ s.readOnly = w.next.readOnly
  BY <1>1, ImageOptionsType, Zenon
<1>3. Created(f, s) \in FileStates /\ (f # NoFile => Created(f, s) = f)
  BY <1>1, <1>2, CreatedType, Zenon
<1>4. NoOptions \in Options
  BY DEF NoOptions, Options, NoGeometry, Geometries
<1>5. CASE Len(w.images) = 2
  <2>1. next = [w EXCEPT !.refused = TRUE]
    BY <1>5, Zenon DEF TakeFile
  <2> HIDE DEF next
  <2>2. next \in Mains /\ next.refused /\ next.files = w.files
    BY <2>1, MainsRefused, Zenon
  <2> QED
    BY <2>2, Zenon DEF next
<1>6. CASE Len(w.images) # 2
  <2> DEFINE opened == Opened(p, f, s)
             img == FlatImage(p, f, s)
             imgs == IF opened THEN Append(w.images, img) ELSE w.images
             files == [w.files EXCEPT ![a.name] = Created(f, s)]
  <2>1. next = [w EXCEPT !.files = files, !.images = imgs,
                         !.refused = ~opened, !.next = NoOptions]
    BY <1>6, Zenon DEF TakeFile
  <2>2. opened \in BOOLEAN
    BY DEF Opened
  <2>3. opened => /\ img \in Images /\ Fits(img) /\ img.readOnly = w.next.readOnly
                  /\ img.useCHS = (img.floppy \/ w.next.useCHS)
    BY <1>1, <1>2, OpenedImage, Zenon
  <2>4. /\ files \in [Names -> FileStates]
        /\ \A n \in Names : w.files[n] # NoFile => files[n] = w.files[n]
    <3>1. f = w.files[a.name]
      OBVIOUS
    <3> DEFINE made == Created(f, s)
    <3> HIDE DEF f, s, made
    <3> QED
      BY <1>1, <1>3, <3>1 DEF made
  <2> HIDE DEF opened, img, files, s, f, next
  <2>5. imgs \in Seq(Images)
    BY <1>1, <2>3
  <2>6. opened => imgs = Append(w.images, img)
    OBVIOUS
  <2> HIDE DEF imgs
  <2>7. next \in Mains /\ next.next = NoOptions /\ next.images = imgs /\ next.files = files
    BY <1>4, <2>1, <2>2, <2>4, <2>5 DEF Mains
  <2>8. next.refused <=> ~opened
    BY <2>1, <2>2 DEF Mains
  <2> QED
    BY <2>3, <2>4, <2>6, <2>7, <2>8, Zenon DEF next
<1> QED
  BY <1>5, <1>6

-----------------------------------------------------------------------------
(* The inductive invariant: next to the images, the options given so far are *)
(* the ones in force.                                                        *)

HistoryInv == /\ Len(given) = Len(m.images) + 1
              /\ m.next.readOnly <=> "r" \in given[Len(given)]
              /\ m.next.useCHS <=> "g" \in given[Len(given)]

IInv == TypeInv /\ HistoryInv /\ GeometryFitsFile /\ OptionsOwnImage

LEMMA StartType ==
    ASSUME NEW fs \in [Names -> FileStates], NEW v,
           v = Start(fs) \/ v = [Start(fs) EXCEPT !.refused = TRUE]
    PROVE  /\ v \in Mains /\ v.images = << >> /\ v.files = fs
           /\ v.next.readOnly = FALSE /\ v.next.useCHS = FALSE
<1>1. NoOptions \in Options /\ NoOptions.readOnly = FALSE /\ NoOptions.useCHS = FALSE
  BY DEF NoOptions, Options, NoGeometry, Geometries
<1>2. << >> \in Seq(Images)
  OBVIOUS
<1>3. CASE v = Start(fs)
  BY <1>1, <1>2, <1>3 DEF Start, Mains
<1>4. CASE v = [Start(fs) EXCEPT !.refused = TRUE]
  BY <1>1, <1>2, <1>4 DEF Start, Mains
<1> QED
  BY <1>3, <1>4

LEMMA FreshStart ==
    ASSUME NEW fs \in [Names -> FileStates], platform' \in Platforms,
           serving' \in BOOLEAN, given' = <<{}>>,
           m' = Start(fs) \/ m' = [Start(fs) EXCEPT !.refused = TRUE]
    PROVE  IInv' /\ m'.files = fs
<1>1. /\ m' \in Mains /\ m'.images = << >> /\ m'.files = fs
      /\ m'.next.readOnly = FALSE /\ m'.next.useCHS = FALSE
  BY StartType
<1>2. TypeInv' /\ HistoryInv'
  BY <1>1 DEF TypeInv, HistoryInv
<1>3. GeometryFitsFile' /\ OptionsOwnImage'
  BY <1>1 DEF GeometryFitsFile, OptionsOwnImage
<1> QED
  BY <1>1, <1>2, <1>3 DEF IInv

\* The program takes an option and goes on.
LEMMA OptionKept ==
    ASSUME IInv, NEW a \in Arguments, a.opt # "file",
           m' = TakeArgument(platform, m, a),
           given' = [given EXCEPT ![Len(given)] = @ \cup {a.opt}],
           UNCHANGED <<platform, serving>>
    PROVE  IInv' /\ m'.files = m.files
<1>1. m \in Mains
  BY DEF IInv, TypeInv
<1>2. /\ m' \in Mains /\ m'.images = m.images /\ m'.files = m.files
      /\ m'.next.readOnly = (m.next.readOnly \/ a.opt = "r")
      /\ m'.next.useCHS = (m.next.useCHS \/ a.opt = "g")
  BY <1>1, TakeOptionStep
<1>3. a.opt \in Letters
  BY ArgumentAssumption, Zenon DEF Letters
<1>4. Len(given) = Len(m.images) + 1 /\ given \in Seq(SUBSET Letters) /\ m.images \in Seq(Images)
  BY <1>1 DEF IInv, TypeInv, HistoryInv, Mains
<1>5. /\ given' \in Seq(SUBSET Letters) /\ Len(given') = Len(given)
      /\ given'[Len(given)] = given[Len(given)] \cup {a.opt}
      /\ \A i \in 1..Len(m.images) : given'[i] = given[i]
  BY <1>3, <1>4
<1>6. TypeInv'
  <2>1. platform' \in Platforms /\ serving' \in BOOLEAN
    BY DEF IInv, TypeInv
  <2>2. m' \in Mains /\ given' \in Seq(SUBSET Letters)
    BY <1>2, <1>5, Zenon
  <2> QED
    BY <2>1, <2>2 DEF TypeInv
<1>7. HistoryInv'
  BY <1>2, <1>4, <1>5 DEF IInv, HistoryInv
<1>8. GeometryFitsFile'
  BY <1>2 DEF IInv, GeometryFitsFile
<1>9. OptionsOwnImage'
  BY <1>2, <1>4, <1>5 DEF IInv, OptionsOwnImage
<1> QED
  BY <1>2, <1>6, <1>7, <1>8, <1>9 DEF IInv

\* The program takes an image file and goes on.
LEMMA ImageAdded ==
    ASSUME IInv, NEW a \in Arguments, a.opt = "file",
           m' = TakeFile(platform, m, a), ~m'.refused,
           given' = Append(given, {}),
           UNCHANGED <<platform, serving>>
    PROVE  IInv'
<1>1. m \in Mains /\ platform \in Platforms
  BY DEF IInv, TypeInv
<1>2. /\ m' \in Mains /\ m'.next = NoOptions
      /\ \E img \in Images :
            /\ m'.images = Append(m.images, img)
            /\ Fits(img)
            /\ img.readOnly = m.next.readOnly
            /\ img.useCHS = (img.floppy \/ m.next.useCHS)
  BY <1>1, TakeFileStep
<1>3. PICK img \in Images :
            /\ m'.images = Append(m.images, img)
            /\ Fits(img)
            /\ img.readOnly = m.next.readOnly
            /\ img.useCHS = (img.floppy \/ m.next.useCHS)
  BY <1>2
<1>4. Len(given) = Len(m.images) + 1 /\ given \in Seq(SUBSET Letters) /\ m.images \in Seq(Images)
  BY <1>1 DEF IInv, TypeInv, HistoryInv, Mains
<1>5. /\ given' \in Seq(SUBSET Letters) /\ Len(given') = Len(given) + 1
      /\ given'[Len(given')] = {}
      /\ \A i \in 1..Len(given) : given'[i] = given[i]
  BY <1>4
<1>6. /\ Len(m'.images) = Len(given) /\ DOMAIN m'.images = 1..Len(given)
      /\ m'.images[Len(given)] = img
      /\ \A i \in 1..Len(m.images) : m'.images[i] = m.images[i]
  BY <1>3, <1>4
<1>7. DOMAIN m.images = 1..Len(m.images)
  BY <1>4
<1>8. TypeInv'
  <2>1. platform' \in Platforms /\ serving' \in BOOLEAN
    BY DEF IInv, TypeInv
  <2>2. m' \in Mains /\ given' \in Seq(SUBSET Letters)
    BY <1>2, <1>5, Zenon
  <2> QED
    BY <2>1, <2>2 DEF TypeInv
<1>9. HistoryInv'
  BY <1>2, <1>4, <1>5, <1>6 DEF HistoryInv, NoOptions
<1>10. GeometryFitsFile'
  <2>1. \A i \in 1..Len(m.images) : Fits(m'.images[i])
    BY <1>6, <1>7 DEF IInv, GeometryFitsFile
  <2> QED
    BY <1>3, <1>4, <1>6, <2>1 DEF GeometryFitsFile
<1>11. OptionsOwnImage'
  <2> DEFINE Own(i) == /\ m'.images[i].readOnly <=> "r" \in given'[i]
                       /\ m'.images[i].useCHS <=> "g" \in given'[i] \/ m'.images[i].floppy
  <2>1. \A i \in 1..Len(m.images) : Own(i)
    BY <1>4, <1>5, <1>6, <1>7 DEF IInv, OptionsOwnImage
  <2>2. Own(Len(given))
    <3>1. /\ m.next.readOnly <=> "r" \in given[Len(given)]
          /\ m.next.useCHS <=> "g" \in given[Len(given)]
      BY DEF IInv, HistoryInv
    <3>2. given'[Len(given)] = given[Len(given)]
      BY <1>4, <1>5
    <3> QED
      BY <1>3, <1>6, <3>1, <3>2, Zenon
  <2> HIDE DEF Own
  <2>3. \A i \in 1..Len(given) : Own(i)
    BY <1>4, <2>1, <2>2
  <2> QED
    BY <1>6, <2>3 DEF OptionsOwnImage, Own
<1> QED
  BY <1>8, <1>9, <1>10, <1>11 DEF IInv

\* After the last argument only the rate is settled.
LEMMA ConnectedStep ==
    ASSUME NEW p, NEW w \in Mains
    PROVE  LET next == Connected(p, w)
           IN next \in Mains /\ next.next = w.next /\ next.images = w.images
              /\ next.files = w.files
<1> DEFINE rate == PortRate(w.rate)
           whole == p = "win32" /\ w.port # "pipe"
           rated == [w EXCEPT !.rate = rate, !.whole = whole]
           bad == w.images = << >> \/ ~Connects(p, rated)
           next == Connected(p, w)
<1>1. next = [rated EXCEPT !.refused = bad]
  BY Zenon DEF Connected
<1>2. rate \in Nat /\ whole \in BOOLEAN
  BY DEF PortRate, Mains
<1> HIDE DEF rate, whole
<1>3. rated \in Mains /\ rated.next = w.next /\ rated.images = w.images /\ rated.files = w.files
  BY <1>2 DEF Mains
<1>4. bad \in BOOLEAN
  OBVIOUS
<1> HIDE DEF rated, bad, next
<1>5. /\ next \in Mains /\ next.next = rated.next /\ next.images = rated.images
      /\ next.files = rated.files
  BY <1>1, <1>3, <1>4 DEF Mains
<1> QED
  BY <1>3, <1>5 DEF next

LEMMA Started == SetupInit => IInv
<1> SUFFICES ASSUME SetupInit PROVE IInv
  OBVIOUS
<1>1. PICK f \in Files : m = Start(f)
  BY DEF SetupInit
<1>2. f \in [Names -> FileStates]
  BY FileAssumption
<1>3. m \in Mains /\ m.images = << >> /\ m.next.readOnly = FALSE /\ m.next.useCHS = FALSE
  BY <1>1, <1>2, StartType
<1>4. platform \in Platforms /\ serving = FALSE /\ given = <<{}>>
  BY DEF SetupInit
<1>5. TypeInv /\ HistoryInv
  <2>1. given \in Seq(SUBSET Letters) /\ Len(given) = 1 /\ given[1] = {}
    BY <1>4
  <2>2. TypeInv
    BY <1>3, <1>4, <2>1 DEF TypeInv
  <2>3. HistoryInv
    BY <1>3, <2>1 DEF HistoryInv
  <2> QED
    BY <2>2, <2>3
<1>6. GeometryFitsFile /\ OptionsOwnImage
  BY <1>3 DEF GeometryFitsFile, OptionsOwnImage
<1> QED
  BY <1>5, <1>6 DEF IInv

FileStep == \A f \in Names : m.files[f] # NoFile => m'.files[f] = m.files[f]

\* Every step keeps the invariant, and every file that is there.
LEMMA Stepped == IInv /\ [SetupNext]_setupVars => IInv' /\ FileStep
<1> SUFFICES ASSUME IInv, [SetupNext]_setupVars PROVE IInv' /\ FileStep
  OBVIOUS
<1>1. /\ m \in Mains /\ platform \in Platforms /\ serving \in BOOLEAN
      /\ m.files \in [Names -> FileStates]
  BY DEF IInv, TypeInv, Mains
<1>2. CASE Option
  <2>1. UNCHANGED <<platform, serving>>
    BY <1>2 DEF Option
  <2>2. PICK a \in Arguments :
           LET next == TakeArgument(platform, m, a)
           IN \/ next.refused /\ Exit(next.files)
              \/ ~next.refused /\ m' = next
                 /\ given' = IF a.opt = "file" THEN Append(given, {})
                             ELSE [given EXCEPT ![Len(given)] = @ \cup {a.opt}]
    BY <1>2, Zenon DEF Option
  <2> DEFINE next == TakeArgument(platform, m, a)
  <2>3. CASE a.opt = "file"
    <3>1. next = TakeFile(platform, m, a)
      BY <2>3, Zenon DEF TakeArgument
    <3>2. next \in Mains /\ \A n \in Names : m.files[n] # NoFile => next.files[n] = m.files[n]
      BY <1>1, <2>3, <3>1, TakeFileStep
    <3>3. CASE Exit(next.files)
      <4>1. next.files \in [Names -> FileStates]
        BY <3>2 DEF Mains
      <4> HIDE DEF next
      <4>2. IInv' /\ m'.files = next.files
        BY <1>1, <2>1, <3>3, <4>1, FreshStart DEF Exit
      <4> QED
        BY <3>2, <4>2 DEF FileStep
    <3>4. CASE ~next.refused /\ m' = next /\ given' = Append(given, {})
      <4>1. IInv'
        BY <2>1, <2>3, <3>1, <3>4, ImageAdded
      <4> QED
        BY <3>2, <3>4, <4>1 DEF FileStep
    <3> QED
      BY <2>2, <2>3, <3>3, <3>4, Zenon
  <2>4. CASE a.opt # "file"
    <3>1. next \in Mains /\ next.files = m.files
      BY <1>1, <2>4, TakeOptionStep
    <3>2. CASE Exit(next.files)
      <4> HIDE DEF next
      <4>1. IInv' /\ m'.files = next.files
        BY <1>1, <2>1, <3>1, <3>2, FreshStart DEF Exit
      <4> QED
        BY <3>1, <4>1 DEF FileStep
    <3>3. CASE m' = next /\ given' = [given EXCEPT ![Len(given)] = @ \cup {a.opt}]
      <4>1. IInv' /\ m'.files = m.files
        BY <2>1, <2>4, <3>3, OptionKept
      <4> QED
        BY <4>1 DEF FileStep
    <3> QED
      BY <2>2, <2>4, <3>2, <3>3, Zenon
  <2> QED
    BY <2>3, <2>4
<1>3. CASE CreationBreaks
  <2>1. UNCHANGED <<platform, serving>>
    BY <1>3 DEF CreationBreaks
  <2>2. PICK a \in Arguments :
           /\ a.opt = "file" /\ m.files[a.name] = NoFile
           /\ \E n \in {0, 1008} :
                 /\ n < Sectors(ImageOptions(m.next).geo)
                 /\ Exit([m.files EXCEPT ![a.name] = FileOf(n)])
    BY <1>3, Zenon DEF CreationBreaks
  <2> PICK n \in {0, 1008} : Exit([m.files EXCEPT ![a.name] = FileOf(n)])
    BY <2>2
  <2> DEFINE fs == [m.files EXCEPT ![a.name] = FileOf(n)]
  <2>3. FileOf(n) \in FileStates
    BY DEF FileOf, FileStates
  <2>4. fs \in [Names -> FileStates] /\ \A f \in Names : m.files[f] # NoFile => fs[f] = m.files[f]
    <3>1. a.name \in Names
      BY <2>2, ArgumentAssumption
    <3> HIDE DEF NoFile
    <3> QED
      BY <1>1, <2>2, <2>3, <3>1
  <2> HIDE DEF fs
  <2>5. IInv' /\ m'.files = fs
    BY <1>1, <2>1, <2>4, FreshStart DEF Exit, fs
  <2> QED
    BY <2>4, <2>5 DEF FileStep
<1>4. CASE Serve
  <2> DEFINE next == Connected(platform, m)
  <2>1. /\ next \in Mains /\ next.next = m.next /\ next.images = m.images
        /\ next.files = m.files
    BY <1>1, ConnectedStep
  <2>2. UNCHANGED platform
    BY <1>4 DEF Serve
  <2>3. \/ Exit(next.files) /\ UNCHANGED serving
        \/ m' = next /\ serving' = TRUE /\ UNCHANGED given
    BY <1>4, Zenon DEF Serve
  <2> HIDE DEF next
  <2>4. CASE Exit(next.files) /\ UNCHANGED serving
    <3>1. IInv' /\ m'.files = next.files
      BY <1>1, <2>1, <2>2, <2>4, FreshStart DEF Exit
    <3> QED
      BY <2>1, <3>1 DEF FileStep
  <2>5. CASE m' = next /\ serving' = TRUE /\ UNCHANGED given
    <3>1. TypeInv'
      BY <2>1, <2>2, <2>5 DEF IInv, TypeInv
    <3>2. HistoryInv'
      BY <2>1, <2>5 DEF IInv, HistoryInv
    <3>3. GeometryFitsFile'
      BY <2>1, <2>5 DEF IInv, GeometryFitsFile
    <3>4. OptionsOwnImage'
      BY <2>1, <2>5 DEF IInv, OptionsOwnImage
    <3> QED
      BY <2>1, <2>5, <3>1, <3>2, <3>3, <3>4 DEF IInv, FileStep
  <2> QED
    BY <2>3, <2>4, <2>5
<1>5. CASE StartAgain
  <2>1. /\ platform' = platform /\ m' = Start(m.files) /\ serving' = FALSE
        /\ given' = <<{}>>
    BY <1>5 DEF StartAgain
  <2>2. IInv' /\ m'.files = m.files
    BY <1>1, <2>1, FreshStart
  <2> QED
    BY <2>2 DEF FileStep
<1>6. CASE UNCHANGED setupVars
  BY <1>6 DEF setupVars, IInv, TypeInv, HistoryInv, GeometryFitsFile, OptionsOwnImage, FileStep
<1> QED
  BY <1>2, <1>3, <1>4, <1>5, <1>6 DEF SetupNext

-----------------------------------------------------------------------------
(* The theorems.                                                             *)

LEMMA Invariance == SetupSpec => []IInv
<1>1. SetupInit => IInv
  BY Started
<1>2. IInv /\ [SetupNext]_setupVars => IInv'
  BY Stepped
<1> QED
  BY <1>1, <1>2, PTL DEF SetupSpec

\* Whatever the command lines, the files and the history of starts, an image that is
\* served has a geometry in range that is its file's (Image::init).
THEOREM GeometriesFit == SetupSpec => []GeometryFitsFile
<1>1. IInv => GeometryFitsFile
  BY DEF IInv
<1> QED
  BY <1>1, Invariance, PTL

\* An option never reaches an image of another file (the resets of main).
THEOREM OptionsStay == SetupSpec => []OptionsOwnImage
<1>1. IInv => OptionsOwnImage
  BY DEF IInv
<1> QED
  BY <1>1, Invariance, PTL

\* No start changes a file that is there, whatever the order of the options and
\* wherever it ends (Create of the file classes).
THEOREM NoFileChanged == SetupSpec => FilesKept
<1>1. IInv /\ [SetupNext]_setupVars => [FileStep]_setupVars
  BY Stepped
<1> QED
  BY <1>1, Invariance, PTL DEF SetupSpec, FilesKept, FileStep

-----------------------------------------------------------------------------
(* Addresses.                                                                *)

LEMMA QuotientUnique ==
    ASSUME NEW t \in Nat, NEW c \in Nat, NEW e \in Nat, NEW c2 \in Nat, NEW e2 \in Nat,
           e < t, e2 < t, c * t + e = c2 * t + e2
    PROVE  c = c2
<1>1. ASSUME c > c2 PROVE FALSE
  <2>1. PICK x \in Nat : c = c2 + 1 + x
    BY <1>1, c - c2 - 1 \in Nat
  <2>2. c * t = c2 * t + t + x * t /\ x * t >= 0
    BY <2>1
  <2> QED
    BY <2>2
<1>2. ASSUME c2 > c PROVE FALSE
  <2>1. PICK x \in Nat : c2 = c + 1 + x
    BY <1>2, c2 - c - 1 \in Nat
  <2>2. c2 * t = c * t + t + x * t /\ x * t >= 0
    BY <2>1
  <2> QED
    BY <2>2
<1> QED
  BY <1>1, <1>2

LEMMA Divided ==
    ASSUME NEW k \in Nat, NEW t \in Nat, t >= 1
    PROVE  /\ k \div t \in Nat /\ k % t \in Nat /\ k % t < t
           /\ k = (k \div t) * t + (k % t)
  OBVIOUS

\* Cylinder, head and sector of a sector number, and back.
LEMMA ChsInverse ==
    ASSUME NEW k \in Nat, NEW h \in Nat, NEW s \in Nat, h >= 1, s >= 1
    PROVE  LET c == k \div (h * s)
               d == (k \div s) % h
               r == k % s
           IN /\ c \in Nat /\ d \in Nat /\ r \in Nat /\ d < h /\ r < s
              /\ c * (h * s) <= k
              /\ (c * h + d) * s + r = k
<1> DEFINE t == h * s
           c == k \div t
           q == k \div s
           d == q % h
           r == k % s
           c2 == q \div h
           e == k % t
           e2 == d * s + r
<1>1. q \in Nat /\ r \in Nat /\ r < s /\ k = q * s + r
  BY Divided
<1> HIDE DEF q, r
<1>2. c2 \in Nat /\ d \in Nat /\ d < h /\ q = c2 * h + d
  BY <1>1, Divided
<1> HIDE DEF c2, d
<1>3. t \in Nat /\ t >= 1
  OBVIOUS
<1>4. c \in Nat /\ e \in Nat /\ e < t /\ k = c * t + e
  <2> HIDE DEF t
  <2> QED
    BY <1>3, Divided DEF c
<1> HIDE DEF c, e
<1>5. e2 \in Nat /\ e2 < t
  <2>1. PICK x \in Nat : h = d + 1 + x
    BY <1>2, h - d - 1 \in Nat
  <2>2. t = d * s + s + x * s /\ x * s \in Nat /\ d * s \in Nat
    BY <1>2, <2>1
  <2> QED
    BY <1>1, <2>2
<1>6. k = c2 * t + e2
  <2>1. q * s = (c2 * h + d) * s
    BY <1>2
  <2>2. (c2 * h + d) * s = c2 * (h * s) + d * s
    BY <1>2
  <2> QED
    BY <1>1, <1>2, <2>1, <2>2
<1>7. c = c2
  <2> HIDE DEF t, e2
  <2> QED
    BY <1>2, <1>3, <1>4, <1>5, <1>6, QuotientUnique
<1>8. (c * h + d) * s + r = k
  BY <1>1, <1>2, <1>7
<1>9. c * t <= k
  BY <1>3, <1>4
<1> QED
  BY <1>1, <1>2, <1>4, <1>8, <1>9 DEF c, d, q, r, t

LEMMA ChsReached ==
    ASSUME NEW img \in Images, InRange(img.geo), NEW k \in Nat, k < Sectors(img.geo)
    PROVE  LbaOf(img, ChsOf(RespondInquire(img), k)) = k
<1> DEFINE g == img.geo
           c == k \div (g.head * g.sect)
           d == (k \div g.sect) % g.head
           r == k % g.sect
<1>1. /\ g.cyl \in Nat /\ g.head \in Nat /\ g.sect \in Nat
      /\ g.head >= 1 /\ g.head <= 16 /\ g.sect >= 1 /\ g.sect <= 255
  BY DEF Images, Geometries, InRange
<1>2. /\ c \in Nat /\ d \in Nat /\ r \in Nat /\ d < g.head /\ r < g.sect
      /\ c * (g.head * g.sect) <= k
      /\ (c * g.head + d) * g.sect + r = k
  BY <1>1, ChsInverse, Zenon
<1>3. k < g.cyl * g.head * g.sect
  BY DEF Sectors
<1>4. ChsOf(RespondInquire(img), k) = ChsAddress(c, d, r + 1)
  BY DEF ChsOf, RespondInquire
<1> HIDE DEF c, d, r, g
<1>5. c < g.cyl
  <2>1. SUFFICES ASSUME c >= g.cyl PROVE FALSE
    BY <1>1, <1>2
  <2>2. PICK x \in Nat : c = g.cyl + x
    BY <1>1, <1>2, <2>1, c - g.cyl \in Nat
  <2>3. c * (g.head * g.sect) = g.cyl * g.head * g.sect + x * (g.head * g.sect)
    BY <1>1, <2>2
  <2>4. x * (g.head * g.sect) >= 0
    BY <1>1
  <2> QED
    BY <1>1, <1>2, <1>3, <2>3, <2>4
<1>6. Word(c) = c /\ d % 16 = d /\ (r + 1) % 256 = r + 1
  <2>1. g.cyl <= 65536
    BY <1>1 DEF InRange, MaxCylinders, g
  <2>2. c \in Nat /\ d \in Nat /\ r \in Nat /\ d < g.head /\ r < g.sect
    BY <1>2, Zenon
  <2> QED
    BY <1>1, <1>5, <2>1, <2>2 DEF Word
<1>7. ChsAddress(c, d, r + 1) = [mode |-> "chs", cyl |-> c, head |-> d, sect |-> r + 1]
  BY <1>6 DEF ChsAddress
<1>8. LbaOf(img, ChsAddress(c, d, r + 1)) = (c * g.head + d) * g.sect + (r + 1) - 1
  BY <1>7 DEF LbaOf, g
<1>9. (c * g.head + d) * g.sect \in Nat
  BY <1>1, <1>2
<1> QED
  BY <1>2, <1>4, <1>8, <1>9

LEMMA LbaReached ==
    ASSUME NEW img, NEW k \in Nat, k <= MaxLba28
    PROVE  LbaOf(img, LbaAddress(k)) = k
<1>1. k % (MaxLba28 + 1) = k
  BY DEF MaxLba28
<1> QED
  BY <1>1 DEF LbaOf, LbaAddress

LEMMA Sought ==
    ASSUME NEW p \in Platforms, NEW k \in Nat
    PROVE  SeekSectors(p, k) = k
<1>1. Win32Seek(k) = k
  BY Divided DEF Win32Seek, LOW
<1> QED
  BY <1>1 DEF SeekSectors, LinuxSeek, Platforms

\* A client that follows the answer to its inquiry means the sector it addresses.
LEMMA AddressKept ==
    ASSUME NEW img \in Images, Fits(img), NEW k \in Nat, k < SectorsTold(img)
    PROVE  LbaOf(img, AddressOf(RespondInquire(img), k)) = k
<1>1. img.total \in Nat /\ img.total <= MaxLba28 /\ img.useCHS \in BOOLEAN
  BY DEF Images, Totals
<1>2. CASE img.useCHS
  <2>1. AddressOf(RespondInquire(img), k) = ChsOf(RespondInquire(img), k)
    BY <1>2, Zenon DEF AddressOf, RespondInquire
  <2>2. InRange(img.geo) /\ k < Sectors(img.geo)
    BY <1>2 DEF Fits, SectorsTold
  <2> QED
    BY <2>1, <2>2, ChsReached
<1>3. CASE ~img.useCHS
  <2>1. AddressOf(RespondInquire(img), k) = LbaAddress(k)
    BY <1>3, Zenon DEF AddressOf, RespondInquire
  <2>2. k <= MaxLba28
    BY <1>1, <1>3 DEF SectorsTold, MaxLba28
  <2> QED
    BY <2>1, <2>2, LbaReached
<1> QED
  BY <1>2, <1>3

\* For every geometry that fits, a client that follows the answer to its inquiry gets
\* the sector it means (respondInquire, the address computation of processRequests).
THEOREM SectorsReached == SetupSpec => []SectorsReachable
<1>1. ASSUME IInv PROVE SectorsReachable
  <2> SUFFICES ASSUME NEW i \in DOMAIN m.images
               PROVE  LET img == m.images[i]
                      IN \A k \in Places(SectorsTold(img)) :
                            /\ LbaOf(img, AddressOf(RespondInquire(img), k)) = k
                            /\ SeekSectors(platform, k) = k
    BY DEF SectorsReachable
  <2> DEFINE img == m.images[i]
             n == SectorsTold(img)
  <2>1. img \in Images /\ platform \in Platforms
    BY <1>1 DEF IInv, TypeInv, Mains
  <2>2. Fits(img)
    BY <1>1 DEF IInv, GeometryFitsFile
  <2>3. img.geo \in Geometries /\ img.total \in Nat /\ img.total <= MaxLba28 /\ img.useCHS \in BOOLEAN
    BY <2>1 DEF Images, Totals
  <2>4. n \in Nat
    BY <2>3, SectorsType DEF SectorsTold
  <2> HIDE DEF img, n
  <2>5. ASSUME NEW k \in Places(n)
        PROVE  /\ LbaOf(img, AddressOf(RespondInquire(img), k)) = k
               /\ SeekSectors(platform, k) = k
    <3>1. k \in 0..(n - 1) /\ n \in Nat
      BY <2>4, <2>5 DEF Places
    <3>2. k \in Nat /\ k < n
      BY <3>1
    <3>3. SeekSectors(platform, k) = k
      BY <2>1, <3>2, Sought
    <3>4. k < SectorsTold(img)
      BY <3>2 DEF n
    <3> QED
      BY <2>1, <2>2, <3>2, <3>3, <3>4, AddressKept
  <2> QED
    BY <2>5 DEF img, n
<1> QED
  BY <1>1, Invariance, PTL

-----------------------------------------------------------------------------
(* Sequences.                                                                *)

IsSeq(s) == s \in Seq(Range(s))

LEMMA SeqIs ==
    ASSUME NEW S, NEW s \in Seq(S)
    PROVE  IsSeq(s)
<1>1. Len(s) \in Nat /\ DOMAIN s = 1..Len(s) /\ s = [i \in 1..Len(s) |-> s[i]]
  OBVIOUS
<1>2. \A i \in 1..Len(s) : s[i] \in Range(s)
  BY <1>1 DEF Range
<1>3. s \in [1..Len(s) -> Range(s)]
  BY <1>1, <1>2
<1> QED
  BY <1>1, <1>3 DEF IsSeq

LEMMA SeqBasics ==
    ASSUME NEW s, IsSeq(s)
    PROVE  /\ Len(s) \in Nat /\ DOMAIN s = 1..Len(s)
           /\ s = << >> <=> Len(s) = 0
           /\ s # << >> <=> Len(s) >= 1
BY DEF IsSeq

LEMMA SeqSame ==
    ASSUME NEW s, NEW t, IsSeq(s), IsSeq(t), Len(s) = Len(t), \A i \in 1..Len(s) : s[i] = t[i]
    PROVE  s = t
<1>1. s = [i \in 1..Len(s) |-> s[i]] /\ t = [i \in 1..Len(t) |-> t[i]]
  BY DEF IsSeq
<1> QED
  BY <1>1

LEMMA Joined ==
    ASSUME NEW s, NEW t, IsSeq(s), IsSeq(t)
    PROVE  /\ IsSeq(s \o t) /\ Len(s \o t) = Len(s) + Len(t)
           /\ \A i \in 1..Len(s) : (s \o t)[i] = s[i]
           /\ \A i \in 1..Len(t) : (s \o t)[Len(s) + i] = t[i]
<1> DEFINE S == Range(s) \cup Range(t)
<1>1. s \in Seq(S) /\ t \in Seq(S)
  BY DEF IsSeq
<1>2. s \o t \in Seq(S)
  BY <1>1
<1>3. IsSeq(s \o t)
  BY <1>2, SeqIs
<1>4. /\ Len(s \o t) = Len(s) + Len(t)
      /\ \A i \in 1..Len(s) : (s \o t)[i] = s[i]
      /\ \A i \in 1..Len(t) : (s \o t)[Len(s) + i] = t[i]
  BY <1>1
<1> QED
  BY <1>3, <1>4

LEMMA Cut ==
    ASSUME NEW s, IsSeq(s), NEW n \in 0..Len(s)
    PROVE  /\ IsSeq(SubSeq(s, 1, n)) /\ Len(SubSeq(s, 1, n)) = n
           /\ \A i \in 1..n : SubSeq(s, 1, n)[i] = s[i]
           /\ IsSeq(SubSeq(s, n + 1, Len(s))) /\ Len(SubSeq(s, n + 1, Len(s))) = Len(s) - n
           /\ \A i \in 1..Len(s) - n : SubSeq(s, n + 1, Len(s))[i] = s[n + i]
           /\ SubSeq(s, 1, n) \o SubSeq(s, n + 1, Len(s)) = s
<1> DEFINE a == SubSeq(s, 1, n)
           b == SubSeq(s, n + 1, Len(s))
<1>1. s \in Seq(Range(s)) /\ Len(s) \in Nat
  BY DEF IsSeq
<1>2. a \in Seq(Range(s)) /\ Len(a) = n /\ \A i \in 1..n : a[i] = s[i]
  BY <1>1
<1>3. b \in Seq(Range(s)) /\ Len(b) = Len(s) - n /\ \A i \in 1..Len(s) - n : b[i] = s[n + i]
  BY <1>1
<1>4. IsSeq(a) /\ IsSeq(b)
  BY <1>2, <1>3, SeqIs, Zenon
<1> HIDE DEF a, b
<1>5. a \o b = s
  <2>1. IsSeq(a \o b) /\ Len(a \o b) = Len(s)
    BY <1>1, <1>2, <1>3, <1>4, Joined
  <2>2. ASSUME NEW i \in 1..Len(s) PROVE (a \o b)[i] = s[i]
    <3>1. CASE i <= n
      BY <1>1, <1>2, <1>3, <1>4, <3>1, Joined
    <3>2. CASE i > n
      <4>1. PICK j \in 1..Len(b) : i = Len(a) + j
        <5>1. i - n \in 1..Len(b) /\ i = Len(a) + (i - n)
          BY <1>1, <1>2, <1>3, <3>2
        <5> QED
          BY <5>1
      <4> QED
        BY <1>1, <1>2, <1>3, <1>4, <4>1, Joined
    <3>3. i <= n \/ i > n
      BY <1>1
    <3> QED
      BY <3>1, <3>2, <3>3
  <2> QED
    BY <1>1, <2>1, <2>2, SeqSame
<1> QED
  BY <1>2, <1>3, <1>4, <1>5, Zenon DEF a, b

LEMMA JoinedTwice ==
    ASSUME NEW a, NEW b, NEW c, IsSeq(a), IsSeq(b), IsSeq(c)
    PROVE  (a \o b) \o c = a \o (b \o c)
<1> DEFINE S == Range(a) \cup Range(b) \cup Range(c)
<1>1. a \in Seq(S) /\ b \in Seq(S) /\ c \in Seq(S)
  BY DEF IsSeq
<1> QED
  BY <1>1

LEMMA JoinedEmpty ==
    ASSUME NEW s, IsSeq(s)
    PROVE  << >> \o s = s /\ s \o << >> = s /\ IsSeq(<< >>)
<1>1. s \in Seq(Range(s)) /\ << >> \in Seq({})
  BY DEF IsSeq
<1>2. IsSeq(<< >>)
  BY <1>1, SeqIs, Zenon
<1>3. << >> \o s = s /\ s \o << >> = s
  BY <1>1
<1> QED
  BY <1>2, <1>3

LEMMA Parted ==
    ASSUME NEW a, NEW b, NEW c, NEW d, IsSeq(a), IsSeq(b), IsSeq(c), IsSeq(d),
           a \o b = c \o d, Len(a) = Len(c)
    PROVE  a = c /\ b = d
<1>1. Len(a) \in Nat /\ Len(b) \in Nat /\ Len(d) \in Nat
  BY SeqBasics
<1>2. Len(b) = Len(d)
  BY <1>1, Joined
<1>3. ASSUME NEW i \in 1..Len(a) PROVE a[i] = c[i]
  BY <1>1, Joined
<1>4. ASSUME NEW i \in 1..Len(b) PROVE b[i] = d[i]
  BY <1>1, <1>2, Joined
<1> QED
  BY <1>2, <1>3, <1>4, SeqSame

-----------------------------------------------------------------------------
(* The server as it was started, and the messages. From here on it runs where *)
(* a read returns what has arrived: on Linux or on a pipe.                   *)

Served ==
    /\ ~Whole
    /\ server.timeout = TRUE /\ server.rate \in Nat \ {0}
    /\ Drives \subseteq 0..1
    /\ \A d \in Drives : File(d) \in DOMAIN images
    /\ \A d, e \in Drives : File(d) = File(e) => d = e
    /\ \A d \in Drives, k \in 0..LAST_K : LbaOf(Image(d), AddressBy(d, k)) = k

LEMMA SizesType ==
    /\ CMD \in Nat /\ SECTOR \in Nat /\ CMD >= 4 /\ SECTOR > CMD /\ CMD <= 8
    /\ TIMEOUT \in Nat /\ TIMEOUT >= 1
    /\ LAST_K \in Nat /\ MAX_COUNT \in Nat /\ MAX_COUNT >= 1 /\ MAX_COUNT < 160
  BY SerialSizes, ClientAssumption DEF HEADER

LEMMA StartedServed == Init /\ ~Whole => Served
<1> SUFFICES ASSUME Init, ~Whole PROVE Served
  OBVIOUS
<1>1. PICK s \in Starts : server = Main(s.platform, s.files, s.arguments) /\ ~server.refused
  BY DEF Init
<1>2. /\ server.timeout /\ server.rate \in Nat \ {0}
      /\ images \in Seq(Images) /\ Len(images) \in 1..2
      /\ \A i \in DOMAIN images : Fits(images[i]) /\ LAST_K < SectorsTold(images[i])
  BY <1>1, StartsAssumption DEF images
<1>3. DOMAIN images = 1..Len(images) /\ Drives = 0..(Len(images) - 1)
  BY <1>2 DEF Drives
<1>4. order \in [1..Len(images) -> 1..Len(images)]
      /\ \A i, j \in 1..Len(images) : order[i] = order[j] => i = j
  <2>1. CASE Len(images) = 2 /\ images[1].floppy /\ ~images[2].floppy
    <3>1. order = <<2, 1>>
      BY <2>1 DEF order, DriveOrder
    <3> QED
      BY <2>1, <3>1
  <2>2. CASE ~(Len(images) = 2 /\ images[1].floppy /\ ~images[2].floppy)
    <3>1. order = [k \in 1..Len(images) |-> k]
      BY <2>2 DEF order, DriveOrder
    <3> QED
      BY <1>2, <3>1
  <2> QED
    BY <2>1, <2>2
<1>5. ASSUME NEW d \in Drives PROVE File(d) \in DOMAIN images
  BY <1>2, <1>3, <1>4 DEF File
<1>6. ASSUME NEW d \in Drives, NEW e \in Drives, File(d) = File(e) PROVE d = e
  <2>1. d + 1 \in 1..Len(images) /\ e + 1 \in 1..Len(images) /\ order[d + 1] = order[e + 1]
    BY <1>2, <1>3, <1>6 DEF File
  <2>2. d + 1 = e + 1
    BY <1>4, <2>1, Zenon
  <2> QED
    BY <1>2, <1>3, <2>2
<1>7. ASSUME NEW d \in Drives, NEW k \in 0..LAST_K PROVE LbaOf(Image(d), AddressBy(d, k)) = k
  <2> DEFINE img == Image(d)
  <2>1. img \in Images /\ Fits(img) /\ LAST_K < SectorsTold(img)
    BY <1>2, <1>5 DEF Image
  <2>2. AddressBy(d, k) = AddressOf(RespondInquire(img), k)
    BY DEF AddressBy
  <2> HIDE DEF img
  <2>3. SectorsTold(img) \in Nat
    BY <2>1 DEF SectorsTold, Sectors, Images, Geometries, Totals
  <2>4. k \in Nat /\ k < SectorsTold(img)
    BY <2>1, <2>3, SizesType
  <2> QED
    BY <2>1, <2>2, <2>4, AddressKept DEF img
<1>8. Drives \subseteq 0..1
  BY <1>2, <1>3
<1> QED
  BY <1>2, <1>5, <1>6, <1>7, <1>8 DEF Served

\* There the server takes all that is on the line.
LEMMA PartsTaken == ASSUME Served PROVE (LineQuiet <=> up = << >>) /\ (Sent <=> silent' = silent)
  BY DEF Served, LineQuiet, Sent

LEMMA CommandBytes ==
    ASSUME NEW c, c.kind = "command"
    PROVE  /\ IsSeq(Bytes(c)) /\ Len(Bytes(c)) = CMD
           /\ \A i \in 1..CMD : /\ Bytes(c)[i].of = c /\ Bytes(c)[i].at = i
                                /\ Bytes(c)[i].val = CommandValue(c, i)
<1> DEFINE s == [i \in 1..CMD |-> [val |-> CommandValue(c, i), of |-> c, at |-> i]]
<1>1. Bytes(c) = s
  BY DEF Bytes
<1>2. s \in Seq({[val |-> CommandValue(c, i), of |-> c, at |-> i] : i \in 1..CMD}) /\ Len(s) = CMD
  BY SizesType
<1>3. IsSeq(s)
  BY <1>2, SeqIs, Zenon
<1>4. ASSUME NEW i \in 1..CMD
      PROVE  s[i].of = c /\ s[i].at = i /\ s[i].val = CommandValue(c, i)
  <2> HIDE DEF s
  <2>1. s[i] = [val |-> CommandValue(c, i), of |-> c, at |-> i]
    BY Zenon DEF s
  <2> QED
    BY <2>1
<1> QED
  BY <1>1, <1>2, <1>3, <1>4, Zenon

LEMMA SectorBytes ==
    ASSUME NEW c, c.kind = "sector"
    PROVE  /\ IsSeq(Bytes(c)) /\ Len(Bytes(c)) = SECTOR
           /\ \A i \in 1..SECTOR : Bytes(c)[i].of = c /\ Bytes(c)[i].at = i
<1> DEFINE s == [i \in 1..SECTOR |-> [val |-> c.data, of |-> c, at |-> i]]
<1>1. Bytes(c) = s
  BY DEF Bytes
<1>2. s \in Seq({[val |-> c.data, of |-> c, at |-> i] : i \in 1..SECTOR}) /\ Len(s) = SECTOR
  BY SizesType
<1>3. IsSeq(s)
  BY <1>2, SeqIs, Zenon
<1>4. ASSUME NEW i \in 1..SECTOR PROVE s[i].of = c /\ s[i].at = i
  <2> HIDE DEF s
  <2>1. s[i] = [val |-> c.data, of |-> c, at |-> i]
    BY Zenon DEF s
  <2> QED
    BY <2>1
<1> QED
  BY <1>1, <1>2, <1>3, <1>4, Zenon

LEMMA AckByte ==
    ASSUME NEW c, c.kind = "ack"
    PROVE  /\ IsSeq(Bytes(c)) /\ Len(Bytes(c)) = 1
           /\ Bytes(c)[1].of = c /\ Bytes(c)[1].val = c.left
<1> DEFINE x == [val |-> c.left, of |-> c, at |-> 1]
<1>1. Bytes(c) = <<x>>
  BY DEF Bytes
<1>2. <<x>> \in Seq({x}) /\ Len(<<x>>) = 1 /\ <<x>>[1] = x
  OBVIOUS
<1>3. IsSeq(<<x>>)
  BY <1>2, SeqIs, Zenon
<1> QED
  BY <1>1, <1>2, <1>3

\* What is left of some values when a run of them is lost, or one is changed.
LEMMA LostValues ==
    ASSUME NEW V, NEW values \in Seq(V), NEW i \in 1..Len(values), NEW j \in 1..Len(values)
    PROVE  Without(values, i, j) \in Seq(V)
<1>1. SubSeq(values, 1, i - 1) \in Seq(V) /\ SubSeq(values, j + 1, Len(values)) \in Seq(V)
  OBVIOUS
<1>2. SubSeq(values, 1, i - 1) \o SubSeq(values, j + 1, Len(values)) \in Seq(V)
  BY <1>1
<1> QED
  BY <1>2, Zenon DEF Without

LEMMA ChangedValue ==
    ASSUME NEW V, NEW values \in Seq(V), NEW i \in 1..Len(values), NEW y \in V
    PROVE  [values EXCEPT ![i] = y] \in Seq(V) /\ Len([values EXCEPT ![i] = y]) = Len(values)
  OBVIOUS

\* What the line damages is noise, and no longer than it was.
LEMMA DamagedBytes ==
    ASSUME NEW s, IsSeq(s), NEW v \in Damaged(s)
    PROVE  /\ IsSeq(v) /\ Len(v) <= Len(s)
           /\ \A i \in 1..Len(v) : v[i].of.kind = "noise"
<1> DEFINE values == [i \in DOMAIN s |-> s[i].val]
           lost == UNION {{Without(values, i, j) : j \in DOMAIN s} : i \in DOMAIN s}
           changed == UNION {{[values EXCEPT ![i] = y] : y \in Data} : i \in DOMAIN s}
           V == {s[i].val : i \in 1..Len(s)} \cup Data
<1>1. v \in {[i \in DOMAIN y |-> Noise(y[i])] : y \in {z \in lost : Len(z) < Len(s)} \cup changed}
  BY DEF Damaged
<1>2. Len(s) \in Nat /\ DOMAIN s = 1..Len(s)
  BY SeqBasics
<1>3. values \in Seq(V) /\ Len(values) = Len(s)
  BY <1>2
<1>4. ASSUME NEW x \in lost
      PROVE  \E i \in DOMAIN s, j \in DOMAIN s :
                x = Without(values, i, j)
  <2> HIDE DEF values
  <2> QED
    OBVIOUS
<1>5. ASSUME NEW x \in changed PROVE \E i \in DOMAIN s, y \in Data : x = [values EXCEPT ![i] = y]
  <2> HIDE DEF values
  <2> QED
    OBVIOUS
<1>6. Data \subseteq V
  OBVIOUS
<1> HIDE DEF V, values, lost, changed
<1>7. PICK x : /\ (x \in lost /\ Len(x) < Len(s)) \/ x \in changed
               /\ v = [i \in DOMAIN x |-> Noise(x[i])]
  BY <1>1, Zenon
<1>8. x \in Seq(V) /\ Len(x) <= Len(s)
  <2>1. CASE x \in lost /\ Len(x) < Len(s)
    <3>1. PICK i \in 1..Len(values), j \in 1..Len(values) :
             x = Without(values, i, j)
      BY <1>2, <1>3, <1>4, <2>1, Zenon
    <3>3. x \in Seq(V)
      BY <1>3, <3>1, LostValues, Zenon
    <3>4. Len(x) \in Nat
      BY <3>3
    <3> QED
      BY <1>2, <2>1, <3>3, <3>4
  <2>2. CASE x \in changed
    <3>1. PICK i \in 1..Len(values), y \in V : x = [values EXCEPT ![i] = y]
      BY <1>2, <1>3, <1>5, <1>6, <2>2, Zenon
    <3>2. x \in Seq(V) /\ Len(x) = Len(values)
      BY <1>3, <3>1, ChangedValue
    <3> QED
      BY <1>2, <1>3, <3>2
  <2> QED
    BY <1>7, <2>1, <2>2
<1>9. DOMAIN x = 1..Len(x) /\ Len(x) \in Nat
  BY <1>8
<1>10. v \in Seq({Noise(x[i]) : i \in 1..Len(x)}) /\ Len(v) = Len(x)
  BY <1>7, <1>9
<1>11. IsSeq(v)
  BY <1>10, SeqIs, Zenon
<1>12. \A i \in 1..Len(v) : v[i].of.kind = "noise"
  BY <1>7, <1>9, <1>10 DEF Noise
<1> QED
  BY <1>8, <1>10, <1>11, <1>12

-----------------------------------------------------------------------------
(* The inductive invariant. Its parts take the parts of the state they are   *)
(* about as parameters, so that a step is described by the values it leaves. *)

Asks(r) ==
    /\ r.cmd \in {INQUIRE, READ, WRITE} /\ r.drive \in Nat /\ r.k \in Nat /\ r.data \in Seq(Nat)
    /\ r.cmd = INQUIRE => Len(r.data) = 0
    /\ r.cmd # INQUIRE => /\ r.drive \in Drives /\ Len(r.data) \in 1..MAX_COUNT
                          /\ r.k + Len(r.data) <= LAST_K + 1

Works == [command : {0, READ, WRITE}, offset : Nat, count : 0..MAX_COUNT, lba : Nat, drive : Nat]

\* The server's buffer b, target t and work w, its clock a and the client's s.
Collected(b, t, w, a, s) ==
    /\ t \in {0, 1, CMD, SECTOR} /\ IsSeq(b) /\ w \in Works
    /\ t = 0 => b = << >>
    /\ t # 0 => Len(b) < t
    /\ t = CMD => b # << >> /\ IsHeader(b[1])
    /\ a \in Nat /\ s \in Nat /\ s <= a

\* The client in phase ph with d sectors of request r confirmed, the line u, dn.
Session(t, u, dn, ph, r, d) ==
    /\ ph \in {"idle", "send", "wait", "over"}
    /\ ph = "idle" => r = Nobody /\ d = 0
    /\ ph # "idle" => Asks(r) /\ d \in 0..Len(r.data)
    /\ ph = "send" => r.cmd = WRITE
    /\ ph \in {"send", "wait"} => d < Len(r.data) \/ r.cmd = INQUIRE
    /\ ph = "over" => t = 0
    /\ IsSeq(u)
    /\ u # << >> => ph \in {"send", "wait"} /\ dn = << >>
    /\ ph \in {"idle", "over"} => dn = << >>

Disks == [DOMAIN images -> [0..LAST_K -> Nat]]

\* A byte that is no part of a command, nor of an acknowledgement.
Payload(x) == x.of.kind \in {"sector", "noise"}

StartsCommand(x) == x.of.kind = "command" /\ x.at = 1
StartsSector(x) == x.of.kind = "sector" /\ x.at = 1

\* The bytes the server has not dealt with: a command in there is the one of the
\* present request, a sector is the one the client waits for, both are whole, and
\* nothing comes after them but the sector after a write command.
CommandAt(s, i, ph, r, d) ==
    /\ ph \in {"send", "wait"} /\ s[i].of = CommandOf(r) /\ d = 0
    /\ i + CMD - 1 <= Len(s)
    /\ ph = "send" \/ r.cmd # WRITE => i + CMD - 1 = Len(s)
    /\ \A j \in 1..Len(s) : j > i + CMD - 1 => Payload(s[j])
SectorAt(s, i, ph, r, d) ==
    /\ ph = "wait" /\ r.cmd = WRITE /\ s[i].of.data = r.data[d + 1]
    /\ i + SECTOR - 1 = Len(s)
Stream(s, ph, r, d) ==
    \A i \in 1..Len(s) :
        /\ StartsCommand(s[i]) => CommandAt(s, i, ph, r, d)
        /\ StartsSector(s[i]) => SectorAt(s, i, ph, r, d)

\* Work w is the rest of request r after d sectors.
WorkAt(w, r, d) ==
    /\ w.command = r.cmd /\ w.drive = r.drive /\ w.lba = r.k
    /\ w.offset = d /\ w.count = Len(r.data) - d

Underway(w, ph, r, d) ==
    /\ ph \in {"send", "wait"} /\ r.cmd \in {READ, WRITE} /\ d < Len(r.data)
    /\ WorkAt(w, r, d)
    /\ r.cmd = WRITE => ~Image(r.drive).readOnly

\* The acknowledgement is in the line u, or something went wrong with it.
Acked(w, u, dn, ph, r, d) ==
    /\ Underway(w, ph, r, d) /\ dn = << >>
    /\ ph = "send" \/ r.cmd = READ => Len(u) <= 1
    /\ \A i \in 1..Len(u) : i > 1 => Payload(u[i])

\* A work the server has not noticed the end of: what comes is a new command, and
\* the line does no damage before this one is forgotten.
Stale(u, dn, ph, ca) ==
    /\ ~ca /\ dn = << >>
    /\ \/ ph = "idle"
       \/ ph \in {"send", "wait"} /\ u # << >> /\ IsHeader(u[1])

\* What the server collects a sector or an acknowledgement for, when it is not late.
SectorAwaited(b, w, u, dn, ph, r, d) ==
    /\ Underway(w, ph, r, d) /\ r.cmd = WRITE /\ dn = << >>
    /\ ph = "send" => b = << >> /\ u = << >>
    /\ \A i \in 1..Len(u) : Payload(u[i])
AckAwaited(w, u, dn, ph, r, d, ca) ==
    /\ w.count # 0
    /\ (ph = "wait" /\ u = << >>) \/ Acked(w, u, dn, ph, r, d) \/ Stale(u, dn, ph, ca)
Awaited(b, t, w, a, u, dn, ph, r, d, ca) ==
    /\ t = SECTOR => \A i \in 1..Len(b) : Payload(b[i])
    /\ t = SECTOR /\ a <= TIMEOUT => SectorAwaited(b, w, u, dn, ph, r, d)
    /\ t = 1 /\ a <= TIMEOUT => AckAwaited(w, u, dn, ph, r, d, ca)

\* A reply x on its way is damaged or the right one, and the server went on.
Right(x, t, w, r, d, dk) ==
    \/ x.kind = "inquiry" /\ r.cmd = INQUIRE /\ t = 0
    \/ /\ \/ x.kind = "read" /\ r.cmd = READ
          \/ x.kind = "echo" /\ r.cmd = WRITE /\ ~Image(r.drive).readOnly /\ x.data = r.data[d + 1]
       /\ r.cmd # INQUIRE
       /\ x.data = dk[File(r.drive)][r.k + d]
       /\ IF Len(r.data) - d = 1 THEN t = 0 ELSE t = 1 /\ WorkAt(w, r, d + 1)
Replied(b, t, w, u, dn, ph, r, d, ca, cl, dk) ==
    dn # << >> =>
        /\ \E x : dn = <<x>> /\ ((x.kind = "damaged" /\ ~ca /\ cl = "faulty") \/ Right(x, t, w, r, d, dk))
        /\ ph = "wait" /\ b = << >> /\ u = << >> /\ t \in {0, 1}

Safe(b, t, w, a, s, u, dn, ph, r, d, ca, cl, dk) ==
    /\ Collected(b, t, w, a, s)
    /\ Session(t, u, dn, ph, r, d)
    /\ dk \in Disks
    /\ Stream(b \o u, ph, r, d)
    /\ Awaited(b, t, w, a, u, dn, ph, r, d, ca)
    /\ Replied(b, t, w, u, dn, ph, r, d, ca, cl, dk)

SafeInv == Served /\ Safe(buff, readto, work, age, silent, up, down, phase, req, done, calm, clean, disk)

\* The server's images and its timeout stay what they are.
LEMMA SafeNext ==
    ASSUME Served, server' = server,
           Safe(buff', readto', work', age', silent', up', down', phase', req', done', calm', clean', disk')
    PROVE  SafeInv'
<1>1. Served'
  <2>1. server' = server
    OBVIOUS
  <2> QED
    BY <2>1 DEF Served, Whole, Drives, images, File, order, Image, AddressBy
<1>2. Safe(buff, readto, work, age, silent, up, down, phase, req, done, calm, clean, disk)'
  BY DEF Safe, Collected, Session, Disks, Stream, Awaited, Replied, Asks, Works, CommandAt, SectorAt,
         WorkAt, Underway, Acked, Stale, SectorAwaited, AckAwaited, Right, CommandOf, AddressBy, Drives,
         images, File, order, Image, Nobody, Payload, StartsCommand, StartsSector, IsHeader
<1> QED
  BY <1>1, <1>2 DEF SafeInv

-----------------------------------------------------------------------------
(* What is on the line, when bytes are added to it or taken from it.         *)

LEMMA JoinedAt ==
    ASSUME NEW s, NEW t, IsSeq(s), IsSeq(t), NEW i \in 1..Len(s \o t)
    PROVE  \/ i \in 1..Len(s) /\ (s \o t)[i] = s[i]
           \/ \E j \in 1..Len(t) : i = Len(s) + j /\ (s \o t)[i] = t[j]
<1>1. Len(s) \in Nat /\ Len(t) \in Nat /\ Len(s \o t) = Len(s) + Len(t)
  BY SeqBasics, Joined
<1>2. CASE i <= Len(s)
  BY <1>1, <1>2, Joined
<1>3. CASE i > Len(s)
  <2>1. PICK j \in 1..Len(t) : i = Len(s) + j
    BY <1>1, <1>3, i - Len(s) \in 1..Len(t)
  <2>2. (s \o t)[Len(s) + j] = t[j]
    BY Joined
  <2> QED
    BY <2>1, <2>2, Zenon
<1>4. i <= Len(s) \/ i > Len(s)
  BY <1>1
<1> QED
  BY <1>2, <1>3, <1>4

NoStart(s) == \A i \in 1..Len(s) : ~StartsCommand(s[i]) /\ ~StartsSector(s[i])

LEMMA StreamTail ==
    ASSUME NEW q, NEW s, IsSeq(q), IsSeq(s), NEW ph, NEW r, NEW d, Stream(q \o s, ph, r, d)
    PROVE  Stream(s, ph, r, d)
<1> DEFINE n == Len(q)
           z == q \o s
<1>1. /\ n \in Nat /\ Len(s) \in Nat /\ Len(z) = n + Len(s)
      /\ \A i \in 1..Len(s) : z[n + i] = s[i]
  BY SeqBasics, Joined
<1>2. CMD \in Nat /\ SECTOR \in Nat /\ n \in Nat /\ Len(s) \in Nat /\ Len(z) = n + Len(s)
  BY <1>1, SizesType
<1> HIDE DEF n, z
<1>3. ASSUME NEW i \in 1..Len(s)
      PROVE  /\ StartsCommand(s[i]) => CommandAt(s, i, ph, r, d)
             /\ StartsSector(s[i]) => SectorAt(s, i, ph, r, d)
  <2>1. n + i \in 1..Len(z) /\ z[n + i] = s[i]
    BY <1>1
  <2>2. /\ StartsCommand(s[i]) => CommandAt(z, n + i, ph, r, d)
        /\ StartsSector(s[i]) => SectorAt(z, n + i, ph, r, d)
    BY <2>1 DEF Stream, z
  <2>3. ASSUME CommandAt(z, n + i, ph, r, d) PROVE CommandAt(s, i, ph, r, d)
    <3>1. /\ ph \in {"send", "wait"} /\ s[i].of = CommandOf(r) /\ d = 0
          /\ (n + i) + CMD - 1 <= Len(z)
          /\ ph = "send" \/ r.cmd # WRITE => (n + i) + CMD - 1 = Len(z)
      BY <2>1, <2>3, Zenon DEF CommandAt
    <3>2. ASSUME NEW j \in 1..Len(s), j > i + CMD - 1 PROVE Payload(s[j])
      <4>1. n + j \in 1..Len(z) /\ n + j > (n + i) + CMD - 1 /\ z[n + j] = s[j]
        BY <1>1, <1>2, <3>2
      <4> QED
        BY <2>3, <4>1 DEF CommandAt
    <3>3. /\ i + CMD - 1 <= Len(s)
          /\ (n + i) + CMD - 1 = Len(z) => i + CMD - 1 = Len(s)
      <4>1. (n + i) + CMD - 1 <= Len(z)
        BY <3>1, Zenon
      <4> QED
        BY <1>2, <4>1
    <3> QED
      BY <3>1, <3>2, <3>3, Zenon DEF CommandAt
  <2>4. ASSUME SectorAt(z, n + i, ph, r, d) PROVE SectorAt(s, i, ph, r, d)
    <3>1. /\ ph = "wait" /\ r.cmd = WRITE /\ s[i].of.data = r.data[d + 1]
          /\ (n + i) + SECTOR - 1 = Len(z)
      BY <2>1, <2>4, Zenon DEF SectorAt
    <3>2. i + SECTOR - 1 = Len(s)
      <4>1. (n + i) + SECTOR - 1 = Len(z)
        BY <3>1, Zenon
      <4>2. i \in Nat
        OBVIOUS
      <4> QED
        BY <1>2, <4>1, <4>2
    <3> QED
      BY <3>1, <3>2, Zenon DEF SectorAt
  <2> QED
    BY <2>2, <2>3, <2>4
<1> QED
  BY <1>3 DEF Stream

LEMMA QuietStream ==
    ASSUME NEW s, NoStart(s), NEW ph, NEW r, NEW d
    PROVE  Stream(s, ph, r, d)
  BY DEF NoStart, Stream

LEMMA NothingStarts ==
    ASSUME NEW s, NEW ph, ph \notin {"send", "wait"}, NEW r, NEW d, Stream(s, ph, r, d)
    PROVE  NoStart(s)
  BY DEF NoStart, Stream, CommandAt, SectorAt

LEMMA EmptyQuiet == IsSeq(<< >>) /\ NoStart(<< >>) /\ Len(<< >>) = 0
<1>1. << >> \in Seq({})
  OBVIOUS
<1>2. IsSeq(<< >>)
  BY <1>1, SeqIs, Zenon
<1> QED
  BY <1>2 DEF NoStart

LEMMA QuietJoined ==
    ASSUME NEW s, NEW t, IsSeq(s), IsSeq(t), NoStart(s), NoStart(t)
    PROVE  NoStart(s \o t)
<1> SUFFICES ASSUME NEW i \in 1..Len(s \o t)
             PROVE  ~StartsCommand((s \o t)[i]) /\ ~StartsSector((s \o t)[i])
  BY DEF NoStart
<1>1. \/ i \in 1..Len(s) /\ (s \o t)[i] = s[i]
      \/ \E j \in 1..Len(t) : i = Len(s) + j /\ (s \o t)[i] = t[j]
  BY JoinedAt
<1> QED
  BY <1>1 DEF NoStart

LEMMA NoiseQuiet ==
    ASSUME NEW s, \A i \in 1..Len(s) : s[i].of.kind = "noise"
    PROVE  NoStart(s) /\ \A i \in 1..Len(s) : Payload(s[i])
  BY DEF NoStart, StartsCommand, StartsSector, Payload

LEMMA AckQuiet ==
    ASSUME NEW c, c.kind = "ack"
    PROVE  NoStart(Bytes(c))
  BY AckByte DEF NoStart, StartsCommand, StartsSector

LEMMA CommandJoined ==
    ASSUME NEW s, IsSeq(s), NoStart(s), NEW r, NEW ph \in {"send", "wait"}
    PROVE  Stream(s \o Bytes(CommandOf(r)), ph, r, 0)
<1> DEFINE c == CommandOf(r)
           t == Bytes(c)
           z == s \o t
           n == Len(s)
<1>1. c.kind = "command"
  BY DEF CommandOf
<1> HIDE DEF c
<1>2. /\ IsSeq(t) /\ Len(t) = CMD
      /\ \A i \in 1..CMD : t[i].of = c /\ t[i].at = i
  BY <1>1, CommandBytes
<1> HIDE DEF t
<1>3. n \in Nat /\ CMD \in Nat /\ Len(z) = n + CMD /\ IsSeq(z)
  BY <1>2, SeqBasics, SizesType, Joined
<1>4. ASSUME NEW i \in 1..Len(z)
      PROVE  /\ StartsCommand(z[i]) => CommandAt(z, i, ph, r, 0)
             /\ StartsSector(z[i]) => SectorAt(z, i, ph, r, 0)
  <2>1. CASE i \in 1..n /\ z[i] = s[i]
    BY <2>1 DEF NoStart
  <2>2. CASE \E j \in 1..CMD : i = n + j /\ z[i] = t[j]
    <3>1. PICK j \in 1..CMD : i = n + j /\ z[i] = t[j]
      BY <2>2
    <3>2. z[i].of = c /\ z[i].at = j
      BY <1>2, <3>1
    <3>3. ASSUME StartsCommand(z[i]) PROVE CommandAt(z, i, ph, r, 0)
      <4>1. j = 1
        BY <3>2, <3>3 DEF StartsCommand
      <4>2. i + CMD - 1 = Len(z)
        BY <1>3, <3>1, <4>1
      <4>3. i + CMD - 1 <= Len(z) /\ \A k \in 1..Len(z) : ~(k > i + CMD - 1)
        BY <1>3, <4>2
      <4> QED
        BY <3>2, <4>2, <4>3 DEF CommandAt, c
    <3> QED
      BY <1>1, <3>2, <3>3 DEF StartsSector
  <2> QED
    BY <1>2, <2>1, <2>2, JoinedAt
<1> QED
  BY <1>4 DEF Stream, c, t

\* What a client adds that waits to send a sector: the sector, or what is left of it.
LEMMA SectorJoined ==
    ASSUME NEW s, NEW t, IsSeq(s), IsSeq(t), NEW r, NEW d, r.cmd = WRITE,
           Stream(s, "send", r, d),
           \A i \in 1..Len(t) : Payload(t[i]),
           \A i \in 1..Len(t) : StartsSector(t[i]) =>
                                   i = 1 /\ Len(t) = SECTOR /\ t[i].of.data = r.data[d + 1]
    PROVE  Stream(s \o t, "wait", r, d)
<1> DEFINE z == s \o t
           n == Len(s)
<1>1. n \in Nat /\ Len(t) \in Nat /\ Len(z) = n + Len(t) /\ CMD \in Nat /\ SECTOR \in Nat
  BY SeqBasics, SizesType, Joined
<1>2. \A i \in 1..Len(z) : \/ i \in 1..n /\ z[i] = s[i]
                           \/ \E j \in 1..Len(t) : i = n + j /\ z[i] = t[j]
  BY JoinedAt
<1> HIDE DEF n, z
<1>3. ASSUME NEW i \in 1..Len(z)
      PROVE  /\ StartsCommand(z[i]) => CommandAt(z, i, "wait", r, d)
             /\ StartsSector(z[i]) => SectorAt(z, i, "wait", r, d)
  <2>1. CASE i \in 1..n /\ z[i] = s[i]
    <3>1. ~StartsSector(z[i])
      BY <2>1 DEF Stream, SectorAt, n
    <3>2. ASSUME StartsCommand(z[i]) PROVE CommandAt(z, i, "wait", r, d)
      <4>1. CommandAt(s, i, "send", r, d)
        BY <2>1, <3>2 DEF Stream, n
      <4>2. s[i].of = CommandOf(r) /\ d = 0 /\ i + CMD - 1 = n
        BY <4>1 DEF CommandAt, n
      <4>3. ASSUME NEW j \in 1..Len(z), j > i + CMD - 1 PROVE Payload(z[j])
        <5>1. ~(j \in 1..n)
          BY <1>1, <4>2, <4>3
        <5>2. PICK k \in 1..Len(t) : z[j] = t[k]
          BY <1>2, <5>1
        <5> QED
          BY <5>2
      <4>4. i + CMD - 1 <= Len(z)
        BY <1>1, <4>2
      <4> QED
        BY <2>1, <4>2, <4>3, <4>4 DEF CommandAt
    <3> QED
      BY <3>1, <3>2
  <2>2. CASE \E j \in 1..Len(t) : i = n + j /\ z[i] = t[j]
    <3>1. PICK j \in 1..Len(t) : i = n + j /\ z[i] = t[j]
      BY <2>2
    <3>2. ~StartsCommand(z[i])
      BY <3>1 DEF Payload, StartsCommand
    <3>3. ASSUME StartsSector(z[i]) PROVE SectorAt(z, i, "wait", r, d)
      <4>1. j = 1 /\ Len(t) = SECTOR /\ t[j].of.data = r.data[d + 1]
        BY <3>1, <3>3
      <4>2. i + SECTOR - 1 = Len(z)
        BY <1>1, <3>1, <4>1
      <4> QED
        BY <3>1, <4>1, <4>2 DEF SectorAt
    <3> QED
      BY <3>2, <3>3
  <2> QED
    BY <1>2, <2>1, <2>2
<1> QED
  BY <1>3 DEF Stream, z

-----------------------------------------------------------------------------
(* A step of the server. It reads, of a message or what is left of it, the   *)
(* bytes b, while u is still to come.                                        *)

Reading(b, t, w, u) ==
    /\ IsSeq(b) /\ IsSeq(u) /\ w \in Works
    /\ t \in {0, 1, CMD, SECTOR} /\ b # << >>
    /\ t = 0 => Len(b) = 1
    /\ t # 0 => Len(b) <= t
    /\ t = CMD => IsHeader(b[1])
    /\ Session(0, << >>, down, phase, req, done) /\ phase \in {"send", "wait"} /\ down = << >>
    /\ disk \in Disks
    /\ Stream(b \o u, phase, req, done)
    /\ t = SECTOR =>
          /\ Underway(w, phase, req, done) /\ req.cmd = WRITE /\ phase = "wait"
          /\ \A i \in 1..Len(b) : Payload(b[i])
          /\ \A i \in 1..Len(u) : Payload(u[i])
    /\ t = 1 =>
          /\ w.count # 0
          /\ \/ /\ Underway(w, phase, req, done)
                /\ phase = "send" \/ req.cmd = READ => u = << >>
                /\ \A i \in 1..Len(u) : Payload(u[i])
             \/ IsHeader(b[1])

\* What a step that sends nothing leaves.
After(b, t, w, u) == Safe(b, t, w, 0, 0, u, << >>, phase, req, done, calm, clean, disk)

LEMMA SessionKept ==
    ASSUME NEW b, NEW t, NEW w, NEW u, Reading(b, t, w, u), NEW t2
    PROVE  /\ Session(t2, u, << >>, phase, req, done)
           /\ Stream(<< >> \o u, phase, req, done)
<1>1. Session(t2, u, << >>, phase, req, done)
  BY DEF Reading, Session
<1>2. Stream(u, phase, req, done)
  BY StreamTail DEF Reading
<1>3. << >> \o u = u
  BY JoinedEmpty DEF Reading
<1> QED
  BY <1>1, <1>2, <1>3

LEMMA DroppedSafe ==
    ASSUME NEW b, NEW t, NEW w, NEW u, Reading(b, t, w, u), NEW w2 \in Works
    PROVE  After(<< >>, 0, w2, u)
<1>1. Collected(<< >>, 0, w2, 0, 0)
  BY EmptyQuiet, SizesType DEF Collected
<1>2. Awaited(<< >>, 0, w2, 0, u, << >>, phase, req, done, calm)
  BY SizesType DEF Awaited
<1>3. Replied(<< >>, 0, w2, u, << >>, phase, req, done, calm, clean, disk)
  BY DEF Replied
<1>4. disk \in Disks
  BY DEF Reading
<1> QED
  BY <1>1, <1>2, <1>3, <1>4, SessionKept DEF After, Safe

LEMMA KeptSafe ==
    ASSUME NEW b, NEW t, NEW w, NEW u, Reading(b, t, w, u),
           NEW t2, (t = 0 /\ t2 = CMD /\ IsHeader(b[1])) \/ (t # 0 /\ t2 = t /\ Len(b) < t)
    PROVE  After(b, t2, w, u)
<1>1. /\ IsSeq(b) /\ b # << >> /\ w \in Works /\ Len(b) \in Nat /\ Len(b) >= 1
      /\ CMD >= 4 /\ SECTOR > CMD /\ CMD \in Nat /\ SECTOR \in Nat
  BY SeqBasics, SizesType DEF Reading
<1>2. t2 \in {CMD, SECTOR} /\ Len(b) < t2 /\ (t2 = CMD => IsHeader(b[1])) /\ (t2 = SECTOR => t = SECTOR)
  BY <1>1 DEF Reading
<1>3. Collected(b, t2, w, 0, 0)
  BY <1>1, <1>2 DEF Collected
<1>4. Awaited(b, t2, w, 0, u, << >>, phase, req, done, calm)
  <2>1. t2 # 1
    BY <1>1, <1>2
  <2>2. t2 = SECTOR => (\A i \in 1..Len(b) : Payload(b[i])) /\ SectorAwaited(b, w, u, << >>, phase, req, done)
    BY <1>2 DEF Reading, SectorAwaited
  <2> QED
    BY <2>1, <2>2 DEF Awaited
<1>5. Replied(b, t2, w, u, << >>, phase, req, done, calm, clean, disk)
  BY DEF Replied
<1>6. disk \in Disks /\ Stream(b \o u, phase, req, done)
  BY DEF Reading
<1> QED
  BY <1>3, <1>4, <1>5, <1>6, SessionKept DEF After, Safe

LEMMA CollectSafe ==
    ASSUME NEW b, NEW t, NEW w, NEW u, Reading(b, t, w, u), NEW w2 \in Works,
           Underway(w2, phase, req, done), req.cmd = WRITE, phase = "send" => u = << >>,
           \A i \in 1..Len(u) : Payload(u[i])
    PROVE  After(<< >>, SECTOR, w2, u)
<1>1. Collected(<< >>, SECTOR, w2, 0, 0)
  BY EmptyQuiet, SizesType DEF Collected
<1>2. SectorAwaited(<< >>, w2, u, << >>, phase, req, done)
  BY DEF SectorAwaited
<1>3. Awaited(<< >>, SECTOR, w2, 0, u, << >>, phase, req, done, calm)
  BY <1>2, EmptyQuiet, SizesType DEF Awaited
<1>4. Replied(<< >>, SECTOR, w2, u, << >>, phase, req, done, calm, clean, disk)
  BY DEF Replied
<1>5. disk \in Disks
  BY DEF Reading
<1> QED
  BY <1>1, <1>3, <1>4, <1>5, SessionKept DEF After, Safe

\* A reply x, of which the line makes dn.
LEMMA ReplySafe ==
    ASSUME NEW b, NEW t, NEW w, Reading(b, t, w, << >>), phase = "wait",
           NEW t2 \in {0, 1}, NEW w2 \in Works, t2 = 1 => w2.count # 0,
           NEW dk \in Disks, NEW x, Right(x, t2, w2, req, done, dk), NEW dn, NEW ca, NEW cl,
           dn \in {<< >>, <<x>>} \/ (dn = <<[kind |-> "damaged"]>> /\ ca = FALSE /\ cl = "faulty")
    PROVE  Safe(<< >>, t2, w2, 0, 0, << >>, dn, phase, req, done, ca, cl, dk)
<1>1. Collected(<< >>, t2, w2, 0, 0)
  BY EmptyQuiet, SizesType DEF Collected
<1>2. Session(t2, << >>, dn, phase, req, done) /\ Stream(<< >> \o << >>, phase, req, done)
  BY SessionKept DEF Session
<1>3. Awaited(<< >>, t2, w2, 0, << >>, dn, phase, req, done, ca)
  <2>1. t2 # SECTOR
    BY SizesType
  <2>2. t2 = 1 => AckAwaited(w2, << >>, dn, phase, req, done, ca)
    BY DEF AckAwaited
  <2> QED
    BY <2>1, <2>2 DEF Awaited
<1>4. Replied(<< >>, t2, w2, << >>, dn, phase, req, done, ca, cl, dk)
  BY DEF Replied
<1> QED
  BY <1>1, <1>2, <1>3, <1>4 DEF Safe

LEMMA NoWorkType == NoWork \in Works
  BY SizesType DEF NoWork, Works

LEMMA WorkOn ==
    ASSUME NEW w \in Works, w.count # 0, w.count # 1
    PROVE  LET v == [w EXCEPT !.offset = @ + 1, !.count = @ - 1]
           IN /\ v \in Works /\ v.count # 0
              /\ v.command = w.command /\ v.drive = w.drive /\ v.lba = w.lba
              /\ v.offset = w.offset + 1 /\ v.count = w.count - 1
<1> DEFINE o == w.offset + 1
           n == w.count - 1
<1>1. o \in Nat /\ n \in 0..MAX_COUNT /\ n # 0
  BY SizesType DEF Works
<1>2. [w EXCEPT !.offset = @ + 1, !.count = @ - 1] = [w EXCEPT !.offset = o, !.count = n]
  BY DEF Works
<1> HIDE DEF o, n
<1>3. LET v == [w EXCEPT !.offset = o, !.count = n]
      IN /\ v \in Works /\ v.command = w.command /\ v.drive = w.drive /\ v.lba = w.lba
         /\ v.offset = o /\ v.count = n
  BY <1>1 DEF Works
<1> QED
  BY <1>1, <1>2, <1>3 DEF o, n

\* One sector less to do.
LEMMA Advanced ==
    ASSUME NEW w \in Works, Underway(w, phase, req, done), done \in Nat, Len(req.data) \in Nat, Advance(w)
    PROVE  /\ buff' = << >> /\ readto' \in {0, 1} /\ work' \in Works
           /\ readto' = 1 => work'.count # 0
           /\ IF Len(req.data) - done = 1 THEN readto' = 0
              ELSE readto' = 1 /\ WorkAt(work', req, done + 1)
<1>1. w.count = Len(req.data) - done /\ done < Len(req.data) /\ w.offset = done
      /\ w.command = req.cmd /\ w.drive = req.drive /\ w.lba = req.k
  BY DEF Underway, WorkAt
<1>2. CASE w.count = 1
  <2>1. buff' = << >> /\ work' = NoWork /\ readto' = 0
    BY <1>2 DEF Advance
  <2> QED
    BY <1>1, <1>2, <2>1, NoWorkType
<1>3. CASE w.count # 1
  <2>1. buff' = << >> /\ work' = [w EXCEPT !.offset = @ + 1, !.count = @ - 1] /\ readto' = 1
    BY <1>3 DEF Advance
  <2>2. w.count # 0
    BY <1>1
  <2>3. /\ work' \in Works /\ work'.count # 0
        /\ work'.command = w.command /\ work'.drive = w.drive /\ work'.lba = w.lba
        /\ work'.offset = w.offset + 1 /\ work'.count = w.count - 1
    BY <1>3, <2>1, <2>2, WorkOn, Zenon
  <2>4. work'.count = Len(req.data) - (done + 1) /\ ~(Len(req.data) - done = 1)
    BY <1>1, <1>3, <2>3
  <2> QED
    BY <1>1, <2>1, <2>3, <2>4 DEF WorkAt
<1> QED
  BY <1>2, <1>3

\* Where a request's next sector goes, and what a store makes of the disk.
LEMMA PlaceType ==
    ASSUME Served, Asks(req), req.cmd # INQUIRE, done \in Nat, done < Len(req.data)
    PROVE  /\ req.drive \in Drives /\ File(req.drive) \in DOMAIN images
           /\ req.k \in Nat /\ req.k + done \in 0..LAST_K /\ req.k \in 0..LAST_K
           /\ req.data[done + 1] \in Nat /\ Len(req.data) \in 1..MAX_COUNT
<1>1. /\ req.drive \in Drives /\ Len(req.data) \in 1..MAX_COUNT /\ req.k + Len(req.data) <= LAST_K + 1
      /\ req.k \in Nat /\ req.data \in Seq(Nat)
  BY DEF Asks
<1>2. req.k + done \in 0..LAST_K /\ req.k \in 0..LAST_K /\ done + 1 \in 1..Len(req.data)
  BY <1>1, SizesType
<1>3. req.data[done + 1] \in Nat
  BY <1>1, <1>2
<1> QED
  BY <1>1, <1>2, <1>3 DEF Served

LEMMA DiskStored ==
    ASSUME NEW dk \in Disks, NEW f \in DOMAIN images, NEW k \in 0..LAST_K, NEW v \in Nat
    PROVE  /\ [dk EXCEPT ![f][k] = v] \in Disks
           /\ [dk EXCEPT ![f][k] = v][f][k] = v
           /\ \A g \in DOMAIN images : g # f => [dk EXCEPT ![f][k] = v][g] = dk[g]
           /\ [dk EXCEPT ![f][k] = v][f] = [dk[f] EXCEPT ![k] = v]
  BY DEF Disks

\* The sector of the client's request that is to be stored next.
Stores == /\ phase = "wait" /\ req.cmd = WRITE /\ done < Len(req.data)
          /\ disk' = [disk EXCEPT ![File(req.drive)][req.k + done] = req.data[done + 1]]

SafeAfter == Safe(buff', readto', work', age', silent', up', down', phase', req', done', calm', clean', disk')

LEMMA AfterKept ==
    ASSUME NEW b, NEW t, NEW w, After(b, t, w, up'), Quiet, age' = 0, silent' = 0,
           UNCHANGED <<server, clientVars, disk>>, down = << >>,
           buff' = b, readto' = t, work' = w
    PROVE  SafeAfter /\ disk' = disk
<1>1. /\ down' = << >> /\ clean' = clean /\ calm' = calm /\ disk' = disk
      /\ phase' = phase /\ req' = req /\ done' = done
  BY DEF Quiet, clientVars
<1> QED
  BY <1>1, Zenon DEF SafeAfter, After

LEMMA SentDown ==
    ASSUME NEW x, SendDown(x), down = << >>
    PROVE  \/ down' = <<x>> /\ calm' = calm /\ clean' = clean
           \/ calm' = FALSE /\ clean' = "faulty" /\ down' \in {<< >>, <<[kind |-> "damaged"]>>}
<1>1. Append(down, x) = <<x>> /\ Append(down, [kind |-> "damaged"]) = <<[kind |-> "damaged"]>>
  OBVIOUS
<1>2. CASE down' = Append(down, x) /\ UNCHANGED <<faults, clean, calm>>
  BY <1>1, <1>2
<1>3. CASE Fault /\ down' \in {down, Append(down, [kind |-> "damaged"])}
  BY <1>1, <1>3 DEF Fault
<1> QED
  BY <1>2, <1>3 DEF SendDown

\* A reply to the sector that work w is at.
LEMMA AnsweredSafe ==
    ASSUME NEW b, NEW t, NEW w, Reading(b, t, w, << >>), up' = << >>, phase = "wait",
           readto' \in {0, 1}, work' \in Works, readto' = 1 => work'.count # 0, buff' = << >>,
           disk' \in Disks, NEW x, Right(x, readto', work', req, done, disk'), SendDown(x),
           age' = 0, silent' = 0, UNCHANGED <<server, clientVars>>
    PROVE  SafeAfter
<1>1. down = << >>
  BY DEF Reading
<1>2. \/ down' \in {<< >>, <<x>>}
      \/ down' = <<[kind |-> "damaged"]>> /\ calm' = FALSE /\ clean' = "faulty"
  BY <1>1, SentDown, Zenon
<1>3. Safe(<< >>, readto', work', 0, 0, << >>, down', phase, req, done, calm', clean', disk')
  BY <1>2, ReplySafe, Zenon
<1>4. phase' = phase /\ req' = req /\ done' = done
  BY DEF clientVars
<1> QED
  BY <1>3, <1>4, Zenon DEF SafeAfter

\* The request's next sector is read and sent, or its data is asked for.
LEMMA PerformSafe ==
    ASSUME Served, NEW b, NEW t, NEW w, Reading(b, t, w, up'), NEW w2 \in Works,
           Underway(w2, phase, req, done), phase = "send" \/ req.cmd # WRITE => up' = << >>,
           \A i \in 1..Len(up') : Payload(up'[i]),
           NEW scan, Perform(w2, scan),
           age' = 0, silent' = 0, UNCHANGED <<server, clientVars>>
    PROVE  SafeAfter /\ disk' = disk
<1>1. /\ w2.command = req.cmd /\ req.cmd \in {READ, WRITE} /\ w2.count = Len(req.data) - done
      /\ done < Len(req.data) /\ w2.drive = req.drive /\ w2.lba = req.k /\ w2.offset = done
  BY DEF Underway, WorkAt
<1>2. /\ Asks(req) /\ done \in Nat /\ Len(req.data) \in Nat /\ down = << >> /\ disk \in Disks
      /\ phase = "send" => req.cmd = WRITE
      /\ phase \in {"send", "wait"}
  BY DEF Reading, Session, Asks
<1>3. w2.count # 0
  BY <1>1, <1>2
<1>4. CASE req.cmd = WRITE
  <2>1. /\ buff' = << >> /\ readto' = SECTOR /\ work' = w2 /\ Quiet /\ UNCHANGED <<lastScan, disk>>
    BY <1>1, <1>3, <1>4 DEF Perform
  <2>2. After(<< >>, SECTOR, w2, up')
    BY <1>4, CollectSafe
  <2> QED
    BY <1>2, <2>1, <2>2, AfterKept
<1>5. CASE req.cmd = READ
  <2>1. ~(w2.command = WRITE /\ w2.count # 0) /\ w2.command # INQUIRE /\ up' = << >> /\ phase = "wait"
    BY <1>1, <1>2, <1>5 DEF READ, WRITE, INQUIRE
  <2> DEFINE x == [kind |-> "read", data |-> disk[File(req.drive)][req.k + done]]
  <2>2. SendDown(x) /\ Advance(w2) /\ disk' = disk
    BY <1>1, <2>1 DEF Perform, Answer
  <2>3. /\ buff' = << >> /\ readto' \in {0, 1} /\ work' \in Works
        /\ readto' = 1 => work'.count # 0
        /\ IF Len(req.data) - done = 1 THEN readto' = 0
           ELSE readto' = 1 /\ WorkAt(work', req, done + 1)
    BY <1>2, <2>2, Advanced
  <2>4. Right(x, readto', work', req, done, disk')
    BY <1>5, <2>2, <2>3 DEF Right, READ, INQUIRE
  <2>5. disk' \in Disks
    BY <1>2, <2>2
  <2>6. Reading(b, t, w, << >>)
    BY <2>1
  <2> HIDE DEF x
  <2>7. SafeAfter
    BY <2>1, <2>2, <2>3, <2>4, <2>5, <2>6, AnsweredSafe
  <2> QED
    BY <2>2, <2>7
<1> QED
  BY <1>1, <1>4, <1>5

LEMMA InquirySafe ==
    ASSUME Served, NEW b, NEW t, NEW w, Reading(b, t, w, up'), req.cmd = INQUIRE, up' = << >>,
           NEW scan, Perform(NewWork(CommandOf(req)), scan),
           age' = 0, silent' = 0, UNCHANGED <<server, clientVars>>
    PROVE  SafeAfter /\ disk' = disk
<1> DEFINE w2 == NewWork(CommandOf(req))
           x == Answer(w2, scan)
<1>1. w2.command = INQUIRE /\ w2.count = 1
  BY DEF NewWork, CommandOf
<1>2. phase = "wait" /\ disk \in Disks
  BY DEF Reading, Session, WRITE, INQUIRE
<1>3. SendDown(x) /\ Advance(w2) /\ disk' = disk
  BY <1>1 DEF Perform, WRITE, INQUIRE
<1>4. x.kind = "inquiry"
  BY <1>1 DEF Answer
<1> HIDE DEF w2, x
<1>5. buff' = << >> /\ work' = NoWork /\ readto' = 0
  BY <1>1, <1>3 DEF Advance
<1>6. Right(x, readto', work', req, done, disk')
  BY <1>4, <1>5 DEF Right
<1>7. readto' \in {0, 1} /\ work' \in Works /\ readto' # 1 /\ disk' \in Disks
  BY <1>2, <1>3, <1>5, NoWorkType
<1>8. Reading(b, t, w, << >>)
  OBVIOUS
<1>9. SafeAfter
  BY <1>2, <1>3, <1>5, <1>6, <1>7, <1>8, AnsweredSafe
<1> QED
  BY <1>3, <1>9

LEMMA StreamHead ==
    ASSUME NEW b, NEW t, NEW w, NEW u, Reading(b, t, w, u)
    PROVE  /\ Len(b) \in Nat /\ Len(b) >= 1 /\ Len(u) \in Nat /\ Len(b \o u) = Len(b) + Len(u)
           /\ 1 \in 1..Len(b \o u) /\ (b \o u)[1] = b[1]
           /\ \A i \in 1..Len(u) : (b \o u)[Len(b) + i] = u[i]
<1>1. IsSeq(b) /\ IsSeq(u) /\ b # << >>
  BY DEF Reading
<1>2. Len(b) \in Nat /\ Len(b) >= 1 /\ Len(u) \in Nat
  BY <1>1, SeqBasics
<1>3. 1 \in 1..Len(b)
  BY <1>2
<1>4. /\ Len(b \o u) = Len(b) + Len(u) /\ (b \o u)[1] = b[1]
      /\ \A i \in 1..Len(u) : (b \o u)[Len(b) + i] = u[i]
  BY <1>1, <1>3, Joined
<1>5. 1 \in 1..Len(b \o u)
  BY <1>2, <1>4
<1> QED
  BY <1>2, <1>4, <1>5

\* A command whose checksum is right is the one of the present request, and nothing
\* comes after it but the sector after a write command.
LEMMA CommandRead ==
    ASSUME NEW b, NEW w, NEW u, Reading(b, CMD, w, u), Len(b) = CMD, ChecksumFits(b, "command")
    PROVE  /\ b[1].of = CommandOf(req) /\ done = 0
           /\ phase = "send" \/ req.cmd # WRITE => u = << >>
           /\ \A i \in 1..Len(u) : Payload(u[i])
<1> DEFINE z == b \o u
<1>1. /\ Len(b) \in Nat /\ Len(b) >= 1 /\ Len(u) \in Nat /\ Len(z) = Len(b) + Len(u)
      /\ 1 \in 1..Len(z) /\ z[1] = b[1]
      /\ \A i \in 1..Len(u) : z[Len(b) + i] = u[i]
  <2>1. Reading(b, CMD, w, u)
    OBVIOUS
  <2>2. /\ Len(b) \in Nat /\ Len(b) >= 1 /\ Len(u) \in Nat /\ Len(b \o u) = Len(b) + Len(u)
        /\ 1 \in 1..Len(b \o u) /\ (b \o u)[1] = b[1]
        /\ \A i \in 1..Len(u) : (b \o u)[Len(b) + i] = u[i]
    BY ONLY <2>1, StreamHead
  <2> QED
    BY <2>2
<1>2. b[1].of.kind = "command" /\ b[1].at = 1
  <2>1. 1 \in DOMAIN b
    BY <1>1, SeqBasics DEF Reading
  <2> QED
    BY <2>1 DEF ChecksumFits
<1>3. CommandAt(z, 1, phase, req, done)
  BY <1>1, <1>2 DEF Reading, Stream, StartsCommand
<1> HIDE DEF z
<1>4. b[1].of = CommandOf(req) /\ done = 0
  BY <1>1, <1>3 DEF CommandAt
<1>5. ASSUME phase = "send" \/ req.cmd # WRITE PROVE u = << >>
  <2>1. 1 + CMD - 1 = Len(z)
    BY <1>3, <1>5, Zenon DEF CommandAt
  <2>2. Len(u) = 0
    BY <1>1, <2>1, SizesType
  <2> QED
    BY <2>2, SeqBasics DEF Reading
<1>6. ASSUME NEW i \in 1..Len(u) PROVE Payload(u[i])
  <2>1. Len(b) + i \in 1..Len(z) /\ Len(b) + i > 1 + CMD - 1
    BY <1>1, SizesType
  <2>2. Payload(z[Len(b) + i])
    BY <1>3, <2>1, Zenon DEF CommandAt
  <2> QED
    BY <1>1, <2>2
<1> QED
  BY <1>4, <1>5, <1>6

\* A sector whose checksum is right is the one the request has next.
LEMMA SectorRead ==
    ASSUME NEW b, NEW w, NEW u, Reading(b, SECTOR, w, u), Len(b) = SECTOR, ChecksumFits(b, "sector")
    PROVE  b[1].of.data = req.data[done + 1] /\ u = << >>
<1> DEFINE z == b \o u
<1>1. /\ Len(b) \in Nat /\ Len(b) >= 1 /\ Len(u) \in Nat /\ Len(z) = Len(b) + Len(u)
      /\ 1 \in 1..Len(z) /\ z[1] = b[1]
  BY StreamHead
<1>2. b[1].of.kind = "sector" /\ b[1].at = 1
  <2>1. 1 \in DOMAIN b
    BY <1>1, SeqBasics DEF Reading
  <2> QED
    BY <2>1 DEF ChecksumFits
<1>3. SectorAt(z, 1, phase, req, done)
  BY <1>1, <1>2 DEF Reading, Stream, StartsSector
<1> HIDE DEF z
<1>4. b[1].of.data = req.data[done + 1] /\ 1 + SECTOR - 1 = Len(z)
  BY <1>1, <1>3, Zenon DEF SectorAt
<1>5. Len(u) = 0
  BY <1>1, <1>4, SizesType
<1>6. u = << >>
  BY <1>5, SeqBasics DEF Reading
<1> QED
  BY <1>4, <1>6

LEMMA NewWorkRight ==
    ASSUME Served, Asks(req), done = 0, req.cmd # INQUIRE, ~Refuses(CommandOf(req)),
           phase \in {"send", "wait"}
    PROVE  NewWork(CommandOf(req)) \in Works /\ Underway(NewWork(CommandOf(req)), phase, req, done)
<1> DEFINE c == CommandOf(req)
           w == NewWork(c)
<1>1. /\ req.drive \in Drives /\ req.k \in 0..LAST_K /\ req.k \in Nat /\ Len(req.data) \in 1..MAX_COUNT
  <2>1. done \in Nat /\ done < Len(req.data)
    BY DEF Asks
  <2> QED
    BY <2>1, PlaceType
<1>2. LbaOf(Image(req.drive), AddressBy(req.drive, req.k)) = req.k
  BY <1>1 DEF Served
<1>3. /\ c.cmd = req.cmd /\ c.drive = req.drive /\ c.addr = AddressBy(req.drive, req.k)
      /\ c.count = Len(req.data)
  BY DEF CommandOf
<1>4. w = [command |-> req.cmd, offset |-> 0, count |-> Len(req.data), lba |-> req.k, drive |-> req.drive]
  BY <1>1, <1>2, <1>3 DEF NewWork
<1>5. req.cmd = WRITE => ~Image(req.drive).readOnly
  BY <1>3 DEF Refuses
<1>6. req.cmd \in {READ, WRITE} /\ req.drive \in Nat
  BY DEF Asks
<1> HIDE DEF w, c
<1>7. w \in Works
  BY <1>1, <1>4, <1>6 DEF Works
<1>8. WorkAt(w, req, done)
  BY <1>1, <1>4 DEF WorkAt
<1>9. Underway(w, phase, req, done)
  BY <1>1, <1>5, <1>6, <1>8 DEF Underway
<1> QED
  BY <1>7, <1>9 DEF w, c

\* The cases of Handle that send nothing and start nothing.
LEMMA DropSafe ==
    ASSUME NEW b, NEW t, NEW w, Reading(b, t, w, up'), NEW w2 \in Works, Listen(w2), Quiet,
           UNCHANGED disk, age' = 0, silent' = 0, UNCHANGED <<server, clientVars>>
    PROVE  SafeAfter /\ disk' = disk
<1>1. After(<< >>, 0, w2, up')
  BY DroppedSafe
<1>2. buff' = << >> /\ readto' = 0 /\ work' = w2 /\ down = << >>
  BY DEF Listen, Reading
<1> QED
  BY <1>1, <1>2, AfterKept

LEMMA KeepSafe ==
    ASSUME NEW b, NEW t, NEW w, Reading(b, t, w, up'),
           NEW t2, (t = 0 /\ t2 = CMD /\ IsHeader(b[1])) \/ (t # 0 /\ t2 = t /\ Len(b) < t),
           buff' = b, readto' = t2, work' = w, Quiet,
           UNCHANGED disk, age' = 0, silent' = 0, UNCHANGED <<server, clientVars>>
    PROVE  SafeAfter /\ disk' = disk
<1>1. After(b, t2, w, up')
  BY KeptSafe
<1>2. down = << >>
  BY DEF Reading
<1> QED
  BY <1>1, <1>2, AfterKept

LEMMA WriteSafe ==
    ASSUME Served, NEW b, NEW t, NEW w, Reading(b, t, w, up'), WriteSector(b, t, w),
           age' = 0, silent' = 0, UNCHANGED <<server, clientVars>>
    PROVE  SafeAfter /\ (disk' = disk \/ Stores)
<1>1. t = SECTOR /\ Len(b) = SECTOR /\ ChecksumFits(b, "sector")
  BY DEF WriteSector
<1>2. b[1].of.data = req.data[done + 1] /\ up' = << >>
  BY <1>1, SectorRead
<1>3. /\ Underway(w, phase, req, done) /\ req.cmd = WRITE /\ phase = "wait" /\ w \in Works
      /\ Asks(req) /\ done \in Nat /\ Len(req.data) \in Nat /\ disk \in Disks
  BY <1>1 DEF Reading, Session, Asks
<1>4. /\ w.drive = req.drive /\ w.lba = req.k /\ w.offset = done /\ done < Len(req.data)
      /\ ~Image(req.drive).readOnly
  BY <1>3 DEF Underway, WorkAt
<1> DEFINE d == req.data[done + 1]
           x == [kind |-> "echo", data |-> d]
<1>5. /\ disk' = [disk EXCEPT ![File(req.drive)][req.k + done] = d]
      /\ SendDown(x) /\ Advance(w)
  BY <1>2, <1>4 DEF WriteSector, StoreSector
<1>6. Stores
  BY <1>3, <1>4, <1>5 DEF Stores
<1>7. /\ File(req.drive) \in DOMAIN images /\ req.k + done \in 0..LAST_K /\ d \in Nat
  BY <1>3, <1>4, PlaceType DEF WRITE, INQUIRE
<1>8. disk' \in Disks /\ disk'[File(req.drive)][req.k + done] = d
  <2> DEFINE f == File(req.drive)
             k == req.k + done
  <2>1. f \in DOMAIN images /\ k \in 0..LAST_K /\ d \in Nat /\ disk' = [disk EXCEPT ![f][k] = d]
    BY <1>5, <1>7
  <2> HIDE DEF f, k, d
  <2>2. disk' \in Disks /\ disk'[f][k] = d
    BY <1>3, <2>1 DEF Disks
  <2> QED
    BY <2>2 DEF f, k
<1>9. /\ buff' = << >> /\ readto' \in {0, 1} /\ work' \in Works
      /\ readto' = 1 => work'.count # 0
      /\ IF Len(req.data) - done = 1 THEN readto' = 0
         ELSE readto' = 1 /\ WorkAt(work', req, done + 1)
  BY <1>3, <1>5, Advanced
<1>10. Right(x, readto', work', req, done, disk')
  BY <1>3, <1>4, <1>8, <1>9 DEF Right, WRITE, INQUIRE
<1>11. Reading(b, t, w, << >>)
  BY <1>2
<1> HIDE DEF x, d
<1>12. SafeAfter
  BY <1>2, <1>3, <1>5, <1>8, <1>9, <1>10, <1>11, AnsweredSafe
<1> QED
  BY <1>6, <1>12

LEMMA HandleSafe ==
    ASSUME Served, NEW b, NEW t, NEW w, Reading(b, t, w, up'), Handle(b, t, w),
           age' = 0, silent' = 0, UNCHANGED <<server, clientVars>>
    PROVE  SafeAfter /\ (disk' = disk \/ Stores)
<1>1. /\ w \in Works /\ NoWork \in Works /\ t \in {0, 1, CMD, SECTOR} /\ CMD # 1 /\ SECTOR # CMD /\ SECTOR # 1
      /\ t = CMD => IsHeader(b[1])
      /\ Asks(req) /\ phase \in {"send", "wait"}
  BY NoWorkType, SizesType DEF Reading, Session
<1>2. CASE LookAtCharacter(b, t, w)
  <2>1. CASE IsHeader(b[1])
    <3>1. t = 0 /\ buff' = b /\ readto' = CMD /\ work' = w /\ Quiet /\ UNCHANGED disk
      BY <1>2, <2>1 DEF LookAtCharacter
    <3> QED
      BY <2>1, <3>1, KeepSafe
  <2>2. CASE ~IsHeader(b[1])
    <3>1. Listen(w) /\ Quiet /\ UNCHANGED disk
      BY <1>2, <2>2 DEF LookAtCharacter
    <3> QED
      BY <1>1, <3>1, DropSafe
  <2> QED
    BY <2>1, <2>2
<1>3. CASE Partial(b, t, w)
  <2>1. /\ t # 0 /\ Len(b) < t /\ buff' = b /\ readto' = t /\ work' = w
        /\ Quiet /\ UNCHANGED disk
    BY <1>3 DEF Partial
  <2> QED
    BY <2>1, KeepSafe
<1>4. CASE BadSector(b, t, w)
  <2>1. Listen(w) /\ Quiet /\ UNCHANGED disk
    BY <1>4 DEF BadSector
  <2> QED
    BY <1>1, <2>1, DropSafe
<1>5. CASE WriteSector(b, t, w)
  BY <1>5, WriteSafe
<1>6. CASE ContinueFault(b, t, w)
  <2>1. Listen(NoWork) /\ Quiet /\ UNCHANGED disk
    BY <1>6 DEF ContinueFault, Dropped
  <2> QED
    BY <1>1, <2>1, DropSafe
<1>7. CASE BadCommand(b, t, w)
  <2>1. Listen(w) /\ Quiet /\ UNCHANGED disk
    BY <1>7 DEF BadCommand
  <2> QED
    BY <1>1, <2>1, DropSafe
<1>8. CASE Continue(b, t, w)
  <2>1. /\ t = CMD \/ t = 1
        /\ w.count # 0 /\ b[1].val = w.count /\ Perform(w, FALSE)
    BY <1>8 DEF Continue, Complete, Continuation
  <2>2. ~IsHeader(b[1])
    <3>1. w.count \in Nat /\ w.count < 160
      BY <1>1, SizesType DEF Works
    <3>2. w.count \div 32 # 5
      BY <3>1
    <3> QED
      BY <2>1, <3>2 DEF IsHeader
  <2>3. t = 1
    BY <1>1, <2>1, <2>2
  <2>4. /\ Underway(w, phase, req, done)
        /\ phase = "send" \/ req.cmd = READ => up' = << >>
        /\ \A i \in 1..Len(up') : Payload(up'[i])
    BY <2>2, <2>3 DEF Reading
  <2>5. req.cmd # WRITE => req.cmd = READ
    BY <2>4 DEF Underway
  <2> QED
    BY <1>1, <2>1, <2>4, <2>5, PerformSafe
<1>9. CASE NewCommand(b, t, w)
  <2>1. /\ w.count = 0 /\ ChecksumFits(b, "command")
        /\ IF Refuses(b[1].of) THEN Dropped ELSE Perform(NewWork(b[1].of), b[1].of.scan)
    BY <1>9 DEF NewCommand, Complete
  <2>2. t = CMD /\ Len(b) = CMD
    BY <1>9 DEF NewCommand, Complete
  <2>3. /\ b[1].of = CommandOf(req) /\ done = 0
        /\ phase = "send" \/ req.cmd # WRITE => up' = << >>
        /\ \A i \in 1..Len(up') : Payload(up'[i])
    BY <2>1, <2>2, CommandRead
  <2>4. CASE Refuses(CommandOf(req))
    <3>1. Listen(NoWork) /\ Quiet /\ UNCHANGED disk
      BY <2>1, <2>3, <2>4 DEF Dropped
    <3> QED
      BY <1>1, <3>1, DropSafe
  <2>5. CASE ~Refuses(CommandOf(req)) /\ req.cmd = INQUIRE
    <3>1. Perform(NewWork(CommandOf(req)), b[1].of.scan)
      BY <2>1, <2>3, <2>5
    <3>2. up' = << >>
      BY <2>3, <2>5 DEF WRITE, INQUIRE
    <3> QED
      BY <2>5, <3>1, <3>2, InquirySafe
  <2>6. CASE ~Refuses(CommandOf(req)) /\ req.cmd # INQUIRE
    <3>1. Perform(NewWork(CommandOf(req)), b[1].of.scan)
      BY <2>1, <2>3, <2>6
    <3>2. NewWork(CommandOf(req)) \in Works /\ Underway(NewWork(CommandOf(req)), phase, req, done)
      BY <1>1, <2>3, <2>6, NewWorkRight
    <3> QED
      BY <2>3, <3>1, <3>2, PerformSafe
  <2> QED
    BY <2>4, <2>5, <2>6
<1> QED
  BY <1>2, <1>3, <1>4, <1>5, <1>6, <1>7, <1>8, <1>9 DEF Handle

\* What a Receive takes from the line.
LEMMA Taken ==
    ASSUME SafeInv, NEW n \in 1..SECTOR, Receive(n)
    PROVE  LET new == SubSeq(up, 1, n)
           IN /\ n \in 1..Len(up) /\ Len(up) \in Nat /\ IsSeq(new) /\ Len(new) = n /\ IsSeq(up') /\ IsSeq(buff)
              /\ new # << >> /\ up # << >>
              /\ \A i \in 1..n : new[i] = up[i]
              /\ Len(up') = Len(up) - n
              /\ \A i \in 1..Len(up') : up'[i] = up[n + i]
              /\ Session(0, << >>, down, phase, req, done) /\ phase \in {"send", "wait"} /\ down = << >>
              /\ disk \in Disks
              /\ IsSeq(buff \o new) /\ Stream((buff \o new) \o up', phase, req, done)
              /\ Stream(new \o up', phase, req, done)
              /\ Stream(up', phase, req, done)
<1> DEFINE new == SubSeq(up, 1, n)
           rest == SubSeq(up, n + 1, Len(up))
<1>1. up' = rest /\ n \in 1..Len(up)
  BY DEF Receive
<1>2. IsSeq(up) /\ IsSeq(buff) /\ Stream(buff \o up, phase, req, done) /\ disk \in Disks
      /\ Session(readto, up, down, phase, req, done)
  BY DEF SafeInv, Safe, Session, Collected
<1>3. Len(up) \in Nat /\ n \in 0..Len(up) /\ up # << >>
  BY <1>1, <1>2, SeqBasics
<1>4. /\ IsSeq(new) /\ Len(new) = n /\ \A i \in 1..n : new[i] = up[i]
      /\ IsSeq(rest) /\ Len(rest) = Len(up) - n
      /\ \A i \in 1..Len(up) - n : rest[i] = up[n + i]
      /\ new \o rest = up
  BY <1>2, <1>3, Cut
<1> HIDE DEF new, rest
<1>5. new # << >>
  BY <1>1, <1>4, SeqBasics
<1>6. buff \o (new \o rest) = (buff \o new) \o rest /\ IsSeq(buff \o new)
  <2>1. (buff \o new) \o rest = buff \o (new \o rest)
    <3>1. IsSeq(buff) /\ IsSeq(new) /\ IsSeq(rest)
      BY <1>2, <1>4
    <3> QED
      BY <3>1, JoinedTwice
  <2>2. IsSeq(buff \o new)
    BY <1>2, <1>4, Joined, Zenon
  <2> QED
    BY <2>1, <2>2, Zenon
<1>7. Stream((buff \o new) \o rest, phase, req, done)
  BY <1>2, <1>4, <1>6, Zenon
<1>8. Stream(rest, phase, req, done)
  BY <1>4, <1>6, <1>7, StreamTail
<1>9. Stream(new \o rest, phase, req, done)
  <2>1. IsSeq(new \o rest) /\ Stream(buff \o (new \o rest), phase, req, done)
    BY <1>2, <1>4
  <2> QED
    BY <1>2, <2>1, StreamTail, Zenon
<1>10. /\ Session(0, << >>, down, phase, req, done) /\ phase \in {"send", "wait"} /\ down = << >>
  BY <1>2, <1>3, EmptyQuiet DEF Session
<1> QED
  BY <1>1, <1>2, <1>3, <1>4, <1>5, <1>6, <1>7, <1>8, <1>9, <1>10 DEF new, rest

LEMMA Lateness ==
    ASSUME SafeInv
    PROVE  /\ TimedOut <=> readto # 0 /\ age > TIMEOUT
           /\ ~TimedOut /\ readto # 0 => age <= TIMEOUT
<1>1. age \in Nat /\ TIMEOUT \in Nat /\ server.timeout = TRUE
  BY SizesType DEF SafeInv, Safe, Collected, Served
<1> QED
  BY <1>1 DEF TimedOut

LEMMA ReadingOn ==
    ASSUME SafeInv, NEW n \in 1..SECTOR, Receive(n), ~TimedOut
    PROVE  Reading(buff \o SubSeq(up, 1, n), readto, work, up')
<1> DEFINE new == SubSeq(up, 1, n)
           b == buff \o new
<1>1. /\ n \in 1..Len(up) /\ Len(up) \in Nat /\ IsSeq(new) /\ Len(new) = n /\ IsSeq(up') /\ IsSeq(buff)
      /\ \A i \in 1..n : new[i] = up[i]
      /\ up # << >>
      /\ Len(up') = Len(up) - n
      /\ \A i \in 1..Len(up') : up'[i] = up[n + i]
  BY Taken
<1>2. /\ Session(0, << >>, down, phase, req, done) /\ phase \in {"send", "wait"} /\ down = << >>
      /\ disk \in Disks /\ IsSeq(b) /\ Stream(b \o up', phase, req, done)
  BY Taken
<1>3. /\ Len(b) = Len(buff) + n /\ Len(buff) \in Nat
      /\ \A i \in 1..Len(buff) : b[i] = buff[i]
      /\ \A i \in 1..n : b[Len(buff) + i] = new[i]
      /\ \A i \in 1..Len(b) : (i \in 1..Len(buff) /\ b[i] = buff[i]) \/ (\E j \in 1..n : b[i] = new[j])
  BY <1>1, Joined, JoinedAt, SeqBasics
<1> HIDE DEF new, b
<1>4. /\ work \in Works /\ readto \in {0, 1, CMD, SECTOR}
      /\ readto = 0 => buff = << >>
      /\ readto # 0 => Len(buff) < readto
      /\ readto = CMD => buff # << >> /\ IsHeader(buff[1])
  BY DEF SafeInv, Safe, Collected
<1>5. n <= Asked
  BY DEF Receive
<1>6. CMD \in Nat /\ SECTOR \in Nat /\ CMD # 1 /\ CMD # 0 /\ SECTOR # 0 /\ SECTOR # 1 /\ CMD # SECTOR
  BY SizesType
<1>7. b # << >>
  <2>1. Len(b) >= 1
    BY <1>1, <1>3
  <2> QED
    BY <1>2, <2>1, SeqBasics
<1>8. readto = 0 => Len(b) = 1
  <2>1. readto = 0 => Len(buff) = 0 /\ n = 1
    BY <1>1, <1>4, <1>5, SeqBasics DEF Asked
  <2> QED
    BY <1>3, <2>1
<1>9. readto # 0 => Len(b) <= readto
  BY <1>1, <1>3, <1>4, <1>5, <1>6 DEF Asked
<1>10. readto = CMD => IsHeader(b[1])
  <2>1. readto = CMD => 1 \in 1..Len(buff)
    BY <1>1, <1>3, <1>4, SeqBasics
  <2> QED
    BY <1>3, <1>4, <2>1
<1>11. readto # 0 => age <= TIMEOUT
  BY Lateness
<1>12. Awaited(buff, readto, work, age, up, down, phase, req, done, calm)
  BY DEF SafeInv, Safe
<1>13. ASSUME readto = SECTOR
       PROVE  /\ Underway(work, phase, req, done) /\ req.cmd = WRITE /\ phase = "wait"
              /\ \A i \in 1..Len(b) : Payload(b[i])
              /\ \A i \in 1..Len(up') : Payload(up'[i])
  <2>1. /\ \A i \in 1..Len(buff) : Payload(buff[i])
        /\ SectorAwaited(buff, work, up, down, phase, req, done)
    BY <1>6, <1>11, <1>12, <1>13 DEF Awaited
  <2>2. /\ Underway(work, phase, req, done) /\ req.cmd = WRITE /\ phase = "wait"
        /\ \A i \in 1..Len(up) : Payload(up[i])
    BY <1>1, <1>2, <2>1 DEF SectorAwaited
  <2>3. \A i \in 1..n : Payload(new[i])
    BY <1>1, <2>2
  <2>4. \A i \in 1..Len(b) : Payload(b[i])
    BY <1>3, <2>1, <2>3
  <2>5. ASSUME NEW i \in 1..Len(up') PROVE Payload(up'[i])
    <3>1. n + i \in 1..Len(up)
      BY <1>1
    <3> QED
      BY <1>1, <2>2, <3>1
  <2> QED
    BY <2>2, <2>4, <2>5
<1>14. ASSUME readto = 1
       PROVE  /\ work.count # 0
              /\ \/ /\ Underway(work, phase, req, done)
                    /\ phase = "send" \/ req.cmd = READ => up' = << >>
                    /\ \A i \in 1..Len(up') : Payload(up'[i])
                 \/ IsHeader(b[1])
  <2>1. AckAwaited(work, up, down, phase, req, done, calm)
    BY <1>6, <1>11, <1>12, <1>14 DEF Awaited
  <2>2. n = 1 /\ Len(buff) = 0
    BY <1>1, <1>3, <1>4, <1>5, <1>14 DEF Asked
  <2>3. b[1] = up[1]
    <3>1. b[Len(buff) + 1] = new[1] /\ new[1] = up[1]
      BY <1>1, <1>3, <2>2
    <3> QED
      BY <2>2, <3>1
  <2>4. CASE Stale(up, down, phase, calm)
    BY <1>2, <2>1, <2>3, <2>4 DEF Stale, AckAwaited
  <2>5. CASE Acked(work, up, down, phase, req, done)
    <3>1. ASSUME NEW i \in 1..Len(up') PROVE Payload(up'[i])
      <4>1. n + i \in 1..Len(up) /\ n + i > 1
        BY <1>1
      <4> QED
        BY <1>1, <2>5, <4>1 DEF Acked
    <3>2. phase = "send" \/ req.cmd = READ => up' = << >>
      <4>1. phase = "send" \/ req.cmd = READ => Len(up') = 0
        BY <1>1, <2>2, <2>5 DEF Acked
      <4> QED
        BY <1>1, <4>1, SeqBasics
    <3> QED
      BY <2>1, <2>5, <3>1, <3>2 DEF Acked, AckAwaited
  <2> QED
    BY <1>1, <2>1, <2>4, <2>5 DEF AckAwaited
<1> QED
  BY <1>1, <1>2, <1>4, <1>7, <1>8, <1>9, <1>10, <1>13, <1>14 DEF Reading, b, new

LEMMA ReadingAnew ==
    ASSUME SafeInv, NEW n \in 1..SECTOR, Receive(n), NEW t,
           (t = CMD /\ n <= CMD /\ IsHeader(SubSeq(up, 1, n)[1])) \/ (t = 0 /\ n = 1)
    PROVE  Reading(SubSeq(up, 1, n), t, NoWork, up')
<1>1. /\ n \in 1..Len(up) /\ IsSeq(SubSeq(up, 1, n)) /\ Len(SubSeq(up, 1, n)) = n
      /\ IsSeq(up') /\ SubSeq(up, 1, n) # << >>
      /\ Session(0, << >>, down, phase, req, done) /\ phase \in {"send", "wait"} /\ down = << >>
      /\ disk \in Disks /\ Stream(SubSeq(up, 1, n) \o up', phase, req, done)
  BY Taken, Zenon
<1>2. CMD # 0 /\ CMD # 1 /\ CMD # SECTOR /\ SECTOR # 0
  BY SizesType
<1> QED
  BY <1>1, <1>2, NoWorkType DEF Reading

LEMMA ReceiveSafe ==
    ASSUME SafeInv, NEW n \in 1..SECTOR, Receive(n)
    PROVE  SafeAfter /\ (disk' = disk \/ Stores)
<1> DEFINE new == SubSeq(up, 1, n)
<1>1. Served /\ silent' = 0 /\ UNCHANGED <<server, clientVars>>
  BY DEF SafeInv, Receive
<1>2. \/ ~TimedOut /\ Handle(buff \o new, readto, work) /\ age' = 0
      \/ /\ TimedOut /\ n <= CMD /\ IsHeader(new[1])
         /\ Handle(new, CMD, NoWork) /\ age' = 0
      \/ /\ TimedOut /\ n = 1 /\ ~IsHeader(new[1])
         /\ Handle(new, 0, NoWork) /\ age' = 0
      \/ Listen(NoWork) /\ Quiet /\ UNCHANGED <<lastScan, disk, age>>
  BY DEF Receive
<1>3. CASE ~TimedOut /\ Handle(buff \o new, readto, work) /\ age' = 0
  BY <1>1, <1>3, ReadingOn, HandleSafe
<1>4. CASE /\ TimedOut /\ n <= CMD /\ IsHeader(new[1])
           /\ Handle(new, CMD, NoWork) /\ age' = 0
  <2>1. Reading(new, CMD, NoWork, up')
    BY <1>4, ReadingAnew
  <2> QED
    BY <1>1, <1>4, <2>1, HandleSafe
<1>5. CASE /\ TimedOut /\ n = 1 /\ ~IsHeader(new[1])
           /\ Handle(new, 0, NoWork) /\ age' = 0
  <2>1. Reading(new, 0, NoWork, up')
    BY <1>5, ReadingAnew
  <2> QED
    BY <1>1, <1>5, <2>1, HandleSafe
<1>6. CASE Listen(NoWork) /\ Quiet /\ UNCHANGED <<lastScan, disk, age>>
  <2>1. /\ buff' = << >> /\ readto' = 0 /\ work' = NoWork /\ age' = age /\ disk' = disk /\ calm' = calm
        /\ down' = down /\ clean' = clean /\ phase' = phase /\ req' = req /\ done' = done
    BY <1>1, <1>6 DEF Listen, Quiet, clientVars
  <2>2. age \in Nat
    BY DEF SafeInv, Safe, Collected
  <2>3. /\ Session(0, << >>, down, phase, req, done) /\ phase \in {"send", "wait"} /\ down = << >>
        /\ disk \in Disks /\ IsSeq(up') /\ Stream(up', phase, req, done)
    BY Taken
  <2>4. Collected(<< >>, 0, NoWork, age, 0)
    BY <2>2, EmptyQuiet, NoWorkType, SizesType DEF Collected
  <2>5. Session(0, up', << >>, phase, req, done)
    BY <2>3 DEF Session
  <2>6. Stream(<< >> \o up', phase, req, done)
    BY <2>3, JoinedEmpty
  <2>7. Awaited(<< >>, 0, NoWork, age, up', << >>, phase, req, done, calm)
    BY SizesType DEF Awaited
  <2>8. Replied(<< >>, 0, NoWork, up', << >>, phase, req, done, calm, clean, disk)
    BY DEF Replied
  <2>9. Safe(<< >>, 0, NoWork, age, 0, up', << >>, phase, req, done, calm, clean, disk)
    BY <2>3, <2>4, <2>5, <2>6, <2>7, <2>8 DEF Safe
  <2> QED
    BY <1>1, <2>1, <2>3, <2>9, Zenon DEF SafeAfter
<1> QED
  BY <1>2, <1>3, <1>4, <1>5, <1>6

-----------------------------------------------------------------------------
(* The steps of the client and of time.                                      *)

LEMMA InquiryAsks == ASSUME Served, NEW r \in Inquiries PROVE Asks(r)
<1>1. r.cmd = INQUIRE /\ r.drive \in 0..1 /\ r.k = 0 /\ r.data = << >>
  BY DEF Inquiries
<1>2. << >> \in Seq(Nat) /\ Len(<< >>) = 0
  OBVIOUS
<1> QED
  BY <1>1, <1>2 DEF Asks

LEMMA TransferAsks == ASSUME Served, NEW r \in Transfers PROVE Asks(r)
<1> DEFINE At(x) == TransfersAt(x[1], x[2], x[3])
           X == Drives \X (0..LAST_K) \X (1..MAX_COUNT)
<1>1. r \in UNION {At(x) : x \in X} /\ r.k + Len(r.data) <= LAST_K + 1
  BY DEF Transfers
<1>2. PICK x \in X : r \in At(x)
  <2> HIDE DEF At, X
  <2> QED
    BY <1>1
<1> DEFINE d == x[1]
           k == x[2]
           n == x[3]
<1>3. d \in Drives /\ k \in 0..LAST_K /\ n \in 1..MAX_COUNT /\ d \in Nat
  <2>1. d \in Drives /\ k \in 0..LAST_K /\ n \in 1..MAX_COUNT
    OBVIOUS
  <2> HIDE DEF d
  <2> QED
    BY <2>1 DEF Served
<1>4. r \in TransfersAt(d, k, n)
  BY <1>2
<1> HIDE DEF d, k, n
<1>5. n \in Nat /\ k \in Nat /\ Data \subseteq Nat
  BY <1>3, SizesType, ClientAssumption
<1>6. CASE \E data \in [1..n -> Data] : r = Request(WRITE, d, k, data)
  <2>1. PICK data \in [1..n -> Data] : r = Request(WRITE, d, k, data)
    BY <1>6
  <2>2. data \in Seq(Nat) /\ Len(data) = n
    <3>1. data \in [1..n -> Nat]
      BY <1>5
    <3> QED
      BY <1>5, <3>1
  <2>3. r.cmd = WRITE /\ r.drive = d /\ r.k = k /\ r.data = data
    BY <2>1 DEF Request
  <2> QED
    BY <1>1, <1>3, <1>5, <2>2, <2>3 DEF Asks, WRITE, INQUIRE
<1>7. CASE r = Request(READ, d, k, [i \in 1..n |-> 0])
  <2> DEFINE data == [i \in 1..n |-> 0]
  <2>1. data \in Seq(Nat) /\ Len(data) = n
    BY <1>5
  <2>2. r.cmd = READ /\ r.drive = d /\ r.k = k /\ r.data = data
    BY <1>7 DEF Request
  <2> QED
    BY <1>1, <1>3, <1>5, <2>1, <2>2 DEF Asks, READ, INQUIRE
<1> QED
  BY <1>4, <1>6, <1>7 DEF TransfersAt

LEMMA BeginSafe == ASSUME SafeInv, Begin PROVE SafeAfter
<1>1. /\ phase = "idle" /\ up = << >>
      /\ req' \in Transfers \cup Inquiries
      /\ done' = 0 /\ disk' = disk /\ buff' = buff /\ readto' = readto /\ work' = work /\ age' = age
      /\ silent' = silent /\ down' = down
      /\ phase' = IF req'.cmd = WRITE THEN "send" ELSE "wait"
  BY PartsTaken DEF SafeInv, Begin, serverVars
<1>2. /\ Served /\ Collected(buff, readto, work, age, silent)
      /\ Session(readto, up, down, phase, req, done) /\ disk \in Disks
      /\ Stream(buff \o up, phase, req, done)
      /\ Awaited(buff, readto, work, age, up, down, phase, req, done, calm)
  BY DEF SafeInv, Safe
<1>3. IsSeq(buff) /\ down = << >> /\ NoStart(buff)
  <2>1. IsSeq(buff) /\ down = << >>
    BY <1>1, <1>2 DEF Collected, Session
  <2>2. Stream(buff, phase, req, done)
    BY <1>1, <1>2, <2>1, JoinedEmpty
  <2> QED
    BY <1>1, <2>1, <2>2, NothingStarts
<1> DEFINE c == CommandOf(req')
<1>4. Asks(req')
  BY <1>1, <1>2, InquiryAsks, TransferAsks
<1>5. c.kind = "command" /\ IsSeq(Bytes(c)) /\ Len(Bytes(c)) = CMD /\ Bytes(c)[1].val = CommandValue(c, 1)
  <2>1. c.kind = "command"
    BY DEF CommandOf
  <2>2. 1 \in 1..CMD
    BY SizesType
  <2> HIDE DEF c
  <2> QED
    BY <2>1, <2>2, CommandBytes
<1>6. IsHeader(Bytes(c)[1])
  <2>1. c.cmd \in {0, 2, 3}
    BY <1>4 DEF CommandOf, Asks, INQUIRE, READ, WRITE
  <2>2. CommandValue(c, 1) = 160 + c.cmd
    BY DEF CommandValue, HEADER
  <2> HIDE DEF c
  <2>3. (160 + c.cmd) \div 32 = 5
    BY <2>1
  <2> QED
    BY <1>5, <2>2, <2>3 DEF IsHeader
<1>7. \/ up' = Bytes(c) /\ calm' = calm
      \/ calm /\ IsSeq(up') /\ NoStart(up')
  <2>1. CASE up' = up \o Bytes(c) /\ UNCHANGED <<faults, calm>>
    BY <1>1, <1>5, <2>1, JoinedEmpty
  <2>2. CASE Fault /\ \E bs \in Damaged(Bytes(c)) : up' = up \o bs
    <3>1. PICK bs \in Damaged(Bytes(c)) : up' = up \o bs
      BY <2>2
    <3>2. IsSeq(bs) /\ NoStart(bs)
      BY <1>5, DamagedBytes, NoiseQuiet
    <3>3. up' = bs
      BY <1>1, <3>1, <3>2, JoinedEmpty
    <3> QED
      BY <2>2, <3>2, <3>3 DEF Fault
  <2> QED
    BY <2>1, <2>2 DEF Begin
<1> HIDE DEF c
<1>8. phase' \in {"send", "wait"}
  BY <1>1
<1>9. Session(readto', up', down', phase', req', done')
  <2>1. IsSeq(up')
    BY <1>5, <1>7
  <2>2. Len(req'.data) \in Nat
    BY <1>4 DEF Asks
  <2>3. 0 \in 0..Len(req'.data) /\ (0 < Len(req'.data) \/ req'.cmd = INQUIRE)
    BY <1>4, <2>2 DEF Asks
  <2> QED
    BY <1>1, <1>3, <1>4, <1>8, <2>1, <2>3 DEF Session
<1>10. Stream(buff' \o up', phase', req', done')
  <2>1. CASE up' = Bytes(c)
    BY <1>1, <1>3, <1>8, <2>1, CommandJoined DEF c
  <2>2. CASE IsSeq(up') /\ NoStart(up')
    <3>1. NoStart(buff \o up')
      BY <1>3, <2>2, QuietJoined
    <3> QED
      BY <1>1, <3>1, QuietStream
  <2> QED
    BY <1>7, <2>1, <2>2
<1>11. Awaited(buff', readto', work', age', up', down', phase', req', done', calm')
  <2>1. readto = SECTOR => (\A i \in 1..Len(buff) : Payload(buff[i])) /\ ~(age <= TIMEOUT)
    BY <1>1, <1>2 DEF Awaited, SectorAwaited, Underway
  <2>2. ASSUME readto = 1 /\ age <= TIMEOUT
        PROVE  AckAwaited(work, up', down, phase', req', done', calm')
    <3>1. work.count # 0 /\ ~calm
      BY <1>1, <1>2, <2>2 DEF Awaited, AckAwaited, Acked, Underway, Stale
    <3>2. up' = Bytes(c) /\ calm' = calm
      BY <1>7, <3>1
    <3>3. up' # << >>
      BY <1>5, <3>2, SeqBasics, SizesType
    <3>4. Stale(up', down, phase', calm')
      BY <1>3, <1>6, <1>8, <3>1, <3>2, <3>3 DEF Stale
    <3> QED
      BY <3>1, <3>4 DEF AckAwaited
  <2> QED
    BY <1>1, <2>1, <2>2 DEF Awaited
<1>12. Replied(buff', readto', work', up', down', phase', req', done', calm', clean', disk')
  BY <1>1, <1>3 DEF Replied
<1> QED
  BY <1>1, <1>2, <1>9, <1>10, <1>11, <1>12 DEF SafeAfter, Safe

LEMMA SafeParts ==
    ASSUME SafeInv
    PROVE  /\ Served /\ Collected(buff, readto, work, age, silent)
           /\ Session(readto, up, down, phase, req, done) /\ disk \in Disks
           /\ Stream(buff \o up, phase, req, done)
           /\ Awaited(buff, readto, work, age, up, down, phase, req, done, calm)
           /\ Replied(buff, readto, work, up, down, phase, req, done, calm, clean, disk)
           /\ IsSeq(buff) /\ IsSeq(up) /\ age \in Nat /\ silent \in Nat /\ silent <= age
           /\ phase # "idle" => Asks(req) /\ done \in Nat /\ Len(req.data) \in Nat /\ done <= Len(req.data)
  BY DEF SafeInv, Safe, Session, Collected, Asks

LEMMA SendSectorSafe == ASSUME SafeInv, SendSector PROVE SafeAfter
<1>1. /\ phase = "send" /\ phase' = "wait"
      /\ buff' = buff /\ readto' = readto /\ work' = work /\ age' = age /\ disk' = disk
      /\ silent' = silent /\ down' = down /\ req' = req /\ done' = done
      /\ SendUp([kind |-> "sector", data |-> req.data[done + 1]])
  BY PartsTaken DEF SafeInv, SendSector, serverVars
<1>2. /\ Served /\ Collected(buff, readto, work, age, silent)
      /\ Session(readto, up, down, phase, req, done) /\ disk \in Disks
      /\ Stream(buff \o up, phase, req, done)
      /\ Awaited(buff, readto, work, age, up, down, phase, req, done, calm)
      /\ IsSeq(buff) /\ IsSeq(up)
  BY SafeParts
<1>3. down = << >> /\ req.cmd = WRITE
  <2>1. Replied(buff, readto, work, up, down, phase, req, done, calm, clean, disk)
    BY SafeParts
  <2> QED
    BY <1>1, <1>2, <2>1 DEF Replied, Session
<1> DEFINE c == [kind |-> "sector", data |-> req.data[done + 1]]
<1>4. PICK t : /\ up' = up \o t /\ IsSeq(t) /\ (~calm => ~calm')
               /\ \A i \in 1..Len(t) : Payload(t[i])
               /\ \A i \in 1..Len(t) : StartsSector(t[i]) =>
                                   i = 1 /\ Len(t) = SECTOR /\ t[i].of.data = req.data[done + 1]
  <2>1. c.kind = "sector" /\ c.data = req.data[done + 1]
    OBVIOUS
  <2> HIDE DEF c
  <2>2. /\ IsSeq(Bytes(c)) /\ Len(Bytes(c)) = SECTOR
        /\ \A i \in 1..SECTOR : Bytes(c)[i].of = c /\ Bytes(c)[i].at = i
    BY <2>1, SectorBytes
  <2>3. CASE up' = up \o Bytes(c) /\ UNCHANGED <<faults, clean, calm>>
    <3>1. \A i \in 1..Len(Bytes(c)) : Payload(Bytes(c)[i])
      BY <2>1, <2>2 DEF Payload
    <3>2. \A i \in 1..Len(Bytes(c)) : StartsSector(Bytes(c)[i]) =>
             i = 1 /\ Len(Bytes(c)) = SECTOR /\ Bytes(c)[i].of.data = req.data[done + 1]
      BY <2>1, <2>2 DEF StartsSector
    <3> QED
      BY <2>2, <2>3, <3>1, <3>2
  <2>4. CASE Fault /\ \E bs \in Damaged(Bytes(c)) : up' = up \o bs
    <3>1. PICK bs \in Damaged(Bytes(c)) : up' = up \o bs
      BY <2>4
    <3>2. IsSeq(bs) /\ \A i \in 1..Len(bs) : bs[i].of.kind = "noise"
      BY <2>2, DamagedBytes
    <3>3. \A i \in 1..Len(bs) : Payload(bs[i]) /\ ~StartsSector(bs[i])
      BY <3>2 DEF Payload, StartsSector
    <3>4. calm' = FALSE
      BY <2>4 DEF Fault
    <3> QED
      BY <3>1, <3>2, <3>3, <3>4
  <2>5. SendUp(c)
    BY <1>1 DEF c
  <2> QED
    BY <2>3, <2>4, <2>5 DEF SendUp
<1> HIDE DEF c
<1>5. IsSeq(up \o t) /\ IsSeq(buff \o up) /\ buff \o (up \o t) = (buff \o up) \o t
  <2>1. (buff \o up) \o t = buff \o (up \o t)
    <3>1. IsSeq(buff) /\ IsSeq(up) /\ IsSeq(t)
      BY <1>2, <1>4
    <3> QED
      BY <3>1, JoinedTwice
  <2> QED
    BY <1>2, <1>4, <2>1, Joined
<1>6. Stream(buff \o (up \o t), "wait", req, done)
  <2>1. Stream((buff \o up) \o t, "wait", req, done)
    BY <1>1, <1>2, <1>3, <1>4, <1>5, SectorJoined
  <2> QED
    BY <1>5, <2>1
<1>7. Session(readto, up \o t, down, "wait", req, done)
  BY <1>1, <1>2, <1>3, <1>5 DEF Session
<1>8. Awaited(buff, readto, work, age, up \o t, down, "wait", req, done, calm')
  <2>1. readto = SECTOR => \A i \in 1..Len(buff) : Payload(buff[i])
    BY <1>2 DEF Awaited
  <2>2. ASSUME readto = SECTOR /\ age <= TIMEOUT
        PROVE  SectorAwaited(buff, work, up \o t, down, "wait", req, done)
    <3>1. Underway(work, phase, req, done) /\ up = << >>
      BY <1>1, <1>2, <2>2 DEF Awaited, SectorAwaited
    <3>2. up \o t = t
      BY <1>4, <3>1, JoinedEmpty
    <3>3. Underway(work, "wait", req, done)
      BY <3>1 DEF Underway
    <3> QED
      BY <1>3, <1>4, <3>2, <3>3 DEF SectorAwaited
  <2>3. ASSUME readto = 1 /\ age <= TIMEOUT
        PROVE  AckAwaited(work, up \o t, down, "wait", req, done, calm')
    <3>1. work.count # 0 /\ (Acked(work, up, down, phase, req, done) \/ Stale(up, down, phase, calm))
      BY <1>1, <1>2, <2>3 DEF Awaited, AckAwaited
    <3>2. CASE Acked(work, up, down, phase, req, done)
      <4>1. Len(up) <= 1 /\ Underway(work, "wait", req, done)
        BY <1>1, <3>2 DEF Acked, Underway
      <4>2. ASSUME NEW i \in 1..Len(up \o t), i > 1 PROVE Payload((up \o t)[i])
        <5>1. ~(i \in 1..Len(up))
          BY <1>2, <4>1, <4>2, SeqBasics
        <5>2. \E j \in 1..Len(t) : (up \o t)[i] = t[j]
          BY <1>2, <1>4, <5>1, JoinedAt
        <5> QED
          BY <1>4, <5>2
      <4> QED
        BY <1>3, <3>1, <4>1, <4>2 DEF Acked, AckAwaited, READ, WRITE
    <3>3. CASE Stale(up, down, phase, calm)
      <4>1. up # << >> /\ IsHeader(up[1]) /\ ~calm
        BY <1>1, <3>3 DEF Stale
      <4>2. Len(up) \in Nat /\ Len(up) >= 1 /\ Len(t) \in Nat
        BY <1>2, <1>4, <4>1, SeqBasics
      <4>3. (up \o t)[1] = up[1] /\ Len(up \o t) = Len(up) + Len(t)
        BY <1>2, <1>4, <4>2, Joined
      <4>4. up \o t # << >>
        BY <1>5, <4>2, <4>3, SeqBasics
      <4> QED
        BY <1>3, <1>4, <3>1, <4>1, <4>3, <4>4 DEF Stale, AckAwaited
    <3> QED
      BY <3>1, <3>2, <3>3
  <2> QED
    BY <2>1, <2>2, <2>3 DEF Awaited
<1>9. Replied(buff, readto, work, up \o t, down, "wait", req, done, calm', clean', disk)
  BY <1>3 DEF Replied
<1>10. Safe(buff, readto, work, age, silent, up \o t, down, "wait", req, done, calm', clean', disk)
  BY <1>2, <1>6, <1>7, <1>8, <1>9 DEF Safe
<1> QED
  BY <1>1, <1>4, <1>10, Zenon DEF SafeAfter

\* The client in between: nothing is on the line, and nothing of a message is left
\* with the server that is not late.
LEMMA IdleSafe ==
    ASSUME NEW b, NEW t, NEW w, NEW a, NEW s, NEW ca, NEW cl, NEW dk \in Disks,
           Collected(b, t, w, a, s), NoStart(b),
           t = SECTOR => \A i \in 1..Len(b) : Payload(b[i]),
           t = SECTOR => ~(a <= TIMEOUT), t = 1 /\ a <= TIMEOUT => w.count # 0 /\ ~ca
    PROVE  Safe(b, t, w, a, s, << >>, << >>, "idle", Nobody, 0, ca, cl, dk)
<1>1. IsSeq(b) /\ b \o << >> = b
  BY JoinedEmpty DEF Collected
<1>2. Stream(b \o << >>, "idle", Nobody, 0)
  BY <1>1, QuietStream
<1>3. Session(t, << >>, << >>, "idle", Nobody, 0)
  BY EmptyQuiet DEF Session
<1>4. Awaited(b, t, w, a, << >>, << >>, "idle", Nobody, 0, ca)
  BY DEF Awaited, AckAwaited, Stale
<1>5. Replied(b, t, w, << >>, << >>, "idle", Nobody, 0, ca, cl, dk)
  BY DEF Replied
<1> QED
  BY <1>2, <1>3, <1>4, <1>5 DEF Safe

LEMMA SucceedSafe == ASSUME SafeInv, Succeed PROVE SafeAfter
<1>1. /\ phase = "over" /\ phase' = "idle" /\ req' = Nobody /\ done' = 0
      /\ buff' = buff /\ readto' = readto /\ work' = work /\ age' = age /\ disk' = disk
      /\ silent' = silent /\ down' = down /\ up' = up
  BY DEF Succeed, End, serverVars
<1>2. /\ Collected(buff, readto, work, age, silent)
      /\ Session(readto, up, down, phase, req, done) /\ disk \in Disks
      /\ Stream(buff \o up, phase, req, done) /\ IsSeq(buff) /\ IsSeq(up)
  BY SafeParts
<1>3. up = << >> /\ down = << >> /\ readto = 0
  BY <1>1, <1>2 DEF Session
<1>4. NoStart(buff)
  BY <1>1, <1>2, <1>3, JoinedEmpty, NothingStarts
<1>5. Safe(buff, readto, work, age, silent, << >>, << >>, "idle", Nobody, 0, calm', clean', disk)
  BY <1>2, <1>3, <1>4, IdleSafe, SizesType
<1> QED
  BY <1>1, <1>3, <1>5, Zenon DEF SafeAfter

LEMMA DivisionType == ASSUME NEW x \in Nat, NEW y \in Nat, y >= 1 PROVE x \div y \in Nat
  OBVIOUS

LEMMA LaterType ==
    ASSUME Served, NEW t \in Nat, NEW x
    PROVE  /\ ReplyTime(x) \in Nat /\ Later(t, ReplyTime(x)) \in Nat
           /\ Later(t, ReplyTime(x)) <= TIMEOUT => t <= TIMEOUT
           /\ t = 0 /\ ReplyTime(x) <= TIMEOUT => Later(t, ReplyTime(x)) <= TIMEOUT
<1>1. server.rate \in Nat /\ server.rate >= 1
  BY DEF Served
<1> DEFINE n == (IF x.kind = "echo" THEN 2 ELSE 514) * 10000
<1>2. n \in Nat
  OBVIOUS
<1>3. ReplyTime(x) = IF Pipe THEN 0 ELSE n \div server.rate
  BY DEF ReplyTime
<1> HIDE DEF n
<1>4. ReplyTime(x) \in Nat
  BY <1>1, <1>2, <1>3, DivisionType
<1> QED
  BY <1>4, SizesType DEF Later

\* A wrong reply is one that was damaged.
LEMMA WrongSafe == ASSUME SafeInv, WrongReply PROVE SafeAfter
<1>1. /\ phase = "wait" /\ down # << >> /\ ~Expected(Head(down))
      /\ phase' = "idle" /\ req' = Nobody /\ done' = 0
      /\ buff' = buff /\ readto' = readto /\ work' = work /\ disk' = disk
      /\ silent' = 0 /\ down' = Tail(down) /\ up' = up /\ calm' = calm
      /\ age' = Later(age, ReplyTime(Head(down)))
  BY DEF WrongReply, TakeReply, End
<1>2. /\ Served /\ Collected(buff, readto, work, age, silent) /\ disk \in Disks
      /\ Awaited(buff, readto, work, age, up, down, phase, req, done, calm)
      /\ Replied(buff, readto, work, up, down, phase, req, done, calm, clean, disk)
      /\ Asks(req)
  BY <1>1, SafeParts
<1>3. PICK x : /\ down = <<x>>
               /\ (x.kind = "damaged" /\ ~calm) \/ Right(x, readto, work, req, done, disk)
  BY <1>1, <1>2 DEF Replied
<1>4. buff = << >> /\ up = << >> /\ readto \in {0, 1}
  BY <1>1, <1>2 DEF Replied
<1>5. Head(down) = x /\ Tail(down) = << >>
  BY <1>3
<1>6. ~calm
  <2>1. ~Right(x, readto, work, req, done, disk)
    <3>0. ~Expected(x)
      BY <1>1, <1>5
    <3>1. CASE req.cmd = WRITE
      <4>1. ~(x.kind = "echo" /\ x.data = req.data[done + 1])
        BY <3>0, <3>1 DEF Expected, READ, WRITE, INQUIRE
      <4> QED
        BY <3>1, <4>1 DEF Right, READ, WRITE, INQUIRE
    <3>2. CASE req.cmd = READ
      <4>1. ~(x.kind = "read")
        BY <3>0, <3>2 DEF Expected, READ, WRITE, INQUIRE
      <4> QED
        BY <3>2, <4>1 DEF Right, READ, WRITE, INQUIRE
    <3>3. CASE req.cmd = INQUIRE
      <4>1. ~(x.kind = "inquiry")
        BY <3>0, <3>3 DEF Expected, READ, WRITE, INQUIRE
      <4> QED
        BY <3>3, <4>1 DEF Right
    <3> QED
      BY <1>2, <3>1, <3>2, <3>3 DEF Asks
  <2> QED
    BY <1>3, <2>1
<1>7. age' \in Nat
  BY <1>1, <1>2, LaterType DEF Collected
<1>8. readto = 1 /\ age' <= TIMEOUT => work.count # 0
  <2>1. age' <= TIMEOUT => age <= TIMEOUT
    BY <1>1, <1>2, LaterType DEF Collected
  <2> QED
    BY <1>2, <2>1 DEF Awaited, AckAwaited
<1>9. Collected(<< >>, readto, work, age', 0)
  BY <1>2, <1>4, <1>7, EmptyQuiet DEF Collected
<1>10. Safe(<< >>, readto, work, age', 0, << >>, << >>, "idle", Nobody, 0, calm, clean', disk)
  <2>1. readto # SECTOR
    BY <1>4, SizesType
  <2> QED
    BY <1>2, <1>6, <1>8, <1>9, <2>1, EmptyQuiet, IdleSafe
<1> QED
  BY <1>1, <1>4, <1>5, <1>10, Zenon DEF SafeAfter

\* A request that was given up left nothing in the buffer that is whole.
LEMMA GiveUpSafe == ASSUME SafeInv, GiveUp PROVE SafeAfter
<1>1. /\ phase = "wait" /\ up = << >> /\ down = << >> /\ silent > TIMEOUT
      /\ phase' = "idle" /\ req' = Nobody /\ done' = 0
      /\ buff' = buff /\ readto' = readto /\ work' = work /\ age' = age /\ disk' = disk
      /\ silent' = silent /\ down' = down /\ up' = up /\ calm' = calm
  BY PartsTaken DEF SafeInv, GiveUp, End, serverVars
<1>2. /\ Collected(buff, readto, work, age, silent) /\ disk \in Disks
      /\ Awaited(buff, readto, work, age, up, down, phase, req, done, calm)
      /\ IsSeq(buff) /\ Stream(buff \o up, phase, req, done)
      /\ age \in Nat /\ silent \in Nat /\ silent <= age
  BY SafeParts
<1>3. ~(age <= TIMEOUT)
  BY <1>1, <1>2, SizesType
<1>4. Stream(buff, phase, req, done)
  BY <1>1, <1>2, JoinedEmpty
<1>5. ASSUME NEW i \in 1..Len(buff) PROVE ~StartsCommand(buff[i]) /\ ~StartsSector(buff[i])
  <2>1. Len(buff) \in Nat /\ readto # 0 /\ readto # 1 /\ Len(buff) < readto
    BY <1>2, <1>5, SeqBasics DEF Collected
  <2>2. CASE readto = CMD
    <3>1. ~(i + CMD - 1 <= Len(buff)) /\ i + SECTOR - 1 # Len(buff)
      BY <2>1, <2>2, SizesType
    <3> QED
      BY <1>4, <3>1 DEF Stream, CommandAt, SectorAt
  <2>3. CASE readto = SECTOR
    <3>1. i + SECTOR - 1 # Len(buff)
      BY <2>1, <2>3, SizesType
    <3>2. Payload(buff[i])
      BY <1>2, <2>3 DEF Awaited
    <3> QED
      BY <1>4, <3>1, <3>2 DEF Stream, SectorAt, Payload, StartsCommand
  <2> QED
    BY <1>2, <2>1, <2>2, <2>3 DEF Collected
<1>6. Safe(buff, readto, work, age, silent, << >>, << >>, "idle", Nobody, 0, calm, clean', disk)
  <2>1. NoStart(buff)
    BY <1>5 DEF NoStart
  <2>2. readto = SECTOR => \A i \in 1..Len(buff) : Payload(buff[i])
    BY <1>2 DEF Awaited
  <2> QED
    BY <1>2, <1>3, <2>1, <2>2, IdleSafe
<1> QED
  BY <1>1, <1>6, Zenon DEF SafeAfter

LEMMA ResetSafe == ASSUME SafeInv, ResetConnection PROVE SafeAfter
<1>1. /\ up' = << >> /\ down' = << >> /\ buff' = << >> /\ readto' = 0 /\ work' = NoWork
      /\ age' = 0 /\ silent' = 0 /\ phase' = "idle" /\ req' = Nobody /\ done' = 0 /\ disk' = disk
  BY DEF ResetConnection, Listen
<1>2. Collected(<< >>, 0, NoWork, 0, 0)
  BY EmptyQuiet, NoWorkType, SizesType DEF Collected
<1>3. disk \in Disks
  BY SafeParts
<1>4. Safe(<< >>, 0, NoWork, 0, 0, << >>, << >>, "idle", Nobody, 0, calm', clean', disk)
  BY <1>2, <1>3, EmptyQuiet, IdleSafe, SizesType
<1> QED
  BY <1>1, <1>4, Zenon DEF SafeAfter

LEMMA TimeSafe == ASSUME SafeInv, TimePasses PROVE SafeAfter
<1>1. /\ up = << >> /\ down = << >> /\ age' = TIMEOUT + 1 /\ silent' = TIMEOUT + 1
      /\ phase' = phase /\ req' = req /\ done' = done
      /\ buff' = buff /\ readto' = readto /\ work' = work /\ disk' = disk
      /\ down' = down /\ up' = up /\ clean' = clean
  BY PartsTaken DEF SafeInv, TimePasses, clientVars
<1> DEFINE late == TIMEOUT + 1
<1>2. late \in Nat /\ ~(late <= TIMEOUT) /\ late <= late
  BY SizesType
<1> HIDE DEF late
<1>3. /\ Collected(buff, readto, work, age, silent)
      /\ Session(readto, up, down, phase, req, done) /\ disk \in Disks
      /\ Stream(buff \o up, phase, req, done)
      /\ Awaited(buff, readto, work, age, up, down, phase, req, done, calm)
  BY SafeParts
<1>4. Collected(buff, readto, work, late, late)
  BY <1>2, <1>3 DEF Collected
<1>5. Awaited(buff, readto, work, late, up, down, phase, req, done, calm')
  BY <1>2, <1>3 DEF Awaited
<1>6. Replied(buff, readto, work, up, down, phase, req, done, calm', clean, disk)
  BY <1>1 DEF Replied
<1>7. Safe(buff, readto, work, late, late, up, down, phase, req, done, calm', clean, disk)
  BY <1>3, <1>4, <1>5, <1>6 DEF Safe
<1> QED
  BY <1>1, <1>7, Zenon DEF SafeAfter, late

LEMMA ReplyRight ==
    ASSUME SafeInv, phase = "wait", down # << >>, Expected(Head(down))
    PROVE  /\ Right(Head(down), readto, work, req, done, disk)
           /\ down = <<Head(down)>> /\ Tail(down) = << >>
           /\ buff = << >> /\ up = << >> /\ readto \in {0, 1}
<1>1. Replied(buff, readto, work, up, down, phase, req, done, calm, clean, disk) /\ Asks(req)
  BY SafeParts
<1>2. PICK x : /\ down = <<x>>
               /\ (x.kind = "damaged" /\ ~calm) \/ Right(x, readto, work, req, done, disk)
  BY <1>1 DEF Replied
<1>3. Head(down) = x /\ Tail(down) = << >>
  BY <1>2
<1>4. x.kind # "damaged"
  <2>1. Expected(x)
    BY <1>3
  <2> QED
    BY <1>1, <2>1 DEF Expected, Asks, READ, WRITE, INQUIRE
<1> QED
  BY <1>1, <1>2, <1>3, <1>4 DEF Replied

LEMMA ConfirmedSafe == ASSUME SafeInv, Confirmed PROVE SafeAfter
<1> DEFINE x == Head(down)
<1>1. /\ phase = "wait" /\ down # << >> /\ Expected(x)
      /\ buff' = buff /\ readto' = readto /\ work' = work /\ disk' = disk /\ req' = req
      /\ silent' = 0 /\ down' = Tail(down) /\ age' = Later(age, ReplyTime(x))
      /\ done' = (IF req.cmd = INQUIRE THEN done ELSE done + 1)
      /\ IF done' = Len(req.data)
         THEN phase' = "over" /\ UNCHANGED <<up, faults, clean, calm>>
         ELSE /\ SendUp([kind |-> "ack", left |-> Len(req.data) - done'])
              /\ phase' = IF req.cmd = WRITE THEN "send" ELSE "wait"
  BY DEF Confirmed, TakeReply
<1>2. /\ Right(x, readto, work, req, done, disk) /\ down = <<x>> /\ down' = << >>
      /\ buff = << >> /\ up = << >> /\ readto \in {0, 1}
  BY <1>1, ReplyRight
<1> HIDE DEF x
<1>3. /\ Served /\ Collected(buff, readto, work, age, silent)
      /\ Session(readto, up, down, phase, req, done) /\ disk \in Disks
      /\ Asks(req) /\ done \in Nat /\ Len(req.data) \in Nat /\ done <= Len(req.data) /\ age \in Nat
  BY <1>1, SafeParts
<1>4. age' \in Nat
  BY <1>1, <1>3, LaterType
<1>5. Collected(<< >>, readto, work, age', 0)
  BY <1>2, <1>3, <1>4, EmptyQuiet DEF Collected
<1>6. readto # SECTOR
  BY <1>2, SizesType
<1>7. CASE done' = Len(req.data)
  <2>1. phase' = "over" /\ up' = << >>
    BY <1>1, <1>2, <1>7
  <2>2. readto = 0
    <3>1. CASE req.cmd = INQUIRE
      BY <1>2, <3>1 DEF Right
    <3>2. CASE req.cmd # INQUIRE
      <4>1. Len(req.data) - done = 1
        BY <1>1, <1>3, <1>7, <3>2
      <4> QED
        BY <1>2, <3>2, <4>1 DEF Right
    <3> QED
      BY <3>1, <3>2
  <2>3. Session(readto, << >>, << >>, "over", req, Len(req.data))
    BY <1>3, <2>2, EmptyQuiet DEF Session
  <2>4. Stream(<< >> \o << >>, "over", req, Len(req.data))
    BY EmptyQuiet, JoinedEmpty, QuietStream
  <2>5. Awaited(<< >>, readto, work, age', << >>, << >>, "over", req, Len(req.data), calm')
    BY <1>6, <2>2 DEF Awaited
  <2>6. Replied(<< >>, readto, work, << >>, << >>, "over", req, Len(req.data), calm', clean', disk)
    BY DEF Replied
  <2>7. Safe(<< >>, readto, work, age', 0, << >>, << >>, "over", req, Len(req.data), calm', clean', disk)
    BY <1>3, <1>5, <2>3, <2>4, <2>5, <2>6 DEF Safe
  <2> QED
    BY <1>1, <1>2, <1>7, <2>1, <2>7, Zenon DEF SafeAfter
<1>8. CASE done' # Len(req.data)
  <2> DEFINE c == [kind |-> "ack", left |-> Len(req.data) - done']
             ph == IF req.cmd = WRITE THEN "send" ELSE "wait"
  <2>1. SendUp(c) /\ phase' = ph
    BY <1>1, <1>8
  <2>2. req.cmd # INQUIRE /\ done' = done + 1 /\ done + 1 < Len(req.data)
    <3>1. req.cmd # INQUIRE
      BY <1>1, <1>3, <1>8 DEF Asks
    <3>2. done < Len(req.data)
      BY <1>1, <1>3, <3>1 DEF Session
    <3>3. done' = done + 1
      BY <1>1, <3>1
    <3> QED
      BY <1>3, <1>8, <3>1, <3>2, <3>3
  <2>3. readto = 1 /\ WorkAt(work, req, done + 1)
    BY <1>2, <1>3, <2>2 DEF Right
  <2>4. req.cmd \in {READ, WRITE} /\ (req.cmd = WRITE => ~Image(req.drive).readOnly)
    BY <1>2, <1>3, <2>2 DEF Right, Asks, READ, WRITE
  <2>5. IsSeq(up') /\ Len(up') \in Nat /\ Len(up') <= 1 /\ NoStart(up')
    <3>1. IsSeq(Bytes(c)) /\ Len(Bytes(c)) = 1 /\ NoStart(Bytes(c))
      <4>1. c.kind = "ack"
        OBVIOUS
      <4> HIDE DEF c
      <4> QED
        BY <4>1, AckByte, AckQuiet
    <3> HIDE DEF c
    <3>2. CASE up' = up \o Bytes(c) /\ UNCHANGED <<faults, clean, calm>>
      <4>1. up' = Bytes(c)
        BY <1>2, <3>1, <3>2, JoinedEmpty
      <4> QED
        BY <3>1, <4>1
    <3>3. CASE Fault /\ \E bs \in Damaged(Bytes(c)) : up' = up \o bs
      <4>1. PICK bs \in Damaged(Bytes(c)) : up' = up \o bs
        BY <3>3
      <4>2. IsSeq(bs) /\ NoStart(bs) /\ Len(bs) <= 1
        BY <3>1, DamagedBytes, NoiseQuiet
      <4> QED
        BY <1>2, <4>1, <4>2, JoinedEmpty, SeqBasics
    <3> QED
      BY <2>1, <3>2, <3>3 DEF SendUp
  <2> HIDE DEF c
  <2>6. ph \in {"send", "wait"} /\ (ph = "send" => req.cmd = WRITE)
    OBVIOUS
  <2> HIDE DEF ph
  <2>7. Session(readto, up', << >>, ph, req, done + 1)
    BY <1>3, <2>2, <2>5, <2>6 DEF Session
  <2>8. Stream(<< >> \o up', ph, req, done + 1)
    BY <2>5, JoinedEmpty, QuietStream
  <2>9. AckAwaited(work, up', << >>, ph, req, done + 1, calm')
    <3>1. Underway(work, ph, req, done + 1)
      BY <2>2, <2>3, <2>4, <2>6 DEF Underway
    <3>2. work.count # 0
      BY <1>3, <2>2, <2>3 DEF WorkAt
    <3>3. \A i \in 1..Len(up') : ~(i > 1)
      BY <2>5
    <3> QED
      BY <2>5, <3>1, <3>2, <3>3 DEF AckAwaited, Acked
  <2>10. Awaited(<< >>, readto, work, age', up', << >>, ph, req, done + 1, calm')
    BY <1>6, <2>9 DEF Awaited
  <2>11. Replied(<< >>, readto, work, up', << >>, ph, req, done + 1, calm', clean', disk)
    BY DEF Replied
  <2>12. Safe(<< >>, readto, work, age', 0, up', << >>, ph, req, done + 1, calm', clean', disk)
    BY <1>3, <1>5, <2>7, <2>8, <2>10, <2>11 DEF Safe
  <2> QED
    BY <1>1, <1>2, <2>1, <2>2, <2>12, Zenon DEF SafeAfter
<1> QED
  BY <1>7, <1>8

LEMMA InitSafe == Init /\ ~Whole => SafeInv
<1> SUFFICES ASSUME Init, ~Whole PROVE SafeInv
  OBVIOUS
<1>1. /\ buff = << >> /\ readto = 0 /\ work = NoWork /\ age = 0
      /\ disk = [f \in DOMAIN images |-> [k \in 0..LAST_K |-> 0]]
      /\ up = << >> /\ down = << >> /\ phase = "idle" /\ req = Nobody /\ done = 0 /\ silent = 0
  BY DEF Init
<1>2. Collected(<< >>, 0, NoWork, 0, 0)
  BY EmptyQuiet, NoWorkType, SizesType DEF Collected
<1>3. disk \in Disks
  BY <1>1 DEF Disks
<1>4. Safe(<< >>, 0, NoWork, 0, 0, << >>, << >>, "idle", Nobody, 0, calm, clean, disk)
  BY <1>2, <1>3, EmptyQuiet, IdleSafe, SizesType
<1> QED
  BY <1>1, <1>4, StartedServed, Zenon DEF SafeInv

LEMMA StepSafe == ASSUME SafeInv, [Next]_vars PROVE SafeInv'
<1>1. Served
  BY SafeParts
<1>2. CASE Next
  <2>1. server' = server
    BY <1>2 DEF Next, Server, Client, Receive, ResetConnection, TimePasses, Begin, SendSector, Confirmed,
                TakeReply, Succeed, WrongReply, GiveUp
  <2>2. SafeAfter
    <3>1. ASSUME NEW n \in 1..SECTOR, Receive(n) PROVE SafeAfter
      BY <3>1, ReceiveSafe
    <3> QED
      BY <1>2, <3>1, BeginSafe, SendSectorSafe, ConfirmedSafe, SucceedSafe, WrongSafe, GiveUpSafe,
         ResetSafe, TimeSafe DEF Next, Server, Client
  <2> QED
    BY <1>1, <2>1, <2>2, SafeNext DEF SafeAfter
<1>3. CASE UNCHANGED vars
  <2>1. SafeAfter /\ server' = server
    BY <1>3 DEF vars, SafeAfter, SafeInv
  <2> QED
    BY <1>1, <2>1, SafeNext DEF SafeAfter
<1> QED
  BY <1>2, <1>3

LEMMA SafeAlways == Spec /\ ~Whole => []SafeInv
BY InitSafe, StepSafe, PTL DEF Spec

\* Between requests nothing is left of what was read.
GotNothing == phase = "idle" => got = << >>

LEMMA GotStep == GotNothing /\ [Next]_vars => GotNothing'
<1> SUFFICES ASSUME GotNothing, [Next]_vars PROVE GotNothing'
  OBVIOUS
<1>1. CASE Begin
  BY <1>1 DEF Begin, GotNothing
<1>2. CASE SendSector
  BY <1>2 DEF SendSector, GotNothing
<1>3. CASE Confirmed
  <2>1. phase' \in {"over", "send", "wait"}
    BY <1>3 DEF Confirmed
  <2> QED
    BY <2>1 DEF GotNothing
<1>4. CASE Succeed \/ WrongReply \/ GiveUp
  BY <1>4 DEF Succeed, WrongReply, GiveUp, End, GotNothing
<1>5. CASE ResetConnection
  BY <1>5 DEF ResetConnection, GotNothing
<1>6. CASE TimePasses \/ (\E n \in 1..SECTOR : Receive(n)) \/ UNCHANGED vars
  <2>1. phase' = phase /\ got' = got
    BY <1>6 DEF TimePasses, Receive, clientVars, vars
  <2> QED
    BY <2>1 DEF GotNothing
<1> QED
  BY <1>1, <1>2, <1>3, <1>4, <1>5, <1>6 DEF Next, Server, Client

LEMMA GotAlways == Spec => []GotNothing
<1>1. Init => GotNothing
  BY DEF Init, GotNothing
<1> QED
  BY <1>1, GotStep, PTL DEF Spec

-----------------------------------------------------------------------------
(* The server implements SerialDisk.                                         *)

LEMMA AbstractRequest ==
    ASSUME SafeInv, phase # "idle"
    PROVE  /\ RequestMade = AbstractOf(req) /\ RequestMade # NoRequest
           /\ RequestMade.write <=> req.cmd = WRITE
           /\ RequestMade.drive = req.drive /\ RequestMade.k = req.k /\ RequestMade.data = req.data
<1>1. Asks(req)
  BY SafeParts
<1>2. RequestMade = AbstractOf(req)
  BY DEF RequestMade
<1>3. /\ RequestMade.write <=> req.cmd = WRITE
      /\ RequestMade.drive = req.drive /\ RequestMade.k = req.k /\ RequestMade.data = req.data
  BY <1>2 DEF AbstractOf
<1>4. req.drive # -1 /\ NoRequest.drive = -1
  BY <1>1 DEF Asks, NoRequest
<1> QED
  BY <1>2, <1>3, <1>4

LEMMA SameRequest ==
    ASSUME UNCHANGED <<phase, req>>
    PROVE  RequestMade' = RequestMade
  BY DEF RequestMade, AbstractOf, NoRequest, WRITE

LEMMA DiskMapped ==
    ASSUME server' = server
    PROVE  DiskByDrive' = [d \in Drives |-> disk'[File(d)]]
  BY DEF DiskByDrive, Drives, File, order, images

LEMMA SameDisk ==
    ASSUME server' = server, disk' = disk
    PROVE  DiskByDrive' = DiskByDrive
  BY DiskMapped DEF DiskByDrive

LEMMA StoreMapped ==
    ASSUME Served, disk \in Disks, NEW d \in Drives, NEW k \in 0..LAST_K, NEW v \in Nat, server' = server,
           disk' = [disk EXCEPT ![File(d)][k] = v]
    PROVE  DiskByDrive' = [DiskByDrive EXCEPT ![d][k] = v]
<1>1. DiskByDrive' = [e \in Drives |-> disk'[File(e)]]
  BY DiskMapped
<1>2. ASSUME NEW e \in Drives
      PROVE  disk'[File(e)] = IF e = d THEN [DiskByDrive[d] EXCEPT ![k] = v] ELSE DiskByDrive[e]
  <2>1. File(d) \in DOMAIN images /\ File(e) \in DOMAIN images /\ (File(e) = File(d) => e = d)
    BY DEF Served
  <2>2. DiskByDrive[d] = disk[File(d)] /\ DiskByDrive[e] = disk[File(e)]
    BY DEF DiskByDrive
  <2>3. disk'[File(e)] = IF File(e) = File(d) THEN [disk[File(d)] EXCEPT ![k] = v] ELSE disk[File(e)]
    <3> DEFINE f == File(d)
               g == File(e)
    <3>1. f \in DOMAIN images /\ g \in DOMAIN images /\ disk' = [disk EXCEPT ![f][k] = v]
      BY <2>1
    <3> HIDE DEF f, g
    <3>2. disk'[g] = IF g = f THEN [disk[f] EXCEPT ![k] = v] ELSE disk[g]
      BY <3>1 DEF Disks
    <3> QED
      BY <3>2 DEF f, g
  <2> QED
    BY <2>1, <2>2, <2>3
<1>3. [DiskByDrive EXCEPT ![d][k] = v]
      = [e \in Drives |-> IF e = d THEN [DiskByDrive[d] EXCEPT ![k] = v] ELSE DiskByDrive[e]]
  BY DEF DiskByDrive
<1> QED
  BY <1>1, <1>2, <1>3

LEMMA StoreStep ==
    ASSUME SafeInv, Stores, server' = server, UNCHANGED <<phase, req, done, got>>
    PROVE  Promise!Store
<1>1. /\ Served /\ Asks(req) /\ done \in Nat /\ phase = "wait" /\ req.cmd = WRITE /\ done < Len(req.data)
      /\ disk' = [disk EXCEPT ![File(req.drive)][req.k + done] = req.data[done + 1]] /\ disk \in Disks
  BY SafeParts DEF Stores
<1>2. /\ req.drive \in Drives /\ req.k + done \in 0..LAST_K /\ req.data[done + 1] \in Nat
  BY <1>1, PlaceType DEF WRITE, INQUIRE
<1>3. DiskByDrive' = [DiskByDrive EXCEPT ![req.drive][req.k + done] = req.data[done + 1]]
  <2> DEFINE d == req.drive
             k == req.k + done
             v == req.data[done + 1]
  <2>1. /\ Served /\ disk \in Disks /\ d \in Drives /\ k \in 0..LAST_K /\ v \in Nat
        /\ server' = server /\ disk' = [disk EXCEPT ![File(d)][k] = v]
    BY <1>1, <1>2
  <2> HIDE DEF d, k, v
  <2>2. DiskByDrive' = [DiskByDrive EXCEPT ![d][k] = v]
    BY ONLY <2>1, StoreMapped
  <2> QED
    BY <2>2 DEF d, k, v
<1>4. /\ RequestMade # NoRequest /\ RequestMade.write
      /\ RequestMade.drive = req.drive /\ RequestMade.k = req.k /\ RequestMade.data = req.data
  BY <1>1, AbstractRequest
<1>5. RequestMade' = RequestMade
  BY SameRequest
<1> QED
  BY <1>1, <1>3, <1>4, <1>5 DEF Promise!Store, Promise!Unfinished, Promise!Nothing, Promise!Sector, NoRequest

LEMMA BeginStep == ASSUME SafeInv, Begin PROVE Promise!Begin
<1>1. /\ phase = "idle" /\ phase' \in {"send", "wait"} /\ req' \in Transfers \cup Inquiries
      /\ done' = 0 /\ got' = << >> /\ disk' = disk /\ server' = server
  BY DEF Begin, serverVars
<1>2. Asks(req')
  BY <1>1, SafeParts, InquiryAsks, TransferAsks
<1>3. RequestMade' = [write |-> req'.cmd = WRITE, drive |-> req'.drive, k |-> req'.k, data |-> req'.data]
  BY <1>1 DEF RequestMade, AbstractOf, WRITE
<1>4. RequestMade' \in Promise!Requests
  BY <1>2, <1>3 DEF Promise!Requests, Asks
<1>5. RequestMade = Promise!Nothing
  BY <1>1 DEF RequestMade, NoRequest, Promise!Nothing
<1>6. DiskByDrive' = DiskByDrive
  BY <1>1, SameDisk
<1> QED
  BY <1>1, <1>4, <1>5, <1>6 DEF Promise!Begin

LEMMA EndStep ==
    ASSUME SafeInv, phase # "idle", phase' = "idle", done' = 0, got' = << >>, disk' = disk, server' = server
    PROVE  Promise!End
<1>1. RequestMade # Promise!Nothing
  BY AbstractRequest DEF NoRequest, Promise!Nothing
<1>2. RequestMade' = Promise!Nothing
  BY DEF RequestMade, NoRequest, Promise!Nothing
<1>3. DiskByDrive' = DiskByDrive
  BY SameDisk
<1> QED
  BY <1>1, <1>2, <1>3 DEF Promise!End

LEMMA ConfirmStep ==
    ASSUME SafeInv, Confirmed
    PROVE  \/ Promise!Confirm
           \/ UNCHANGED <<DiskByDrive, RequestMade, done, got>>
<1> DEFINE x == Head(down)
<1>1. /\ phase = "wait" /\ down # << >> /\ Expected(x) /\ disk' = disk /\ req' = req /\ server' = server
      /\ done' = (IF req.cmd = INQUIRE THEN done ELSE done + 1)
      /\ got' = (IF req.cmd = READ THEN Append(got, x.data) ELSE got)
      /\ phase' \in {"over", "send", "wait"}
  BY DEF Confirmed, TakeReply
<1>2. Right(x, readto, work, req, done, disk) /\ Served /\ Asks(req) /\ done \in Nat /\ Len(req.data) \in Nat
      /\ (done < Len(req.data) \/ req.cmd = INQUIRE)
  BY <1>1, ReplyRight, SafeParts DEF Session
<1> HIDE DEF x
<1>3. RequestMade' = RequestMade
  BY <1>1 DEF RequestMade, AbstractOf, NoRequest, WRITE
<1>4. DiskByDrive' = DiskByDrive
  BY <1>1, SameDisk
<1>5. CASE req.cmd = INQUIRE
  BY <1>1, <1>3, <1>4, <1>5 DEF READ, INQUIRE
<1>6. CASE req.cmd # INQUIRE
  <2>1. /\ RequestMade # NoRequest /\ (RequestMade.write <=> req.cmd = WRITE)
        /\ RequestMade.drive = req.drive /\ RequestMade.k = req.k /\ RequestMade.data = req.data
    BY <1>1, AbstractRequest
  <2>2. req.drive \in Drives
    BY <1>2, <1>6 DEF Asks
  <2>3. DiskByDrive[req.drive] = disk[File(req.drive)]
    BY <2>2 DEF DiskByDrive
  <2>4. x.data = disk[File(req.drive)][req.k + done]
    BY <1>2, <1>6 DEF Right
  <2>5. req.cmd = WRITE => x.data = req.data[done + 1]
    BY <1>2 DEF Right, READ, WRITE, INQUIRE
  <2>6. req.cmd = READ <=> ~(req.cmd = WRITE)
    BY <1>2, <1>6 DEF Asks, READ, WRITE
  <2>7. got' = IF req.cmd = WRITE THEN got ELSE Append(got, x.data)
    BY <1>1, <2>6
  <2>8. done' = done + 1 /\ done < Len(req.data)
    BY <1>1, <1>2, <1>6
  <2> QED
    BY <1>3, <1>4, <2>1, <2>3, <2>4, <2>5, <2>7, <2>8
       DEF Promise!Confirm, Promise!Unfinished, Promise!Nothing, Promise!Sector, NoRequest
<1> QED
  BY <1>5, <1>6

LEMMA ImplementsStep ==
    ASSUME SafeInv, GotNothing, [Next]_vars
    PROVE  [Promise!Next]_<<DiskByDrive, RequestMade, done, got>>
<1>1. CASE \E n \in 1..SECTOR : Receive(n)
  <2>1. PICK n \in 1..SECTOR : Receive(n)
    BY <1>1
  <2>2. server' = server /\ UNCHANGED <<phase, req, done, got>>
    BY <2>1 DEF Receive, clientVars
  <2>3. disk' = disk \/ Stores
    BY <2>1, ReceiveSafe
  <2>4. CASE disk' = disk
    BY <2>2, <2>4, SameDisk, SameRequest
  <2>5. CASE Stores
    BY <2>2, <2>5, StoreStep DEF Promise!Next
  <2> QED
    BY <2>3, <2>4, <2>5
<1>2. CASE Begin
  BY <1>2, BeginStep DEF Promise!Next
<1>3. CASE SendSector
  <2>1. /\ disk' = disk /\ server' = server /\ req' = req /\ done' = done /\ got' = got
        /\ phase = "send" /\ phase' = "wait"
    BY <1>3 DEF SendSector, serverVars
  <2>2. RequestMade' = RequestMade
    BY <2>1 DEF RequestMade, AbstractOf, NoRequest, WRITE
  <2> QED
    BY <2>1, <2>2, SameDisk
<1>4. CASE Confirmed
  BY <1>4, ConfirmStep DEF Promise!Next
<1>5. CASE Succeed \/ WrongReply \/ GiveUp
  <2>1. /\ phase # "idle" /\ phase' = "idle" /\ done' = 0 /\ got' = << >>
        /\ disk' = disk /\ server' = server
    BY <1>5 DEF Succeed, WrongReply, GiveUp, End, TakeReply, serverVars
  <2> QED
    BY <2>1, EndStep DEF Promise!Next
<1>6. CASE ResetConnection
  <2>1. /\ phase' = "idle" /\ done' = 0 /\ got' = << >> /\ disk' = disk /\ server' = server
    BY <1>6 DEF ResetConnection
  <2>2. CASE phase = "idle"
    <3>1. done = 0 /\ got = << >>
      BY <2>2, SafeParts DEF Session, GotNothing
    <3>2. RequestMade' = RequestMade
      BY <2>1, <2>2 DEF RequestMade, NoRequest
    <3> QED
      BY <2>1, <3>1, <3>2, SameDisk
  <2>3. CASE phase # "idle"
    BY <2>1, <2>3, EndStep DEF Promise!Next
  <2> QED
    BY <2>2, <2>3
<1>7. CASE TimePasses \/ UNCHANGED vars
  <2>1. server' = server /\ disk' = disk /\ UNCHANGED <<phase, req, done, got>>
    BY <1>7 DEF TimePasses, clientVars, vars
  <2> QED
    BY <2>1, SameDisk, SameRequest
<1> QED
  BY <1>1, <1>2, <1>3, <1>4, <1>5, <1>6, <1>7 DEF Next, Server, Client

\* On Linux and on a pipe, for disks, requests and transfers of every size, for every
\* number of faults and however fast the line: the server writes no sector but the one the client's
\* request has at that place, confirms a sector only once it is on the disk, and
\* reads what is there (WriteSector, Perform, Receive).
THEOREM ServerImplementsDisk == Spec /\ ~Whole => ImplementsSerialDisk
<1>1. Init => Promise!Init
  BY DEF Init, Promise!Init, RequestMade, NoRequest, Promise!Nothing
<1>2. SafeInv /\ GotNothing /\ [Next]_vars => [Promise!Next]_Promise!vars
  BY ImplementsStep DEF Promise!vars
<1> QED
  BY <1>1, <1>2, SafeAlways, GotAlways, PTL DEF Spec, ImplementsSerialDisk, Promise!Spec

-----------------------------------------------------------------------------
(* Requests that the line does not disturb. What the server is to read next  *)
(* is ahead of it, whole and in order; or it missed the beginning of the     *)
(* request, or is about to, because of what came before.                     *)

Command(r) == Bytes(CommandOf(r))
Rest(ph, r, d) ==
    IF r.cmd = WRITE /\ ph = "wait" THEN Bytes([kind |-> "sector", data |-> r.data[d + 1]]) ELSE << >>
All(ph, r, d) == Command(r) \o Rest(ph, r, d)

\* A command will be taken for one: without work, or because what was collected is late.
Open(t, w, a) == (t = 0 /\ w.count = 0) \/ (t \in {1, CMD} /\ a > TIMEOUT)

CommandAhead(b, t, w, a, u, ph, r, d) ==
    /\ d = 0
    /\ \/ Open(t, w, a) /\ u = All(ph, r, d)
       \/ t = CMD /\ a <= TIMEOUT /\ w.count = 0 /\ b \o u = All(ph, r, d)
SectorAhead(b, t, a, u, ph, r, d) ==
    r.cmd = WRITE /\ t = SECTOR /\ a <= TIMEOUT /\ b \o u = Rest(ph, r, d)
AckAhead(t, w, a, u, dn, ph, r, d) ==
    /\ t = 1 /\ a <= TIMEOUT /\ Underway(w, ph, r, d) /\ dn = << >>
    /\ u = Bytes([kind |-> "ack", left |-> Len(r.data) - d]) \o Rest(ph, r, d)
\* The client has its reply before the server counts it as late.
ReplyAhead(a, dn) == dn # << >> /\ Head(dn).kind # "damaged" /\ a = 0

NoCommand(s) == \A i \in 1..Len(s) : ~StartsCommand(s[i])

\* Whatever is left of the request, there is no command in it.
Missed(b, t, w, u, dn) ==
    w.count = 0 /\ t \in {0, CMD} /\ dn = << >> /\ NoCommand(b \o u)

\* The command will be taken for the rest of something else.
Missing(b, t, w, a, u, dn, ph, r, d) ==
    /\ d = 0 /\ dn = << >>
    /\ \/ /\ u = All(ph, r, d)
          /\ (t = SECTOR /\ a > TIMEOUT) \/ (t = 1 /\ a <= TIMEOUT) \/ (t = 0 /\ w.count # 0)
       \/ t = CMD /\ a <= TIMEOUT /\ w.count # 0 /\ b \o u = All(ph, r, d)

\* A request may fail undisturbed, but only the first one after a disturbed one,
\* and only if it did not find the server listening without work.
MayFail(cl, fu) == fu = 0 /\ cl = "clean"

Course(b, t, w, a, u, dn, ph, r, d, cl, fu) ==
    \/ CommandAhead(b, t, w, a, u, ph, r, d)
    \/ SectorAhead(b, t, a, u, ph, r, d)
    \/ AckAhead(t, w, a, u, dn, ph, r, d)
    \/ ReplyAhead(a, dn)
    \/ Missed(b, t, w, u, dn) /\ (Refuses(CommandOf(r)) \/ MayFail(cl, fu))
    \/ Missing(b, t, w, a, u, dn, ph, r, d) /\ MayFail(cl, fu)

Runs(b, t, w, a, u, dn, ph, r, d, cl, fu) ==
    /\ fu \in {0, 1}
    /\ ph = "idle" /\ fu = 1 => Open(t, w, a)
    /\ ph = "idle" /\ t \in {CMD, SECTOR} => a > TIMEOUT
    /\ ph \in {"send", "wait"} /\ cl # "faulty" => Course(b, t, w, a, u, dn, ph, r, d, cl, fu)

RunsInv == Runs(buff, readto, work, age, up, down, phase, req, done, clean, futile)

\* A reply has come in before the server's time is over.
LineFast == \A kind \in {"echo", "read"} : ReplyTime([kind |-> kind]) <= TIMEOUT

\* The bytes of a whole request.
LEMMA CommandBegins ==
    ASSUME NEW r, Asks(r)
    PROVE  /\ IsSeq(Command(r)) /\ Len(Command(r)) = CMD
           /\ Command(r)[1].val \in Nat /\ Command(r)[1].val >= 160 /\ IsHeader(Command(r)[1])
           /\ \A i \in 1..CMD : Command(r)[i].of = CommandOf(r) /\ Command(r)[i].at = i
<1> DEFINE c == CommandOf(r)
<1>1. c.kind = "command" /\ c.cmd = r.cmd
  BY DEF CommandOf
<1>2. r.cmd \in {0, 2, 3}
  BY DEF Asks, INQUIRE, READ, WRITE
<1>3. Command(r) = Bytes(c)
  BY DEF Command
<1> HIDE DEF c
<1>4. CommandValue(c, 1) = 160 + r.cmd
  BY <1>1 DEF CommandValue, HEADER
<1>5. /\ IsSeq(Bytes(c)) /\ Len(Bytes(c)) = CMD
      /\ \A i \in 1..CMD : /\ Bytes(c)[i].of = c /\ Bytes(c)[i].at = i
                           /\ Bytes(c)[i].val = CommandValue(c, i)
  BY <1>1, CommandBytes
<1>6. 1 \in 1..CMD
  BY SizesType
<1>7. Bytes(c)[1].val = 160 + r.cmd
  BY <1>4, <1>5, <1>6
<1>8. (160 + r.cmd) \div 32 = 5 /\ 160 + r.cmd \in Nat /\ 160 + r.cmd >= 160
  BY <1>2
<1>9. IsHeader(Bytes(c)[1])
  BY <1>7, <1>8 DEF IsHeader
<1> QED
  BY <1>3, <1>5, <1>7, <1>8, <1>9 DEF c

LEMMA RestBytes ==
    ASSUME NEW ph, NEW r, NEW d
    PROVE  /\ IsSeq(Rest(ph, r, d)) /\ NoCommand(Rest(ph, r, d)) /\ Len(Rest(ph, r, d)) \in Nat
           /\ Rest(ph, r, d) # << >> =>
                 /\ r.cmd = WRITE /\ ph = "wait" /\ Len(Rest(ph, r, d)) = SECTOR
                 /\ ChecksumFits(Rest(ph, r, d), "sector")
<1> DEFINE c == [kind |-> "sector", data |-> r.data[d + 1]]
<1>1. CASE r.cmd = WRITE /\ ph = "wait"
  <2>1. Rest(ph, r, d) = Bytes(c)
    BY <1>1 DEF Rest
  <2>2. c.kind = "sector"
    OBVIOUS
  <2> HIDE DEF c
  <2>3. /\ IsSeq(Bytes(c)) /\ Len(Bytes(c)) = SECTOR
        /\ \A i \in 1..SECTOR : Bytes(c)[i].of = c /\ Bytes(c)[i].at = i
    BY <2>2, SectorBytes
  <2>4. DOMAIN Bytes(c) = 1..SECTOR /\ 1 \in 1..SECTOR /\ SECTOR \in Nat
    BY <2>3, SeqBasics, SizesType
  <2>5. ChecksumFits(Bytes(c), "sector")
    BY <2>2, <2>3, <2>4 DEF ChecksumFits
  <2>6. NoCommand(Bytes(c))
    BY <2>2, <2>3 DEF NoCommand, StartsCommand
  <2> QED
    BY <1>1, <2>1, <2>3, <2>4, <2>5, <2>6
<1>2. CASE ~(r.cmd = WRITE /\ ph = "wait")
  <2>1. Rest(ph, r, d) = << >>
    BY <1>2 DEF Rest
  <2> QED
    BY <2>1, EmptyQuiet DEF NoCommand
<1> QED
  BY <1>1, <1>2

LEMMA AllBytes ==
    ASSUME NEW ph, NEW r, NEW d, Asks(r)
    PROVE  /\ IsSeq(All(ph, r, d)) /\ All(ph, r, d) # << >> /\ Len(All(ph, r, d)) >= CMD
           /\ All(ph, r, d)[1] = Command(r)[1]
           /\ \A i \in 1..Len(All(ph, r, d)) : i > 1 => ~StartsCommand(All(ph, r, d)[i])
<1> DEFINE c == Command(r)
           v == Rest(ph, r, d)
           z == c \o v
<1>1. /\ IsSeq(c) /\ Len(c) = CMD /\ CMD \in Nat /\ CMD >= 4
      /\ \A i \in 1..CMD : c[i].at = i
  BY CommandBegins, SizesType
<1>2. IsSeq(v) /\ NoCommand(v) /\ Len(v) \in Nat
  BY RestBytes
<1>3. All(ph, r, d) = z
  BY DEF All
<1> HIDE DEF c, v
<1>4. /\ IsSeq(z) /\ Len(z) = CMD + Len(v) /\ \A i \in 1..CMD : z[i] = c[i]
      /\ \A i \in 1..Len(z) :
            \/ i \in 1..CMD /\ z[i] = c[i]
            \/ \E j \in 1..Len(v) : i = CMD + j /\ z[i] = v[j]
  <2>1. IsSeq(c) /\ IsSeq(v)
    BY <1>1, <1>2
  <2>2. IsSeq(c \o v) /\ Len(c \o v) = Len(c) + Len(v) /\ \A i \in 1..Len(c) : (c \o v)[i] = c[i]
    BY ONLY <2>1, Joined, Zenon
  <2>3. \A i \in 1..Len(c \o v) :
           \/ i \in 1..Len(c) /\ (c \o v)[i] = c[i]
           \/ \E j \in 1..Len(v) : i = Len(c) + j /\ (c \o v)[i] = v[j]
    BY ONLY <2>1, JoinedAt
  <2> QED
    BY <1>1, <2>2, <2>3
<1> HIDE DEF z
<1>5. z # << >> /\ Len(z) >= CMD
  BY <1>1, <1>2, <1>4, SeqBasics
<1>6. z[1] = c[1]
  BY <1>1, <1>4
<1>7. ASSUME NEW i \in 1..Len(z), i > 1 PROVE ~StartsCommand(z[i])
  <2>1. CASE i \in 1..CMD /\ z[i] = c[i]
    BY <1>1, <1>7, <2>1 DEF StartsCommand
  <2>2. CASE \E j \in 1..Len(v) : i = CMD + j /\ z[i] = v[j]
    BY <1>2, <2>2 DEF NoCommand
  <2> QED
    BY <1>4, <2>1, <2>2
<1> QED
  BY <1>3, <1>4, <1>5, <1>6, <1>7 DEF c

\* What comes after the first byte holds no command.
LEMMA AllAfter ==
    ASSUME NEW s, NEW u, IsSeq(s), IsSeq(u), s # << >>, NEW ph, NEW r, NEW d, Asks(r),
           s \o u = All(ph, r, d)
    PROVE  s[1] = Command(r)[1] /\ NoCommand(u)
<1> DEFINE z == All(ph, r, d)
<1>1. z[1] = Command(r)[1] /\ \A i \in 1..Len(z) : i > 1 => ~StartsCommand(z[i])
  BY AllBytes
<1>2. /\ Len(s) \in Nat /\ Len(s) >= 1 /\ Len(u) \in Nat /\ Len(z) = Len(s) + Len(u)
      /\ \A i \in 1..Len(s) : z[i] = s[i]
      /\ \A i \in 1..Len(u) : z[Len(s) + i] = u[i]
  BY Joined, SeqBasics
<1> HIDE DEF z
<1>3. s[1] = z[1]
  BY <1>2
<1>4. ASSUME NEW i \in 1..Len(u) PROVE ~StartsCommand(u[i])
  <2>1. Len(s) + i \in 1..Len(z) /\ Len(s) + i > 1
    BY <1>2
  <2> QED
    BY <1>1, <1>2, <2>1
<1> QED
  BY <1>1, <1>3, <1>4 DEF NoCommand

\* A command read to its end is the one of the request.
LEMMA AllParted ==
    ASSUME NEW b, NEW u, IsSeq(b), IsSeq(u), Len(b) = CMD, NEW ph, NEW r, NEW d, Asks(r),
           b \o u = All(ph, r, d)
    PROVE  /\ b = Command(r) /\ u = Rest(ph, r, d)
           /\ ChecksumFits(b, "command") /\ b[1].of = CommandOf(r)
<1>1. /\ IsSeq(Command(r)) /\ Len(Command(r)) = CMD
      /\ \A i \in 1..CMD : Command(r)[i].of = CommandOf(r) /\ Command(r)[i].at = i
  BY CommandBegins
<1>2. IsSeq(Rest(ph, r, d)) /\ b \o u = Command(r) \o Rest(ph, r, d) /\ Len(b) = Len(Command(r))
  BY <1>1, RestBytes DEF All
<1>3. b = Command(r) /\ u = Rest(ph, r, d)
  BY <1>1, <1>2, Parted, Zenon
<1>4. 1 \in 1..CMD /\ DOMAIN b = 1..CMD
  BY SizesType, SeqBasics
<1>5. CommandOf(r).kind = "command"
  BY DEF CommandOf
<1>6. ChecksumFits(b, "command") /\ b[1].of = CommandOf(r)
  BY <1>1, <1>3, <1>4, <1>5 DEF ChecksumFits
<1> QED
  BY <1>3, <1>6

\* What a step of the server leaves, when the line does nothing to the reply.
CourseAfter ==
    clean' # "faulty" => Course(buff', readto', work', 0, up', down', phase, req, done, clean', futile)

LEMMA AnswerAhead ==
    ASSUME down = << >>, NEW x, x.kind # "damaged", SendDown(x)
    PROVE  CourseAfter
<1>1. \/ down' = <<x>> /\ calm' = calm /\ clean' = clean
      \/ calm' = FALSE /\ clean' = "faulty" /\ down' \in {<< >>, <<[kind |-> "damaged"]>>}
  BY SentDown
<1>2. <<x>> # << >> /\ Head(<<x>>) = x
  OBVIOUS
<1> QED
  BY <1>1, <1>2 DEF CourseAfter, Course, ReplyAhead

LEMMA WorkPerformed ==
    ASSUME down = << >>, NEW w, NEW scan, Perform(w, scan), w.command = req.cmd,
           up' = Rest(phase, req, done)
    PROVE  CourseAfter
<1>1. CASE w.command = WRITE /\ w.count # 0
  <2>1. buff' = << >> /\ readto' = SECTOR /\ Quiet
    BY <1>1 DEF Perform
  <2>2. << >> \o up' = Rest(phase, req, done)
    BY RestBytes, JoinedEmpty
  <2>3. SectorAhead(<< >>, SECTOR, 0, up', phase, req, done)
    BY <1>1, <2>2, SizesType DEF SectorAhead
  <2> QED
    BY <2>1, <2>3 DEF CourseAfter, Course
<1>2. CASE ~(w.command = WRITE /\ w.count # 0)
  <2>1. SendDown(Answer(w, scan))
    BY <1>2 DEF Perform
  <2>2. Answer(w, scan).kind # "damaged"
    BY DEF Answer
  <2> QED
    BY <2>1, <2>2, AnswerAhead
<1> QED
  BY <1>1, <1>2

LEMMA SuffixQuiet ==
    ASSUME NEW u, IsSeq(u), NoCommand(u)
    PROVE  NoCommand(<< >> \o u)
  BY JoinedEmpty

LEMMA ReadingParts ==
    ASSUME NEW b, NEW t, NEW w, NEW u, Reading(b, t, w, u)
    PROVE  /\ IsSeq(b) /\ IsSeq(u) /\ b # << >> /\ Len(b) \in Nat /\ Len(b) >= 1
           /\ t \in {0, 1, CMD, SECTOR} /\ (t # 0 => Len(b) <= t)
           /\ down = << >> /\ Asks(req) /\ done \in Nat /\ Len(req.data) \in Nat
           /\ w \in Works
  BY SeqBasics DEF Reading, Session, Asks

\* The targets are told apart.
LEMMA Targets ==
    /\ CMD # 0 /\ CMD # 1 /\ CMD # SECTOR /\ SECTOR # 0 /\ SECTOR # 1 /\ 0 <= TIMEOUT /\ ~(0 > TIMEOUT)
    /\ CMD \in Nat /\ SECTOR \in Nat
  BY SizesType

LEMMA CommandHandled ==
    ASSUME NEW b, NEW t \in {0, CMD}, NEW w, Reading(b, t, w, up'), Handle(b, t, w),
           done = 0, w.count = 0, b \o up' = All(phase, req, done)
    PROVE  CourseAfter
<1>1. /\ IsSeq(b) /\ IsSeq(up') /\ b # << >> /\ Len(b) \in Nat /\ Len(b) >= 1 /\ (t # 0 => Len(b) <= t)
      /\ down = << >> /\ Asks(req)
  BY ReadingParts
<1>2. IsHeader(b[1])
  BY <1>1, AllAfter, CommandBegins
<1>3. ASSUME buff' = b, readto' = CMD, work' = w PROVE CourseAfter
  <2>1. CommandAhead(b, CMD, w, 0, up', phase, req, done)
    BY Targets DEF CommandAhead
  <2> QED
    BY <1>3, <2>1 DEF CourseAfter, Course
<1>4. CASE LookAtCharacter(b, t, w)
  BY <1>2, <1>3, <1>4 DEF LookAtCharacter
<1>5. CASE Partial(b, t, w)
  BY <1>3, <1>5 DEF Partial
<1>6. ASSUME Len(b) = CMD
      PROVE  /\ up' = Rest(phase, req, done)
             /\ ChecksumFits(b, "command") /\ b[1].of = CommandOf(req)
  BY <1>1, <1>6, AllParted
<1>7. CASE BadCommand(b, t, w)
  <2>1. t = CMD /\ Len(b) = CMD /\ ~ChecksumFits(b, "command")
    BY <1>7 DEF BadCommand, Complete
  <2> QED
    BY <1>6, <2>1
<1>8. CASE NewCommand(b, t, w)
  <2>1. /\ t = CMD /\ Len(b) = CMD
        /\ IF Refuses(b[1].of) THEN Dropped ELSE Perform(NewWork(b[1].of), b[1].of.scan)
    BY <1>8 DEF NewCommand, Complete
  <2>2. up' = Rest(phase, req, done) /\ b[1].of = CommandOf(req)
    BY <1>6, <2>1
  <2>3. CASE Refuses(CommandOf(req))
    <3>1. buff' = << >> /\ readto' = 0 /\ work' = NoWork /\ down' = << >>
      BY <1>1, <2>1, <2>2, <2>3 DEF Dropped, Listen, Quiet
    <3>2. NoCommand(<< >> \o up')
      BY <1>1, <2>2, RestBytes, SuffixQuiet
    <3>3. Missed(<< >>, 0, NoWork, up', << >>)
      BY <3>2 DEF Missed, NoWork
    <3> QED
      BY <2>3, <3>1, <3>3 DEF CourseAfter, Course
  <2>4. CASE ~Refuses(CommandOf(req))
    <3>1. Perform(NewWork(CommandOf(req)), b[1].of.scan)
      BY <2>1, <2>2, <2>4
    <3>2. NewWork(CommandOf(req)).command = req.cmd
      BY DEF NewWork, CommandOf
    <3> QED
      BY <1>1, <2>2, <3>1, <3>2, WorkPerformed
  <2> QED
    BY <2>3, <2>4
<1>9. ~BadSector(b, t, w) /\ ~WriteSector(b, t, w)
  BY Targets DEF BadSector, WriteSector
<1>10. ~ContinueFault(b, t, w) /\ ~Continue(b, t, w)
  BY DEF ContinueFault, Continue, Continuation
<1> QED
  BY <1>4, <1>5, <1>7, <1>8, <1>9, <1>10 DEF Handle

LEMMA SectorHandled ==
    ASSUME NEW b, NEW w, Reading(b, SECTOR, w, up'), Handle(b, SECTOR, w),
           b \o up' = Rest(phase, req, done)
    PROVE  CourseAfter
<1>1. /\ IsSeq(b) /\ IsSeq(up') /\ b # << >> /\ Len(b) \in Nat /\ Len(b) >= 1
      /\ down = << >> /\ Asks(req) /\ Underway(w, phase, req, done)
  BY ReadingParts DEF Reading
<1>2. /\ Len(b \o up') = Len(b) + Len(up') /\ Len(up') \in Nat
  BY <1>1, Joined, SeqBasics
<1>3. Rest(phase, req, done) # << >>
  <2>1. Len(b \o up') # 0
    BY <1>1, <1>2
  <2>2. IsSeq(b) /\ IsSeq(up')
    BY <1>1
  <2>3. IsSeq(b \o up')
    BY ONLY <2>2, Joined, Zenon
  <2> QED
    BY <2>1, <2>3, SeqBasics
<1>4. /\ req.cmd = WRITE /\ IsSeq(Rest(phase, req, done)) /\ Len(Rest(phase, req, done)) = SECTOR
      /\ ChecksumFits(Rest(phase, req, done), "sector")
  BY <1>3, RestBytes
<1>5. ASSUME Len(b) = SECTOR PROVE ChecksumFits(b, "sector")
  <2>1. b \o up' = Rest(phase, req, done) \o << >> /\ IsSeq(<< >>)
    BY <1>4, JoinedEmpty
  <2>2. b = Rest(phase, req, done)
    BY <1>1, <1>4, <1>5, <2>1, Parted, Zenon
  <2> QED
    BY <1>4, <2>2
<1>6. CASE Partial(b, SECTOR, w)
  <2>1. buff' = b /\ readto' = SECTOR /\ work' = w
    BY <1>6 DEF Partial
  <2>2. SectorAhead(b, SECTOR, 0, up', phase, req, done)
    BY <1>4, Targets DEF SectorAhead
  <2> QED
    BY <2>1, <2>2 DEF CourseAfter, Course
<1>7. CASE BadSector(b, SECTOR, w)
  BY <1>5, <1>7 DEF BadSector
<1>8. CASE WriteSector(b, SECTOR, w)
  <2>1. ~Image(w.drive).readOnly
    BY <1>1, <1>4 DEF Underway, WorkAt
  <2>2. SendDown([kind |-> "echo", data |-> b[1].of.data])
    BY <1>8, <2>1 DEF WriteSector
  <2> QED
    BY <1>1, <2>2, AnswerAhead
<1>9. ~LookAtCharacter(b, SECTOR, w) /\ ~Complete(b, SECTOR, w)
  BY Targets DEF LookAtCharacter, Complete
<1> QED
  BY <1>6, <1>7, <1>8, <1>9 DEF Handle, ContinueFault, BadCommand, Continue, NewCommand

LEMMA AckHandled ==
    ASSUME NEW b, NEW w, Reading(b, 1, w, up'), Handle(b, 1, w), Underway(w, phase, req, done),
           b = Bytes([kind |-> "ack", left |-> Len(req.data) - done]), up' = Rest(phase, req, done)
    PROVE  CourseAfter
<1>1. /\ Len(b) \in Nat /\ Len(b) >= 1 /\ down = << >> /\ Asks(req) /\ done \in Nat /\ Len(req.data) \in Nat
  BY ReadingParts
<1>2. Len(b) = 1 /\ b[1].val = Len(req.data) - done
  <2> DEFINE c == [kind |-> "ack", left |-> Len(req.data) - done]
  <2>1. c.kind = "ack" /\ c.left = Len(req.data) - done
    OBVIOUS
  <2> HIDE DEF c
  <2>2. Len(Bytes(c)) = 1 /\ Bytes(c)[1].val = c.left
    BY <2>1, AckByte
  <2> QED
    BY <2>1, <2>2 DEF c
<1>3. w.count = Len(req.data) - done /\ w.count # 0 /\ w.command = req.cmd
  BY <1>1 DEF Underway, WorkAt
<1>4. Continuation(b, w)
  BY <1>2, <1>3 DEF Continuation
<1>5. CASE Continue(b, 1, w)
  BY <1>1, <1>3, <1>5, WorkPerformed DEF Continue
<1>6. ~LookAtCharacter(b, 1, w) /\ ~Partial(b, 1, w) /\ ~BadSector(b, 1, w) /\ ~WriteSector(b, 1, w)
  BY <1>1, <1>2, Targets DEF LookAtCharacter, Partial, BadSector, WriteSector
<1>7. ~ContinueFault(b, 1, w) /\ ~BadCommand(b, 1, w) /\ ~NewCommand(b, 1, w)
  BY <1>3, <1>4 DEF ContinueFault, BadCommand, NewCommand
<1> QED
  BY <1>5, <1>6, <1>7 DEF Handle

LEMMA MissedHandled ==
    ASSUME NEW b, NEW t \in {0, CMD}, NEW w, Reading(b, t, w, up'), Handle(b, t, w),
           w.count = 0, NoCommand(b \o up'),
           Refuses(CommandOf(req)) \/ MayFail(clean, futile)
    PROVE  CourseAfter
<1>1. /\ IsSeq(b) /\ IsSeq(up') /\ b # << >> /\ Len(b) \in Nat /\ Len(b) >= 1 /\ down = << >>
  BY ReadingParts
<1>2. /\ Len(b \o up') = Len(b) + Len(up') /\ Len(up') \in Nat
      /\ \A i \in 1..Len(b) : (b \o up')[i] = b[i]
      /\ \A i \in 1..Len(up') : (b \o up')[Len(b) + i] = up'[i]
  BY <1>1, Joined, SeqBasics
<1>3. NoCommand(up')
  BY <1>1, <1>2 DEF NoCommand
<1>4. ~StartsCommand(b[1])
  BY <1>1, <1>2 DEF NoCommand
<1>5. ASSUME NEW b2 \in {b, << >>}, buff' = b2, readto' \in {0, CMD}, work' = w, Quiet PROVE CourseAfter
  <2>1. NoCommand(b2 \o up')
    BY <1>1, <1>3, SuffixQuiet
  <2>2. Missed(b2, readto', w, up', down')
    BY <1>1, <1>5, <2>1 DEF Missed, Quiet
  <2>3. MayFail(clean', futile) <=> MayFail(clean, futile)
    BY <1>5 DEF Quiet
  <2> QED
    BY <1>5, <2>2, <2>3 DEF CourseAfter, Course
<1>6. CASE LookAtCharacter(b, t, w)
  BY <1>5, <1>6 DEF LookAtCharacter, Listen
<1>7. CASE Partial(b, t, w)
  BY <1>5, <1>7 DEF Partial
<1>8. CASE BadCommand(b, t, w)
  BY <1>5, <1>8 DEF BadCommand, Listen
<1>9. ~NewCommand(b, t, w)
  <2>1. ASSUME ChecksumFits(b, "command") PROVE FALSE
    <3>1. DOMAIN b = 1..Len(b)
      BY <1>1, SeqBasics
    <3>2. 1 \in DOMAIN b
      BY <1>1, <3>1
    <3> QED
      BY <1>4, <2>1, <3>2 DEF ChecksumFits, StartsCommand
  <2> QED
    BY <2>1 DEF NewCommand
<1>10. ~BadSector(b, t, w) /\ ~WriteSector(b, t, w)
  BY Targets DEF BadSector, WriteSector
<1>11. ~ContinueFault(b, t, w) /\ ~Continue(b, t, w)
  BY DEF ContinueFault, Continue, Continuation
<1> QED
  BY <1>6, <1>7, <1>8, <1>9, <1>10, <1>11 DEF Handle

LEMMA MissingHandled ==
    ASSUME NEW b, NEW t \in {0, 1, CMD}, NEW w, Reading(b, t, w, up'), Handle(b, t, w),
           done = 0, w.count # 0, b \o up' = All(phase, req, done), MayFail(clean, futile)
    PROVE  CourseAfter
<1>1. /\ IsSeq(b) /\ IsSeq(up') /\ b # << >> /\ Len(b) \in Nat /\ Len(b) >= 1 /\ (t # 0 => Len(b) <= t)
      /\ down = << >> /\ Asks(req) /\ w \in Works
  BY ReadingParts
<1>2. b[1] = Command(req)[1] /\ NoCommand(up')
  BY <1>1, AllAfter
<1>3. b[1].val \in Nat /\ b[1].val >= 160 /\ IsHeader(b[1])
  BY <1>1, <1>2, CommandBegins
<1>4. ~Continuation(b, w)
  <2>1. w.count \in Nat /\ w.count < 160
    BY <1>1, SizesType DEF Works
  <2> QED
    BY <1>3, <2>1 DEF Continuation
<1>5. ASSUME buff' = b, readto' = CMD, work' = w, Quiet PROVE CourseAfter
  <2>1. Missing(b, CMD, w, 0, up', << >>, phase, req, done)
    BY Targets DEF Missing
  <2>2. MayFail(clean', futile) /\ down' = << >>
    BY <1>1, <1>5 DEF Quiet
  <2> QED
    BY <1>5, <2>1, <2>2 DEF CourseAfter, Course
<1>6. CASE LookAtCharacter(b, t, w)
  BY <1>3, <1>5, <1>6 DEF LookAtCharacter
<1>7. CASE Partial(b, t, w)
  <2>1. t = CMD /\ buff' = b /\ readto' = t /\ work' = w /\ Quiet
    BY <1>1, <1>7 DEF Partial
  <2> QED
    BY <1>5, <2>1
<1>8. CASE ContinueFault(b, t, w)
  <2>1. buff' = << >> /\ readto' = 0 /\ work' = NoWork /\ down' = << >> /\ MayFail(clean', futile)
    BY <1>1, <1>8 DEF ContinueFault, Dropped, Listen, Quiet
  <2>2. NoCommand(<< >> \o up')
    BY <1>1, <1>2, SuffixQuiet
  <2>3. Missed(<< >>, 0, NoWork, up', << >>)
    BY <2>2 DEF Missed, NoWork
  <2> QED
    BY <2>1, <2>3 DEF CourseAfter, Course
<1>9. ~BadSector(b, t, w) /\ ~WriteSector(b, t, w)
  BY Targets DEF BadSector, WriteSector
<1>10. ~Continue(b, t, w) /\ ~BadCommand(b, t, w) /\ ~NewCommand(b, t, w)
  BY <1>4 DEF Continue, BadCommand, NewCommand
<1> QED
  BY <1>6, <1>7, <1>8, <1>9, <1>10 DEF Handle

RunsAfter ==
    Runs(buff', readto', work', age', up', down', phase', req', done', clean', futile')
CourseKept ==
    clean' # "faulty" => Course(buff', readto', work', age', up', down', phase, req, done, clean', futile)

LEMMA PerformClean == ASSUME NEW w, NEW scan, Perform(w, scan) PROVE clean' \in {clean, "faulty"}
  BY DEF Perform, Quiet, SendDown, Fault

LEMMA HandleClean ==
    ASSUME NEW b, NEW t, NEW w, Handle(b, t, w)
    PROVE  clean' \in {clean, "faulty"}
<1>1. ASSUME Quiet PROVE clean' = clean
  BY <1>1 DEF Quiet
<1>2. CASE WriteSector(b, t, w)
  BY <1>1, <1>2 DEF WriteSector, SendDown, Fault
<1>3. CASE Continue(b, t, w)
  BY <1>3, PerformClean DEF Continue
<1>4. CASE NewCommand(b, t, w)
  <2>1. Dropped \/ Perform(NewWork(b[1].of), b[1].of.scan)
    BY <1>4 DEF NewCommand
  <2> QED
    BY <1>1, <2>1, PerformClean DEF Dropped
<1>5. CASE LookAtCharacter(b, t, w) \/ Partial(b, t, w) \/ BadSector(b, t, w)
  BY <1>1, <1>5 DEF LookAtCharacter, Partial, BadSector
<1>6. CASE ContinueFault(b, t, w) \/ BadCommand(b, t, w)
  BY <1>1, <1>6 DEF ContinueFault, BadCommand, Dropped
<1> QED
  BY <1>2, <1>3, <1>4, <1>5, <1>6 DEF Handle

\* What has been taken from the line, and what is still on it.
LEMMA TakenParts ==
    ASSUME SafeInv, NEW n \in 1..SECTOR, Receive(n)
    PROVE  LET new == SubSeq(up, 1, n)
           IN /\ IsSeq(new) /\ Len(new) = n /\ new # << >> /\ IsSeq(up') /\ IsSeq(up) /\ IsSeq(buff)
              /\ new \o up' = up
              /\ (buff \o new) \o up' = buff \o up
              /\ phase \in {"send", "wait"} /\ down = << >> /\ Asks(req) /\ done \in Nat
<1> DEFINE new == SubSeq(up, 1, n)
<1>1. /\ n \in 1..Len(up) /\ Len(up) \in Nat /\ IsSeq(new) /\ Len(new) = n /\ IsSeq(up') /\ IsSeq(buff)
      /\ new # << >> /\ phase \in {"send", "wait"} /\ down = << >>
  BY Taken, Zenon
<1>2. /\ IsSeq(up) /\ Asks(req) /\ done \in Nat
  BY <1>1, SafeParts
<1>3. up' = SubSeq(up, n + 1, Len(up))
  BY DEF Receive
<1>4. n \in 0..Len(up)
  BY <1>1
<1>5. new \o up' = up
  BY <1>2, <1>3, <1>4, Cut
<1> HIDE DEF new
<1>6. IsSeq(buff) /\ IsSeq(new) /\ IsSeq(up')
  BY <1>1
<1>7. (buff \o new) \o up' = buff \o (new \o up')
  BY ONLY <1>6, JoinedTwice
<1> QED
  BY <1>1, <1>2, <1>5, <1>7 DEF new

\* The server takes what is left of a request before it counts as late.
LEMMA ReceiveOn ==
    ASSUME SafeInv, NEW n \in 1..SECTOR, Receive(n), ~TimedOut,
           Course(buff, readto, work, age, up, down, phase, req, done, clean, futile)
    PROVE  CourseAfter
<1> DEFINE new == SubSeq(up, 1, n)
           b == buff \o new
<1>1. Reading(b, readto, work, up') /\ Handle(b, readto, work)
  BY ReadingOn DEF Receive
<1>2. /\ IsSeq(new) /\ Len(new) = n /\ IsSeq(up') /\ IsSeq(up) /\ IsSeq(buff)
      /\ new \o up' = up /\ b \o up' = buff \o up
      /\ down = << >> /\ Asks(req) /\ done \in Nat
  BY TakenParts, Zenon
<1>3. readto # 0 => age <= TIMEOUT
  BY Lateness
<1>4. readto \in {0, 1} => buff = << >> /\ b = new /\ b \o up' = up
  <2>1. (readto = 0 => buff = << >>) /\ (readto # 0 => Len(buff) < readto)
    BY SafeParts DEF Collected
  <2>2. readto \in {0, 1} => buff = << >>
    BY <1>2, <2>1, SeqBasics
  <2>3. << >> \o new = new /\ << >> \o up = up
    BY <1>2, JoinedEmpty
  <2> QED
    BY <1>2, <2>2, <2>3
<1>5. /\ CMD # 0 /\ CMD # 1 /\ CMD # SECTOR /\ SECTOR # 0 /\ SECTOR # 1
      /\ age \in Nat /\ TIMEOUT \in Nat
  BY Targets, SafeParts, SizesType
<1>6. readto = 1 => n = 1
  <2>1. readto = 1 => n <= 1 - Len(buff)
    BY DEF Receive, Asked
  <2>2. readto = 1 => Len(buff) = 0
    BY <1>4, EmptyQuiet
  <2> QED
    BY <2>1, <2>2
<1> HIDE DEF b, new
<1>7. CASE CommandAhead(buff, readto, work, age, up, phase, req, done)
  <2>1. done = 0 /\ readto \in {0, CMD} /\ work.count = 0 /\ b \o up' = All(phase, req, done)
    BY <1>2, <1>3, <1>4, <1>5, <1>7 DEF CommandAhead, Open
  <2> QED
    BY <1>1, <2>1, CommandHandled
<1>8. CASE SectorAhead(buff, readto, age, up, phase, req, done)
  <2>1. readto = SECTOR /\ b \o up' = Rest(phase, req, done)
    BY <1>2, <1>8 DEF SectorAhead
  <2>2. Reading(b, SECTOR, work, up') /\ Handle(b, SECTOR, work)
    BY <1>1, <2>1
  <2> QED
    BY <2>1, <2>2, SectorHandled
<1>9. CASE AckAhead(readto, work, age, up, down, phase, req, done)
  <2> DEFINE c == [kind |-> "ack", left |-> Len(req.data) - done]
  <2>1. readto = 1 /\ Underway(work, phase, req, done) /\ up = Bytes(c) \o Rest(phase, req, done)
    BY <1>9 DEF AckAhead
  <2>2. c.kind = "ack"
    OBVIOUS
  <2> HIDE DEF c
  <2>3. IsSeq(Bytes(c)) /\ Len(Bytes(c)) = 1 /\ IsSeq(Rest(phase, req, done))
    BY <2>2, AckByte, RestBytes
  <2>4. /\ IsSeq(new) /\ IsSeq(up') /\ IsSeq(Bytes(c)) /\ IsSeq(Rest(phase, req, done))
        /\ new \o up' = Bytes(c) \o Rest(phase, req, done) /\ Len(new) = Len(Bytes(c))
    BY <1>2, <1>6, <2>1, <2>3
  <2>5. new = Bytes(c) /\ up' = Rest(phase, req, done)
    BY ONLY <2>4, Parted, Zenon
  <2>6. Reading(b, 1, work, up') /\ Handle(b, 1, work) /\ b = Bytes(c)
    BY <1>1, <1>4, <2>1, <2>5
  <2> QED
    BY <2>1, <2>5, <2>6, AckHandled DEF c
<1>10. CASE ReplyAhead(age, down)
  BY <1>2, <1>10 DEF ReplyAhead
<1>11. CASE /\ Missed(buff, readto, work, up, down)
            /\ Refuses(CommandOf(req)) \/ MayFail(clean, futile)
  <2>1. readto \in {0, CMD} /\ work.count = 0 /\ NoCommand(b \o up')
    BY <1>2, <1>11 DEF Missed
  <2> QED
    BY <1>1, <1>11, <2>1, MissedHandled
<1>12. CASE Missing(buff, readto, work, age, up, down, phase, req, done) /\ MayFail(clean, futile)
  <2>1. readto = 1 => work.count # 0
    BY <1>1 DEF Reading
  <2>2. done = 0 /\ readto \in {0, 1, CMD} /\ work.count # 0 /\ b \o up' = All(phase, req, done)
    BY <1>2, <1>3, <1>4, <1>5, <1>12, <2>1 DEF Missing
  <2> QED
    BY <1>1, <1>12, <2>2, MissingHandled
<1> QED
  BY <1>7, <1>8, <1>9, <1>10, <1>11, <1>12 DEF Course

\* What comes late begins anew.
LEMMA ReceiveLate ==
    ASSUME SafeInv, NEW n \in 1..SECTOR, Receive(n), TimedOut, clean' = clean,
           Course(buff, readto, work, age, up, down, phase, req, done, clean, futile)
    PROVE  CourseKept
<1> DEFINE new == SubSeq(up, 1, n)
<1>1. \/ n <= CMD /\ IsHeader(new[1]) /\ Handle(new, CMD, NoWork) /\ age' = 0
      \/ n = 1 /\ ~IsHeader(new[1]) /\ Handle(new, 0, NoWork) /\ age' = 0
      \/ (n > CMD \/ ~IsHeader(new[1])) /\ Listen(NoWork) /\ Quiet
  BY DEF Receive
<1>2. /\ IsSeq(new) /\ Len(new) = n /\ new # << >> /\ IsSeq(up') /\ IsSeq(up) /\ IsSeq(buff)
      /\ new \o up' = up
      /\ down = << >> /\ Asks(req) /\ done \in Nat
  BY TakenParts, Zenon
<1>3. readto # 0 /\ age > TIMEOUT /\ age \in Nat /\ TIMEOUT \in Nat /\ ~(age <= TIMEOUT)
  BY Lateness, SafeParts, SizesType
<1>4. n <= CMD /\ IsHeader(new[1]) /\ Handle(new, CMD, NoWork) => Reading(new, CMD, NoWork, up')
  BY ReadingAnew, Zenon
<1>5. n = 1 => Reading(new, 0, NoWork, up')
  BY ReadingAnew, Zenon
<1>6. NoWork.count = 0
  BY DEF NoWork
<1>7. CMD # 0 /\ CMD # 1 /\ CMD # SECTOR /\ SECTOR # 0 /\ SECTOR # 1 /\ CMD \in Nat /\ CMD >= 4
  BY Targets, SizesType
<1>8. CourseAfter /\ age' = 0 => CourseKept
  BY DEF CourseAfter, CourseKept
<1>9. ASSUME NoCommand(up'), Listen(NoWork), Quiet, Refuses(CommandOf(req)) \/ MayFail(clean, futile)
      PROVE  CourseKept
  <2>1. buff' = << >> /\ readto' = 0 /\ work' = NoWork /\ down' = << >>
    BY <1>2, <1>9 DEF Listen, Quiet
  <2>2. NoCommand(<< >> \o up')
    BY <1>2, <1>9, SuffixQuiet
  <2>3. Missed(<< >>, 0, NoWork, up', << >>)
    BY <1>6, <2>2 DEF Missed
  <2> QED
    BY <1>9, <2>1, <2>3 DEF CourseKept, Course
<1> HIDE DEF new
<1>10. ASSUME done = 0, up = All(phase, req, done)
       PROVE  /\ IsHeader(new[1]) /\ NoCommand(up')
              /\ n <= CMD /\ Handle(new, CMD, NoWork) /\ age' = 0 => CourseKept
  <2>1. new[1] = Command(req)[1] /\ NoCommand(up')
    BY <1>2, <1>10, AllAfter
  <2>2. IsHeader(new[1])
    BY <1>2, <2>1, CommandBegins
  <2>3. ASSUME n <= CMD, Handle(new, CMD, NoWork), age' = 0 PROVE CourseKept
    <3>1. Reading(new, CMD, NoWork, up') /\ new \o up' = All(phase, req, done)
      BY <1>2, <1>4, <1>10, <2>2, <2>3
    <3>2. CourseAfter
      BY <1>6, <1>10, <2>3, <3>1, CommandHandled
    <3> QED
      BY <1>8, <2>3, <3>2
  <2> QED
    BY <2>1, <2>2, <2>3
<1>11. CASE CommandAhead(buff, readto, work, age, up, phase, req, done)
  <2>1. done = 0 /\ up = All(phase, req, done) /\ readto \in {1, CMD}
    BY <1>3, <1>11 DEF CommandAhead, Open
  <2>2. n <= readto - Len(buff) /\ Len(buff) \in Nat
    BY <1>2, <1>3, SeqBasics DEF Receive, Asked
  <2>3. n <= CMD
    BY <1>7, <2>1, <2>2
  <2> QED
    BY <1>1, <1>10, <1>7, <2>1, <2>3
<1>12. ~SectorAhead(buff, readto, age, up, phase, req, done)
  BY <1>3 DEF SectorAhead
<1>13. ~AckAhead(readto, work, age, up, down, phase, req, done)
  BY <1>3 DEF AckAhead
<1>14. ~ReplyAhead(age, down)
  BY <1>2 DEF ReplyAhead
<1>15. CASE /\ Missed(buff, readto, work, up, down)
            /\ Refuses(CommandOf(req)) \/ MayFail(clean, futile)
  <2>1. NoCommand(up)
    <3>1. NoCommand(buff \o up)
      BY <1>15 DEF Missed
    <3>2. IsSeq(buff) /\ IsSeq(up)
      BY <1>2
    <3>3. /\ Len(buff) \in Nat /\ Len(up) \in Nat /\ Len(buff \o up) = Len(buff) + Len(up)
          /\ \A i \in 1..Len(up) : (buff \o up)[Len(buff) + i] = up[i]
      BY ONLY <3>2, Joined, SeqBasics
    <3>4. ASSUME NEW i \in 1..Len(up) PROVE ~StartsCommand(up[i])
      <4>1. Len(buff) + i \in 1..Len(buff \o up)
        BY <3>3
      <4> QED
        BY <3>1, <3>3, <4>1 DEF NoCommand
    <3> QED
      BY <3>4 DEF NoCommand
  <2>2. NoCommand(up')
    <3>0. IsSeq(new) /\ IsSeq(up') /\ new \o up' = up
      BY <1>2
    <3>1. /\ Len(new) \in Nat /\ Len(up') \in Nat /\ Len(up) = Len(new) + Len(up')
          /\ \A i \in 1..Len(up') : up[Len(new) + i] = up'[i]
      BY ONLY <3>0, Joined, SeqBasics
    <3>2. ASSUME NEW i \in 1..Len(up') PROVE ~StartsCommand(up'[i])
      <4>1. Len(new) + i \in 1..Len(up)
        BY <3>1
      <4> QED
        BY <2>1, <3>1, <4>1 DEF NoCommand
    <3> QED
      BY <3>2 DEF NoCommand
  <2>3. CASE n <= CMD /\ IsHeader(new[1]) /\ Handle(new, CMD, NoWork) /\ age' = 0
    BY <1>2, <1>4, <1>6, <1>8, <1>15, <2>1, <2>3, MissedHandled
  <2>4. CASE n = 1 /\ ~IsHeader(new[1]) /\ Handle(new, 0, NoWork) /\ age' = 0
    BY <1>2, <1>5, <1>6, <1>8, <1>15, <2>1, <2>4, MissedHandled
  <2> QED
    BY <1>1, <1>9, <1>15, <2>2, <2>3, <2>4
<1>16. CASE Missing(buff, readto, work, age, up, down, phase, req, done) /\ MayFail(clean, futile)
  <2>1. done = 0 /\ up = All(phase, req, done)
    BY <1>3, <1>16 DEF Missing
  <2> QED
    BY <1>1, <1>9, <1>10, <1>16, <2>1
<1> QED
  BY <1>11, <1>12, <1>13, <1>14, <1>15, <1>16 DEF Course

LEMMA ReceiveRuns == ASSUME SafeInv, RunsInv, NEW n \in 1..SECTOR, Receive(n) PROVE RunsAfter
<1>1. /\ phase' = phase /\ req' = req /\ done' = done /\ futile' = futile
  BY DEF Receive, clientVars
<1>2. phase \in {"send", "wait"} /\ futile \in {0, 1}
  BY TakenParts, Zenon DEF RunsInv, Runs
<1>3. clean' \in {clean, "faulty"}
  <2>1. \/ \E b, t, w : Handle(b, t, w)
        \/ Quiet
    BY DEF Receive
  <2> QED
    BY <2>1, HandleClean DEF Quiet
<1>4. CourseKept
  <2>1. SUFFICES ASSUME clean' # "faulty" PROVE CourseKept
    BY DEF CourseKept
  <2>2. clean' = clean
    BY <1>3, <2>1
  <2>3. Course(buff, readto, work, age, up, down, phase, req, done, clean, futile)
    BY <1>2, <2>1, <2>2 DEF RunsInv, Runs
  <2>4. CASE TimedOut
    BY <2>2, <2>3, <2>4, ReceiveLate
  <2>5. CASE ~TimedOut
    <3>1. age' = 0
      BY <2>5 DEF Receive
    <3>2. CourseAfter
      BY <2>3, <2>5, ReceiveOn
    <3> QED
      BY <3>1, <3>2 DEF CourseAfter, CourseKept
  <2> QED
    BY <2>4, <2>5
<1> QED
  BY <1>1, <1>2, <1>4 DEF RunsAfter, Runs, CourseKept

LEMMA SectorRest ==
    ASSUME NEW ph, NEW r, NEW d, r.cmd = WRITE, ph = "wait"
    PROVE  /\ Rest(ph, r, d) = Bytes([kind |-> "sector", data |-> r.data[d + 1]])
           /\ IsSeq(Rest(ph, r, d)) /\ Len(Rest(ph, r, d)) = SECTOR
<1> DEFINE c == [kind |-> "sector", data |-> r.data[d + 1]]
<1>1. Rest(ph, r, d) = Bytes(c) /\ c.kind = "sector"
  BY DEF Rest
<1> HIDE DEF c
<1>2. IsSeq(Bytes(c)) /\ Len(Bytes(c)) = SECTOR
  BY <1>1, SectorBytes
<1> QED
  BY <1>1, <1>2 DEF c

LEMMA NoRest ==
    ASSUME NEW ph, NEW r, NEW d, ~(r.cmd = WRITE /\ ph = "wait"), Asks(r)
    PROVE  Rest(ph, r, d) = << >> /\ All(ph, r, d) = Command(r)
<1>1. Rest(ph, r, d) = << >>
  BY DEF Rest
<1>2. Command(r) \o << >> = Command(r)
  BY CommandBegins, JoinedEmpty
<1> QED
  BY <1>1, <1>2 DEF All

\* A client that waits with nothing on the line has its reply, or what it sent was missed.
LEMMA SilentCourse ==
    ASSUME SafeInv, phase = "wait", up = << >>,
           Course(buff, readto, work, age, up, down, phase, req, done, clean, futile)
    PROVE  \/ ReplyAhead(age, down)
           \/ /\ Missed(buff, readto, work, up, down)
              /\ Refuses(CommandOf(req)) \/ MayFail(clean, futile)
<1>1. /\ IsSeq(buff) /\ Asks(req) /\ done \in Nat /\ Len(buff) \in Nat
      /\ readto # 0 => Len(buff) < readto
  BY SafeParts, SeqBasics DEF Collected
<1>2. buff \o up = buff
  BY <1>1, JoinedEmpty
<1>3. All(phase, req, done) # << >> /\ Len(All(phase, req, done)) >= CMD
  BY <1>1, AllBytes
<1>4. ~(readto = CMD /\ buff \o up = All(phase, req, done))
  BY <1>1, <1>2, <1>3, Targets
<1>5. ~CommandAhead(buff, readto, work, age, up, phase, req, done)
  BY <1>3, <1>4 DEF CommandAhead
<1>6. ~Missing(buff, readto, work, age, up, down, phase, req, done)
  BY <1>3, <1>4 DEF Missing
<1>7. ~SectorAhead(buff, readto, age, up, phase, req, done)
  <2>1. SUFFICES ASSUME SectorAhead(buff, readto, age, up, phase, req, done) PROVE FALSE
    OBVIOUS
  <2>2. req.cmd = WRITE /\ readto = SECTOR /\ buff = Rest(phase, req, done)
    BY <1>2, <2>1 DEF SectorAhead
  <2>3. Len(Rest(phase, req, done)) = SECTOR
    BY <2>2, SectorRest
  <2> QED
    BY <1>1, <2>2, <2>3, Targets
<1>8. ~AckAhead(readto, work, age, up, down, phase, req, done)
  <2> DEFINE c == [kind |-> "ack", left |-> Len(req.data) - done]
             s == Rest(phase, req, done)
  <2>1. c.kind = "ack"
    OBVIOUS
  <2> HIDE DEF c, s
  <2>2. IsSeq(Bytes(c)) /\ Len(Bytes(c)) = 1 /\ IsSeq(s)
    BY <2>1, AckByte, RestBytes DEF s
  <2>3. Len(Bytes(c) \o s) = 1 + Len(s) /\ Len(s) \in Nat
    <3>1. IsSeq(Bytes(c)) /\ IsSeq(s)
      BY <2>2
    <3>2. Len(Bytes(c) \o s) = Len(Bytes(c)) + Len(s)
      BY ONLY <3>1, Joined, Zenon
    <3> QED
      BY <2>2, <3>2, SeqBasics
  <2>4. Bytes(c) \o s # << >>
    BY <2>3, EmptyQuiet
  <2> QED
    BY <2>4 DEF AckAhead, c, s
<1> QED
  BY <1>5, <1>6, <1>7, <1>8 DEF Course

LEMMA BeginRuns == ASSUME SafeInv, RunsInv, Begin PROVE RunsAfter
<1>1. /\ phase = "idle" /\ up = << >> /\ req' \in Transfers \cup Inquiries
      /\ phase' = IF req'.cmd = WRITE THEN "send" ELSE "wait"
      /\ done' = 0 /\ futile' = futile /\ down' = down
      /\ buff' = buff /\ readto' = readto /\ work' = work /\ age' = age
      /\ \/ up' = up \o Bytes(CommandOf(req')) /\ clean' = IF readto = 0 /\ work.count = 0 THEN "fresh" ELSE "clean"
         \/ clean' = "faulty"
  BY PartsTaken DEF SafeInv, Begin, Fault, serverVars
<1>2. Served /\ Asks(req')
  BY <1>1, SafeParts, InquiryAsks, TransferAsks
<1>3. /\ Collected(buff, readto, work, age, silent) /\ down = << >>
      /\ age \in Nat /\ TIMEOUT \in Nat /\ readto \in {0, 1, CMD, SECTOR}
  BY <1>1, SafeParts, SizesType DEF Session, Collected
<1>4. /\ futile \in {0, 1}
      /\ futile = 1 => Open(readto, work, age)
      /\ readto \in {CMD, SECTOR} => age > TIMEOUT
  BY <1>1 DEF RunsInv, Runs
<1>5. ASSUME clean' # "faulty"
      PROVE  Course(buff, readto, work, age, up', << >>, phase', req', 0, clean', futile)
  <2>1. /\ up' = up \o Command(req') /\ clean' = IF readto = 0 /\ work.count = 0 THEN "fresh" ELSE "clean"
    BY <1>1, <1>5 DEF Command
  <2>2. up' = Command(req')
    BY <1>1, <1>2, <2>1, CommandBegins, JoinedEmpty
  <2>3. ~(req'.cmd = WRITE /\ phase' = "wait")
    BY <1>1
  <2>4. up' = All(phase', req', 0)
    BY <1>2, <2>2, <2>3, NoRest
  <2>5. CASE Open(readto, work, age)
    BY <2>4, <2>5 DEF Course, CommandAhead
  <2>6. CASE ~Open(readto, work, age)
    <3>1. futile = 0 /\ ~(readto = 0 /\ work.count = 0)
      BY <1>4, <2>6 DEF Open
    <3>2. MayFail(clean', futile)
      BY <2>1, <3>1 DEF MayFail
    <3>3. \/ readto = SECTOR /\ age > TIMEOUT
          \/ readto = 1 /\ age <= TIMEOUT
          \/ readto = 0 /\ work.count # 0
      BY <1>3, <1>4, <2>6, <3>1, Targets DEF Open
    <3> QED
      BY <2>4, <3>2, <3>3 DEF Course, Missing
  <2> QED
    BY <2>5, <2>6
<1> QED
  BY <1>1, <1>3, <1>4, <1>5 DEF RunsAfter, Runs

LEMMA SendSectorRuns == ASSUME SafeInv, RunsInv, SendSector PROVE RunsAfter
<1> DEFINE s == Rest("wait", req, done)
<1>1. /\ phase = "send" /\ phase' = "wait" /\ req' = req /\ done' = done /\ futile' = futile /\ down' = down
      /\ buff' = buff /\ readto' = readto /\ work' = work /\ age' = age
      /\ SendUp([kind |-> "sector", data |-> req.data[done + 1]])
  BY DEF SendSector, serverVars
<1>2. /\ Asks(req) /\ done \in Nat /\ IsSeq(buff) /\ IsSeq(up) /\ req.cmd = WRITE /\ down = << >>
  BY <1>1, SafeParts DEF Session, Replied
<1>3. s = Bytes([kind |-> "sector", data |-> req.data[done + 1]]) /\ IsSeq(s) /\ NoCommand(s)
  BY <1>2, SectorRest, RestBytes
<1> HIDE DEF s
<1>4. (up' = up \o s /\ clean' = clean) \/ clean' = "faulty"
  BY <1>1, <1>3 DEF SendUp, Fault
<1>5. futile \in {0, 1} /\ (clean # "faulty" => Course(buff, readto, work, age, up, down, phase, req, done, clean, futile))
  BY <1>1 DEF RunsInv, Runs
<1>6. All("wait", req, done) = Command(req) \o s
  BY DEF All, s
<1>7. Rest(phase, req, done) = << >> /\ All(phase, req, done) = Command(req)
  BY <1>1, <1>2, NoRest
<1>8. ASSUME clean' # "faulty"
      PROVE  Course(buff, readto, work, age, up', << >>, "wait", req, done, clean', futile)
  <2>1. up' = up \o s /\ clean' = clean /\ Course(buff, readto, work, age, up, down, phase, req, done, clean, futile)
    BY <1>4, <1>5, <1>8
  <2>2. IsSeq(buff) /\ IsSeq(up) /\ IsSeq(s)
    BY <1>2, <1>3
  <2>3. (buff \o up) \o s = buff \o (up \o s)
    BY ONLY <2>2, JoinedTwice
  <2>4. buff \o up' = (buff \o up) \o s
    BY <2>1, <2>3
  <2>5. CASE CommandAhead(buff, readto, work, age, up, phase, req, done)
    <3>1. CommandAhead(buff, readto, work, age, up', "wait", req, done)
      BY <1>6, <1>7, <2>1, <2>4, <2>5 DEF CommandAhead
    <3> QED
      BY <3>1 DEF Course
  <2>6. CASE SectorAhead(buff, readto, age, up, phase, req, done)
    <3>1. buff \o up' = s
      BY <1>3, <1>7, <2>4, <2>6, JoinedEmpty DEF SectorAhead
    <3>2. SectorAhead(buff, readto, age, up', "wait", req, done)
      BY <2>6, <3>1 DEF SectorAhead, s
    <3> QED
      BY <3>2 DEF Course
  <2>7. CASE AckAhead(readto, work, age, up, down, phase, req, done)
    <3> DEFINE c == [kind |-> "ack", left |-> Len(req.data) - done]
    <3>1. c.kind = "ack" /\ up = Bytes(c) \o << >>
      BY <1>7, <2>7 DEF AckAhead
    <3> HIDE DEF c
    <3>2. up = Bytes(c)
      BY <3>1, AckByte, JoinedEmpty
    <3>3. up' = Bytes(c) \o Rest("wait", req, done)
      BY <2>1, <3>2 DEF s
    <3>4. Underway(work, "wait", req, done)
      BY <2>7 DEF AckAhead, Underway
    <3>5. AckAhead(readto, work, age, up', << >>, "wait", req, done)
      BY <2>7, <3>3, <3>4 DEF AckAhead, c
    <3> QED
      BY <3>5 DEF Course
  <2>8. ~ReplyAhead(age, down)
    BY <1>2 DEF ReplyAhead
  <2>9. CASE /\ Missed(buff, readto, work, up, down)
             /\ Refuses(CommandOf(req)) \/ MayFail(clean, futile)
    <3>1. IsSeq(buff \o up) /\ IsSeq(s)
      BY <2>2, Joined
    <3> DEFINE z == buff \o up
    <3>2. IsSeq(z) /\ IsSeq(s) /\ NoCommand(z) /\ NoCommand(s)
      BY <1>3, <2>9, <3>1 DEF Missed
    <3> HIDE DEF z
    <3>3. \A i \in 1..Len(z \o s) :
             \/ i \in 1..Len(z) /\ (z \o s)[i] = z[i]
             \/ \E j \in 1..Len(s) : i = Len(z) + j /\ (z \o s)[i] = s[j]
      BY ONLY <3>2, JoinedAt
    <3>4. NoCommand(z \o s)
      BY <3>2, <3>3 DEF NoCommand
    <3>5. NoCommand(buff \o up')
      BY <2>4, <3>4 DEF z
    <3>6. Missed(buff, readto, work, up', << >>)
      BY <2>9, <3>5 DEF Missed
    <3> QED
      BY <2>1, <2>9, <3>6 DEF Course
  <2>10. CASE Missing(buff, readto, work, age, up, down, phase, req, done) /\ MayFail(clean, futile)
    <3>1. Missing(buff, readto, work, age, up', << >>, "wait", req, done)
      BY <1>6, <1>7, <2>1, <2>4, <2>10 DEF Missing
    <3> QED
      BY <2>1, <2>10, <3>1 DEF Course
  <2> QED
    BY <2>1, <2>5, <2>6, <2>7, <2>8, <2>9, <2>10 DEF Course
<1> QED
  BY <1>1, <1>2, <1>5, <1>8 DEF RunsAfter, Runs

LEMMA ConfirmedRuns == ASSUME SafeInv, RunsInv, LineFast, Confirmed PROVE RunsAfter
<1> DEFINE x == Head(down)
<1>1. /\ phase = "wait" /\ down # << >> /\ Expected(x)
      /\ buff' = buff /\ readto' = readto /\ work' = work /\ req' = req /\ futile' = futile
      /\ down' = Tail(down) /\ age' = Later(age, ReplyTime(x))
      /\ done' = (IF req.cmd = INQUIRE THEN done ELSE done + 1)
      /\ IF done' = Len(req.data)
         THEN phase' = "over" /\ UNCHANGED <<up, faults, clean, calm>>
         ELSE /\ SendUp([kind |-> "ack", left |-> Len(req.data) - done'])
              /\ phase' = IF req.cmd = WRITE THEN "send" ELSE "wait"
  BY DEF Confirmed, TakeReply
<1>2. /\ Right(x, readto, work, req, done, disk) /\ down = <<x>> /\ down' = << >>
      /\ buff = << >> /\ up = << >> /\ readto \in {0, 1}
  BY <1>1, ReplyRight
<1> HIDE DEF x
<1>3. /\ Served /\ Asks(req) /\ done \in Nat /\ Len(req.data) \in Nat /\ done <= Len(req.data)
      /\ Session(readto, up, down, phase, req, done)
  BY <1>1, SafeParts
<1>4. /\ futile \in {0, 1}
      /\ clean # "faulty" => Course(buff, readto, work, age, up, down, phase, req, done, clean, futile)
  BY <1>1 DEF RunsInv, Runs
<1>5. CASE done' = Len(req.data)
  <2>1. phase' = "over"
    BY <1>1, <1>5
  <2> QED
    BY <1>1, <1>4, <2>1 DEF RunsAfter, Runs
<1>6. CASE done' # Len(req.data)
  <2> DEFINE c == [kind |-> "ack", left |-> Len(req.data) - done']
  <2>1. SendUp(c) /\ phase' = IF req.cmd = WRITE THEN "send" ELSE "wait"
    BY <1>1, <1>6
  <2>2. (up' = up \o Bytes(c) /\ clean' = clean) \/ clean' = "faulty"
    <3> HIDE DEF c
    <3> QED
      BY <2>1 DEF SendUp, Fault
  <2>3. req.cmd # INQUIRE /\ done' = done + 1 /\ done + 1 < Len(req.data)
    <3>1. req.cmd # INQUIRE
      BY <1>1, <1>3, <1>6 DEF Asks
    <3>2. done < Len(req.data)
      BY <1>1, <1>3, <3>1 DEF Session
    <3>3. done' = done + 1
      BY <1>1, <3>1
    <3> QED
      BY <1>3, <1>6, <3>1, <3>2, <3>3
  <2>4. readto = 1 /\ WorkAt(work, req, done + 1)
    BY <1>2, <1>3, <2>3 DEF Right
  <2>5. /\ req.cmd \in {READ, WRITE} /\ (req.cmd = WRITE => ~Image(req.drive).readOnly)
        /\ x.kind \in {"read", "echo"}
    BY <1>2, <1>3, <2>3 DEF Right, Asks, READ, WRITE
  <2>6. phase' \in {"send", "wait"} /\ ~(req.cmd = WRITE /\ phase' = "wait")
    BY <2>1
  <2>7. Underway(work, phase', req, done + 1)
    BY <2>3, <2>4, <2>5, <2>6 DEF Underway
  <2>8. ASSUME clean' # "faulty" PROVE AckAhead(readto, work, age', up', << >>, phase', req, done + 1)
    <3>1. clean # "faulty" /\ up' = << >> \o Bytes(c)
      BY <1>2, <2>2, <2>8
    <3>2. age = 0
      <4>1. ReplyAhead(age, down)
        BY <1>1, <1>2, <1>4, <3>1, SilentCourse DEF Missed
      <4> QED
        BY <4>1 DEF ReplyAhead
    <3>3. ReplyTime(x) <= TIMEOUT
      <4>1. ReplyTime(x) = ReplyTime([kind |-> x.kind])
        BY DEF ReplyTime
      <4> QED
        BY <2>5, <4>1 DEF LineFast
    <3>4. age' <= TIMEOUT
      BY <1>1, <1>3, <3>2, <3>3, LaterType
    <3>5. Rest(phase', req, done + 1) = << >>
      BY <1>3, <2>6, NoRest
    <3>6. up' = Bytes(c) \o << >>
      <4>1. c.kind = "ack"
        OBVIOUS
      <4> HIDE DEF c
      <4> QED
        BY <3>1, <4>1, AckByte, JoinedEmpty
    <3> QED
      BY <2>3, <2>4, <2>7, <3>4, <3>5, <3>6 DEF AckAhead
  <2> QED
    BY <1>1, <1>2, <1>4, <2>3, <2>6, <2>8 DEF RunsAfter, Runs, Course
<1> QED
  BY <1>5, <1>6

LEMMA SucceedRuns == ASSUME SafeInv, RunsInv, Succeed PROVE RunsAfter
<1>1. phase = "over" /\ phase' = "idle" /\ readto' = readto /\ futile' = 0
  BY DEF Succeed, End, serverVars
<1>2. readto = 0
  BY <1>1, SafeParts DEF Session
<1> QED
  BY <1>1, <1>2, Targets DEF RunsAfter, Runs

\* Nothing but the line makes a reply wrong.
LEMMA WrongFaulty == ASSUME SafeInv, RunsInv, WrongReply PROVE clean = "faulty" /\ readto \in {0, 1}
<1>1. phase = "wait" /\ down # << >> /\ ~Expected(Head(down))
  BY DEF WrongReply
<1>2. /\ Replied(buff, readto, work, up, down, phase, req, done, calm, clean, disk) /\ Asks(req)
  BY <1>1, SafeParts
<1>3. PICK x : /\ down = <<x>>
               /\ (x.kind = "damaged" /\ clean = "faulty") \/ Right(x, readto, work, req, done, disk)
  BY <1>1, <1>2 DEF Replied
<1>4. Head(down) = x /\ up = << >> /\ readto \in {0, 1}
  BY <1>1, <1>2, <1>3 DEF Replied
<1>5. ~Right(x, readto, work, req, done, disk)
  <2>1. SUFFICES ASSUME Right(x, readto, work, req, done, disk) PROVE Expected(x)
    BY <1>1, <1>4
  <2>2. CASE req.cmd = INQUIRE
    <3>1. x.kind = "inquiry" /\ INQUIRE # READ /\ INQUIRE # WRITE
      BY <2>1, <2>2 DEF Right, INQUIRE, READ, WRITE
    <3> QED
      BY <2>2, <3>1 DEF Expected
  <2>3. CASE req.cmd = READ
    <3>1. x.kind = "read" /\ INQUIRE # READ /\ READ # WRITE
      BY <2>1, <2>3 DEF Right, INQUIRE, READ, WRITE
    <3> QED
      BY <2>3, <3>1 DEF Expected
  <2>4. CASE req.cmd = WRITE
    <3>1. x.kind = "echo" /\ x.data = req.data[done + 1] /\ INQUIRE # WRITE /\ READ # WRITE
      BY <2>1, <2>4 DEF Right, INQUIRE, READ, WRITE
    <3> QED
      BY <2>4, <3>1 DEF Expected
  <2> QED
    BY <1>2, <2>2, <2>3, <2>4 DEF Asks
<1> QED
  BY <1>3, <1>4, <1>5

LEMMA WrongRuns == ASSUME SafeInv, RunsInv, WrongReply PROVE RunsAfter
<1>1. phase' = "idle" /\ readto' = readto /\ futile' = 0
  BY WrongFaulty DEF WrongReply, End, TakeReply
<1> QED
  BY <1>1, WrongFaulty, Targets DEF RunsAfter, Runs

LEMMA GiveUpCourse ==
    ASSUME SafeInv, RunsInv, GiveUp
    PROVE  /\ age > TIMEOUT
           /\ clean # "faulty" => /\ readto \in {0, CMD} /\ work.count = 0
                                  /\ Refuses(CommandOf(req)) \/ MayFail(clean, futile)
<1>1. phase = "wait" /\ up = << >> /\ down = << >> /\ silent > TIMEOUT
  BY PartsTaken DEF SafeInv, GiveUp
<1>2. age \in Nat /\ silent \in Nat /\ silent <= age /\ TIMEOUT \in Nat
  BY SafeParts, SizesType
<1>3. ASSUME clean # "faulty"
      PROVE  /\ Missed(buff, readto, work, up, down)
             /\ Refuses(CommandOf(req)) \/ MayFail(clean, futile)
  <2>1. Course(buff, readto, work, age, up, down, phase, req, done, clean, futile)
    BY <1>1, <1>3 DEF RunsInv, Runs
  <2> QED
    BY <1>1, <2>1, SilentCourse DEF ReplyAhead
<1> QED
  BY <1>1, <1>2, <1>3 DEF Missed

LEMMA GiveUpRuns == ASSUME SafeInv, RunsInv, GiveUp PROVE RunsAfter
<1>1. /\ phase' = "idle" /\ readto' = readto /\ work' = work /\ age' = age
      /\ futile' = CASE clean = "faulty" -> 0
                     [] clean # "faulty" /\ ~Refuses(CommandOf(req)) -> Failed(futile)
                     [] OTHER -> futile
  BY DEF GiveUp, End, serverVars
<1>2. futile \in {0, 1} /\ age > TIMEOUT
  BY GiveUpCourse DEF RunsInv, Runs
<1>3. CASE clean = "faulty"
  <2>1. futile' = 0
    BY <1>1, <1>3
  <2> QED
    BY <1>1, <1>2, <2>1 DEF RunsAfter, Runs
<1>4. CASE clean # "faulty"
  <2>1. /\ readto \in {0, CMD} /\ work.count = 0
        /\ Refuses(CommandOf(req)) \/ MayFail(clean, futile)
    BY <1>4, GiveUpCourse
  <2>2. futile' \in {0, 1}
    BY <1>1, <1>2, <1>4, <2>1 DEF MayFail, Failed
  <2>3. Open(readto, work, age)
    BY <1>2, <2>1 DEF Open
  <2> QED
    BY <1>1, <1>2, <2>2, <2>3 DEF RunsAfter, Runs
<1> QED
  BY <1>3, <1>4

LEMMA ResetRuns == ASSUME ResetConnection PROVE RunsAfter
<1>1. phase' = "idle" /\ readto' = 0 /\ futile' = 0
  BY DEF ResetConnection, Listen
<1> QED
  BY <1>1, Targets DEF RunsAfter, Runs

LEMMA TimeRuns == ASSUME SafeInv, RunsInv, TimePasses PROVE RunsAfter
<1>1. /\ phase \in {"idle", "wait"} /\ up = << >> /\ down = << >> /\ age' = TIMEOUT + 1
      /\ phase' = phase /\ req' = req /\ done' = done /\ futile' = futile
      /\ buff' = buff /\ readto' = readto /\ work' = work
      /\ down' = down /\ up' = up /\ clean' = clean
  BY PartsTaken DEF SafeInv, TimePasses, clientVars
<1>2. age' > TIMEOUT /\ TIMEOUT \in Nat
  BY <1>1, SizesType
<1>3. CASE phase = "idle"
  <2>1. futile = 1 => Open(readto, work, age')
    BY <1>2, <1>3 DEF RunsInv, Runs, Open
  <2> QED
    BY <1>1, <1>2, <1>3, <2>1 DEF RunsInv, RunsAfter, Runs
<1>4. CASE phase = "wait"
  <2>1. ASSUME clean # "faulty"
        PROVE  /\ Missed(buff, readto, work, up, down)
               /\ Refuses(CommandOf(req)) \/ MayFail(clean, futile)
    <3>1. Course(buff, readto, work, age, up, down, phase, req, done, clean, futile)
      BY <1>4, <2>1 DEF RunsInv, Runs
    <3> QED
      BY <1>1, <1>4, <3>1, SilentCourse DEF ReplyAhead
  <2>2. futile \in {0, 1}
    BY DEF RunsInv, Runs
  <2> QED
    BY <1>1, <1>4, <2>1, <2>2 DEF RunsAfter, Runs, Course
<1> QED
  BY <1>1, <1>3, <1>4

\* The invariant, after a step that leaves the server's images and rate alone.
LEMMA RunsNext == ASSUME server' = server, RunsAfter PROVE RunsInv'
  BY DEF RunsInv, RunsAfter, Runs, Course, CommandAhead, SectorAhead, AckAhead, ReplyAhead, Missed, Missing,
         MayFail, Open, All, Command, Rest, NoCommand, StartsCommand, Underway, WorkAt, Refuses, CommandOf,
         AddressBy, Drives, images, File, order, Image, Pipe

LEMMA FastNext == ASSUME server' = server, LineFast PROVE LineFast'
  BY DEF LineFast, ReplyTime, Pipe

LEMMA RunsStart == Init => RunsInv
<1> SUFFICES ASSUME Init PROVE RunsInv
  OBVIOUS
<1>1. phase = "idle" /\ readto = 0 /\ futile = 0
  BY DEF Init
<1> QED
  BY <1>1, Targets DEF RunsInv, Runs

LEMMA ServerStays == ASSUME [Next]_vars PROVE server' = server
  BY DEF vars, Next, Server, Client, Receive, ResetConnection, TimePasses, Begin, SendSector, Confirmed,
         TakeReply, Succeed, WrongReply, GiveUp

LEMMA RunsStep == ASSUME SafeInv, RunsInv, LineFast, [Next]_vars PROVE RunsInv' /\ LineFast'
<1>1. server' = server
  BY ServerStays
<1>2. CASE Next
  <2>1. ASSUME NEW n \in 1..SECTOR, Receive(n) PROVE RunsAfter
    BY <2>1, ReceiveRuns
  <2> QED
    BY <1>1, <1>2, <2>1, BeginRuns, SendSectorRuns, ConfirmedRuns, SucceedRuns, WrongRuns, GiveUpRuns,
       ResetRuns, TimeRuns, RunsNext, FastNext DEF Next, Server, Client
<1>3. CASE UNCHANGED vars
  <2>1. RunsAfter
    BY <1>3 DEF vars, RunsAfter, RunsInv
  <2> QED
    BY <1>1, <2>1, RunsNext, FastNext
<1> QED
  BY <1>2, <1>3

LEMMA RunsAlways == Spec /\ ~Whole /\ LineFast => []RunsInv
<1>1. SafeInv /\ RunsInv /\ LineFast /\ [Next]_vars => RunsInv' /\ LineFast'
  BY RunsStep
<1> QED
  BY <1>1, RunsStart, SafeAlways, PTL DEF Spec

\* On Linux and on a pipe, however the server was left by what went wrong before, at
\* most one request fails that the line did not disturb, on a line whose replies do
\* not count as late by their length (lasttick of processRequests is the time of the
\* last bytes received).
THEOREM OneRetryServes == Spec /\ ~Whole /\ LineFast => []OneRetryEnough
<1>1. RunsInv => OneRetryEnough
  BY DEF RunsInv, Runs, OneRetryEnough
<1> QED
  BY <1>1, RunsAlways, PTL

\* There a request that finds the server listening without work, and that
\* the line does not disturb, is served or refused.
THEOREM FreshServed == Spec /\ ~Whole /\ LineFast => UndisturbedServed
<1> DEFINE Ends == clean = "fresh" /\ phase \notin {"idle", "over"} /\ phase' = "idle"
                   => Refuses(CommandOf(req)) \/ clean' = "faulty"
<1>1. ASSUME SafeInv, RunsInv, [Next]_vars PROVE Ends
  <2>1. SUFFICES ASSUME clean = "fresh", phase \notin {"idle", "over"}, phase' = "idle"
                 PROVE  Refuses(CommandOf(req)) \/ clean' = "faulty"
    OBVIOUS
  <2>2. phase' # phase
    BY <2>1
  <2>3. WrongReply \/ GiveUp \/ ResetConnection
    BY <1>1, <2>1, <2>2 DEF vars, Next, Server, Client, Receive, TimePasses, Begin, SendSector, Confirmed, Succeed,
                      clientVars
  <2>4. ~WrongReply
    BY <1>1, <2>1, WrongFaulty
  <2>5. CASE GiveUp
    BY <1>1, <2>1, <2>5, GiveUpCourse DEF MayFail
  <2>6. CASE ResetConnection
    BY <2>6 DEF ResetConnection
  <2> QED
    BY <2>3, <2>4, <2>5, <2>6
<1>2. SafeInv /\ RunsInv /\ [Next]_vars => [Ends]_vars
  BY <1>1
<1>3. UndisturbedServed <=> [][Ends]_vars
  BY DEF UndisturbedServed
<1> HIDE DEF Ends
<1> QED
  BY <1>2, <1>3, SafeAlways, RunsAlways, PTL DEF Spec

LEMMA Quotient ==
    ASSUME NEW n \in Nat, NEW y \in Nat, y >= 1, NEW k \in Nat, n < (k + 1) * y
    PROVE  n \div y <= k
<1> DEFINE q == n \div y
<1>1. q \in Nat /\ q * y <= n
  OBVIOUS
<1> HIDE DEF q
<1>2. ASSUME q > k PROVE FALSE
  <2>1. q * y >= (k + 1) * y
    BY <1>1, <1>2
  <2>2. q * y \in Nat /\ (k + 1) * y \in Nat
    BY <1>1
  <2> QED
    BY <1>1, <2>1, <2>2
<1> QED
  BY <1>1, <1>2 DEF q

\* With the timeout of the code, 1000 ms, every rate it accepts but 2400 and 4800
\* baud is fast enough.
LEMMA FastRates == ASSUME TIMEOUT = 1000, server.rate \in Nat, server.rate >= 5140 PROVE LineFast
<1> SUFFICES ASSUME NEW kind \in {"echo", "read"} PROVE ReplyTime([kind |-> kind]) <= TIMEOUT
  BY DEF LineFast
<1> DEFINE n == (IF kind = "echo" THEN 2 ELSE 514) * 10000
<1>1. n \in Nat /\ n <= 5140000
  OBVIOUS
<1>2. ReplyTime([kind |-> kind]) = IF Pipe THEN 0 ELSE n \div server.rate
  BY DEF ReplyTime
<1> HIDE DEF n
<1>3. n < (1000 + 1) * server.rate
  BY <1>1
<1>4. n \div server.rate <= 1000
  BY <1>1, <1>3, Quotient
<1> QED
  BY <1>2, <1>4
=============================================================================
