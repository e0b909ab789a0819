--------------------------- MODULE MCSerialServer ---------------------------
EXTENDS SerialServer

\* Command lines: the arguments as records.
ImageFile(n) == [opt |-> "file", name |-> n]
Option(o) == [opt |-> o]
GeometryOption(c, h, s) == [opt |-> "g", geo |-> Geometry(c, h, s)]
SizeOption(n) == [opt |-> "n", size |-> n]
RateOption(r) == [opt |-> "b", rate |-> r]

mc_Files == [two |-> FileOf(2), four |-> FileOf(4), disk |-> FileOf(1008), new |-> NoFile]
On(p, arguments) == [platform |-> p, files |-> mc_Files, arguments |-> arguments]

\* One small disk behind a line; a floppy before a disk on a pipe; a read-only
\* disk and a writable one on a pipe.
mc_Starts ==
    {On("linux", <<Option("c"), RateOption(9600), GeometryOption(1, 2, 2), ImageFile("four")>>),
     On("win32", <<Option("p"), SizeOption(320), ImageFile("new"), GeometryOption(2, 1, 1), ImageFile("two")>>),
     On("win32", <<Option("p"), Option("r"), GeometryOption(1, 2, 1), ImageFile("two"), ImageFile("disk")>>),
     On("win32", <<Option("c"), RateOption(9600), GeometryOption(1, 2, 2), ImageFile("four")>>)}

\* The first disk behind a slower line.
mc_SlowLine ==
    {On("linux", <<Option("c"), RateOption(4800), GeometryOption(1, 2, 2), ImageFile("four")>>)}
=============================================================================
