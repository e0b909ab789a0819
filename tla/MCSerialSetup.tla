--------------------------- MODULE MCSerialSetup ----------------------------
EXTENDS SerialSetup

mc_Names == {"disk", "new"}

\* "disk" has three standard cylinders, or half a sector more; "new" is not there.
mc_Files == [disk : {FileOf(3024), [sectors |-> 3024, rest |-> 256]}, new : {NoFile}]

\* -n of a floppy, of more cylinders than fit, beyond LBA28; -g alone, the
\* largest geometry, the disk's, one without heads.
mc_Arguments ==
    [opt : {"n"}, size : {320, 80000000, 280000000}]
    \cup [opt : {"g"}, geo : {NoGeometry, Geometry(65536, 16, 63), Geometry(27, 16, 7), Geometry(2, 0, 1)}]
    \cup [opt : {"b"}, rate : {29}]
    \cup [opt : {"r", "c", "p"}]
    \cup [opt : {"file"}, name : mc_Names]
=============================================================================
