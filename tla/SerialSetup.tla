---------------------------- MODULE SerialSetup -----------------------------
(* main of the serial disk server, argument by argument, up to the moment it *)
(* serves; started again and again, by a user who may also stop it, over the *)
(* same files (src/SW/Serial_Server/linux/Linux.cpp, win32/Win32.cpp).       *)
EXTENDS SerialImage

CONSTANTS
    Names,         \* of files
    Arguments,     \* what the user may write on a command line
    MAX_OPTIONS,   \* options in front of a file name
    Files          \* the files that may be there at first: name -> file

FileStates == [sectors : Nat, rest : Nat] \cup {NoFile}

ASSUME ArgumentAssumption ==
    \A a \in Arguments :
        \/ a.opt \in {"r", "t", "c", "p"}
        \/ a.opt = "n" /\ a.size \in Nat
        \/ a.opt = "g" /\ a.geo \in Geometries
        \/ a.opt = "b" /\ a.rate \in Nat
        \/ a.opt = "file" /\ a.name \in Names

ASSUME FileAssumption == \A f \in Files : f \in [Names -> FileStates]

VARIABLES
    platform,
    m,             \* main's variables, with the files
    serving,       \* the loop over the arguments is over
    given          \* history: the options before each image file, then those after
                   \* the last one

setupVars == <<platform, m, serving, given>>

Ended == m.refused

\* The program ends with a message: only the files are left.
Exit(files) == m' = [Start(files) EXCEPT !.refused = TRUE] /\ given' = <<{}>>

Option ==
    /\ ~serving /\ ~Ended
    /\ \E a \in Arguments :
          /\ a.opt = "file" \/ Cardinality(given[Len(given)] \cup {a.opt}) <= MAX_OPTIONS
          /\ LET next == TakeArgument(platform, m, a)
             IN \/ next.refused /\ Exit(next.files)
                \/ ~next.refused /\ m' = next
                   /\ given' = IF a.opt = "file" THEN Append(given, {})
                               ELSE [given EXCEPT ![Len(given)] = @ \cup {a.opt}]
    /\ UNCHANGED <<platform, serving>>

\* The loop over an image's sectors ends half way: no room, or the user stops it.
CreationBreaks ==
    /\ ~serving /\ ~Ended /\ Len(m.images) < 2
    /\ m.next.create /\ ~CreateRefused(ImageOptions(m.next))
    /\ \E a \in Arguments :
          /\ a.opt = "file" /\ m.files[a.name] = NoFile
          /\ \E n \in {0, 1008} :
                /\ n < Sectors(ImageOptions(m.next).geo)
                /\ Exit([m.files EXCEPT ![a.name] = FileOf(n)])
    /\ UNCHANGED <<platform, serving>>

Serve ==
    /\ ~serving /\ ~Ended
    /\ LET next == Connected(platform, m)
       IN \/ next.refused /\ Exit(next.files) /\ UNCHANGED serving
          \/ ~next.refused /\ m' = next /\ serving' = TRUE /\ UNCHANGED given
    /\ UNCHANGED platform

StartAgain ==
    /\ serving \/ Ended
    /\ m' = Start(m.files) /\ serving' = FALSE /\ given' = <<{}>>
    /\ UNCHANGED platform

SetupInit ==
    /\ platform \in Platforms
    /\ m \in {Start(f) : f \in Files} /\ serving = FALSE /\ given = <<{}>>

SetupNext == Option \/ CreationBreaks \/ Serve \/ StartAgain

SetupSpec == SetupInit /\ [][SetupNext]_setupVars

-----------------------------------------------------------------------------
\* Sectors worth a look: both ends, and where the cylinder number or the offset in
\* the file needs more bits.
Places(n) == {k \in {0, 1, 62, 63, 1007, 1008, 1032192, LOW - 1, LOW, n - 1} : k \in 0..(n - 1)}

\* Every image that is served has a geometry in range that is the file's, and only
\* an image beyond the largest standard geometry has sectors outside of it
\* (Image::init; also for a file whose creation broke off).
GeometryFitsFile == \A i \in DOMAIN m.images : Fits(m.images[i])

\* A client that addresses a sector as the inquiry told it to, in the fields of a
\* command, gets that sector of the file (respondInquire, the address
\* computation of processRequests, SeekSectors).
SectorsReachable ==
    \A i \in DOMAIN m.images :
        LET img == m.images[i]
        IN \A k \in Places(SectorsTold(img)) :
              /\ LbaOf(img, AddressOf(RespondInquire(img), k)) = k
              /\ SeekSectors(platform, k) = k

\* An image is read-only, or addressed by cylinder, head and sector, when the options
\* in front of its own name say so, or it is a floppy (the resets after new FlatImage).
OptionsOwnImage ==
    \A i \in DOMAIN m.images :
        /\ m.images[i].readOnly <=> "r" \in given[i]
        /\ m.images[i].useCHS <=> "g" \in given[i] \/ m.images[i].floppy

\* No start of the program, however it ends, changes a file that is there (Create
\* opens with O_EXCL, CREATE_NEW).
FilesKept == [][\A f \in Names : m.files[f] # NoFile => m'.files[f] = m.files[f]]_setupVars
=============================================================================
