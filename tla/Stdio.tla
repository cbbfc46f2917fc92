------------------------------- MODULE Stdio -------------------------------
(***************************************************************************)
(* The FILE streams of crates/libc-shim/src/file.rs.                       *)
(*                                                                         *)
(* The game holds BionicFiles, each of which wraps a FILE of the host and  *)
(* carries a copy of its end-of-file flag, which bionic's inline feof      *)
(* reads.  The three standard streams are BionicFiles of their own that    *)
(* are never freed.  The game uses a stream until it closes it, and the    *)
(* result of freopen, which POSIX says is the stream it was given, in      *)
(* place of that stream.                                                   *)
(***************************************************************************)
EXTENDS Naturals, FiniteSets

CONSTANTS
    Wrappers,    \* addresses of BionicFiles
    Standard,    \* those of stdin, stdout and stderr
    FileSize     \* what a stream has to read

ASSUME StdioAssumption ==
    Standard \subseteq Wrappers /\ IsFiniteSet(Wrappers) /\ FileSize \in Nat

HostFiles == 1 .. Cardinality(Wrappers)
NullFile == 0

VARIABLES
    boxed,     \* BionicFiles that exist
    wrapped,   \* BionicFile -> host FILE
    flagEof,   \* BionicFile -> _IOEOF in _flags
    openFiles, \* host FILEs that are open
    position, hostEof,   \* of a host FILE
    usableFiles \* BionicFiles the game may use

stdioVars == <<boxed, wrapped, flagEof, openFiles, position, hostEof, usableFiles>>

StdioTypeOK ==
    /\ boxed \subseteq Wrappers /\ wrapped \in [Wrappers -> HostFiles \cup {NullFile}]
    /\ flagEof \in [Wrappers -> BOOLEAN] /\ openFiles \subseteq HostFiles
    /\ position \in [HostFiles -> 0 .. FileSize]
    /\ hostEof \in [HostFiles -> BOOLEAN] /\ usableFiles \subseteq Wrappers

(* init_standard_files; which FILEs the standard streams are is all one.  *)
StdioInit ==
    /\ boxed = Standard /\ usableFiles = Standard
    /\ wrapped = CHOOSE w \in [Wrappers -> HostFiles \cup {NullFile}] :
                    /\ \A f \in Wrappers : w[f] = NullFile <=> f \notin Standard
                    /\ \A f, g \in Standard : w[f] = w[g] => f = g
    /\ openFiles = {wrapped[f] : f \in Standard}
    /\ flagEof = [f \in Wrappers |-> FALSE]
    /\ position = [h \in HostFiles |-> 0]
    /\ hostEof = [h \in HostFiles |-> FALSE]

Wraps(h) == h # NullFile

(* wrap_file: a new BionicFile for a host FILE, none for NULL.             *)
WrapFile(h, also) ==
    IF Wraps(h)
    THEN \E f \in Wrappers \ boxed :
            /\ boxed' = boxed \cup {f} /\ usableFiles' = also \cup {f}
            /\ wrapped' = [wrapped EXCEPT ![f] = h]
            /\ flagEof' = [flagEof EXCEPT ![f] = FALSE]
    ELSE usableFiles' = also /\ UNCHANGED <<boxed, wrapped, flagEof>>

HostOpens(h) ==
    /\ openFiles' = (openFiles \cup {h}) \ {NullFile}
    /\ position' = [k \in HostFiles |-> IF k = h THEN 0 ELSE position[k]]
    /\ hostEof' = [k \in HostFiles |-> k # h /\ hostEof[k]]

(* fopen, fdopen, tmpfile, popen *)
Fopen ==
    \E h \in (HostFiles \ openFiles) \cup {NullFile} :
        HostOpens(h) /\ WrapFile(h, usableFiles)

(* freopen closes the host's FILE and opens it again; the wrapper it was   *)
(* given stays, and the game gets a second one.                            *)
Freopen(f) ==
    /\ f \in usableFiles
    /\ \/ /\ HostOpens(wrapped[f])
          /\ WrapFile(wrapped[f], usableFiles \ {f})
       \/ /\ openFiles' = openFiles \ {wrapped[f]} /\ UNCHANGED <<position, hostEof>>
          /\ WrapFile(NullFile, usableFiles \ {f})

(* fclose, pclose: the host's FILE and, of a stream that is not a standard *)
(* one, the wrapper.                                                       *)
Fclose(f) ==
    /\ f \in usableFiles /\ usableFiles' = usableFiles \ {f}
    /\ openFiles' = openFiles \ {wrapped[f]}
    /\ boxed' = IF f \in Standard THEN boxed ELSE boxed \ {f}
    /\ UNCHANGED <<wrapped, flagEof, position, hostEof>>

(* Reading: at the end of the file the host sets its flag.                 *)
HostReads(h) ==
    IF position[h] < FileSize
    THEN position' = [position EXCEPT ![h] = @ + 1] /\ UNCHANGED hostEof
    ELSE hostEof' = [hostEof EXCEPT ![h] = TRUE] /\ UNCHANGED position

(* Mutant: the host is asked before it reads. *)
UpdateFeofEarly(f) == flagEof' = [flagEof EXCEPT ![f] = hostEof[wrapped[f]]]
UpdateFeof(f) == flagEof' = [flagEof EXCEPT ![f] = hostEof'[wrapped[f]]]

(* fread, vfscanf *)
Fread(f) ==
    /\ f \in usableFiles /\ HostReads(wrapped[f]) /\ UpdateFeof(f)
    /\ UNCHANGED <<boxed, wrapped, openFiles, usableFiles>>

(* fgets, fgetc, getline, getwc and the others that only unwrap.           *)
ReadUnwrapped(f) ==
    /\ f \in usableFiles /\ HostReads(wrapped[f])
    /\ UNCHANGED <<boxed, wrapped, flagEof, openFiles, usableFiles>>

(* fseek, fseeko, rewind, ungetc; clearerr leaves the position.            *)
Reposition(f) ==
    /\ f \in usableFiles
    /\ hostEof' = [hostEof EXCEPT ![wrapped[f]] = FALSE]
    /\ \E p \in {0, position[wrapped[f]]} :
          position' = [position EXCEPT ![wrapped[f]] = p]
    /\ UNCHANGED <<boxed, wrapped, flagEof, openFiles, usableFiles>>

StdioNext ==
    \/ Fopen
    \/ \E f \in Wrappers : \/ Freopen(f) \/ Fclose(f) \/ Fread(f)
                           \/ ReadUnwrapped(f) \/ Reposition(f)

StdioSpec == StdioInit /\ [][StdioNext]_stdioVars

-----------------------------------------------------------------------------
(* Properties *)

(* A stream the game may use exists and leads to an open FILE of the host  *)
(* that no other such stream has, whatever was closed and opened again;    *)
(* and a read loop over fread sees the end: when the host reports it, the  *)
(* copy of the flag says so at once.                                       *)
StreamsOpen ==
    /\ \A f \in usableFiles : f \in boxed /\ wrapped[f] \in openFiles
    /\ \A f, g \in usableFiles : wrapped[f] = wrapped[g] => f = g

EofReaches ==
    [][\A f \in Wrappers : Fread(f) /\ hostEof'[wrapped[f]] => flagEof'[f]]_stdioVars

StreamsSound == []StreamsOpen /\ EofReaches
=============================================================================
