------------------------------- MODULE SignIn -------------------------------
(***************************************************************************)
(* What the launcher keeps of a sign-in for the game's XAL: the device key *)
(* in ecdsa_key.json, the files XAL leaves in its store (a pointer to that *)
(* key, resume tickets of a web flow, tokens), the repair of that store    *)
(* before the game starts, and the browser flow that ends with a redirect  *)
(* caught in a file or pasted on the terminal.  The launcher may be killed *)
(* at any step; XAL itself is the environment.                             *)
(***************************************************************************)
EXTENDS Naturals, FiniteSets

CONSTANTS
    KeyIds,        \* unique ids XAL gives its device keys
    StoreFiles,    \* names of files in xal/
    MaxKeys,       \* bound: keys generated
    MaxFlows       \* bound: browser flows

\* Ids of keys are neither those of a missing or half-written file nor white space.
ASSUME SignInAssumption ==
    /\ {"absent", "torn", "blank"} \cap KeyIds = {}
    /\ MaxKeys \in Nat /\ MaxFlows \in Nat

VARIABLES
    session,       \* the launcher: off, reading (XAL enumerates its store), playing
    keyFile,       \* ecdsa_key.json
    xal, bad,      \* the store and the quarantine beside it: file -> content
    before,        \* ghost: the store and the key as the repair found them, while XAL reads
    ecdsa,         \* the key object XAL holds, or none
    unfinished,    \* what a write of the key file in progress will leave
    generated,     \* keys generated so far
    refused,       \* restoreKeyAndId found nothing although XAL had a pointer
    flow,          \* browser flows started, and whether the last one still waits
    captured,      \* the capture file: how many flows had started when it was written
    readers,       \* flows whose thread still reads a line from the terminal
    heard          \* flow -> what XAL was told, as in captured; 0 is nothing

signVars == <<session, keyFile, xal, bad, before, ecdsa, unfinished, generated, refused,
              flow, captured, readers, heard>>
keyVars == <<session, keyFile, xal, bad, before, ecdsa, unfinished, generated, refused>>
flowVars == <<flow, captured, readers, heard>>

-----------------------------------------------------------------------------
NoId == "blank"
NoKey == [id |-> "absent", key |-> 0]
Torn == [id |-> "torn", key |-> 0]
NoFile == [kind |-> "none", id |-> NoId]
Pointer(i) == [kind |-> "pointer", id |-> i]

\* ecdsa_store_load and ecdsa_store_id read nothing from a missing or half-written file.
Stored(file) == file \notin {NoKey, Torn}

NoEcdsa == [held |-> FALSE, id |-> NoId, key |-> 0]

NoBefore == [xal |-> [f \in StoreFiles |-> NoFile], key |-> NoKey]

SignInit ==
    /\ session = "off"
    /\ keyFile = NoKey
    /\ xal = [f \in StoreFiles |-> NoFile] /\ bad = [f \in StoreFiles |-> NoFile]
    /\ before = NoBefore
    /\ ecdsa = NoEcdsa /\ unfinished = NoKey /\ generated = 0 /\ refused = FALSE
    /\ flow = [started |-> 0, waiting |-> FALSE]
    /\ captured = 0 /\ readers = {}
    /\ heard = [n \in 1..MaxFlows |-> 0]

-----------------------------------------------------------------------------
\* Mutant: a pointer is kept if there is a key at all, whatever its name.
AnyPointerKept(file, key) == file.kind = "pointer" => Stored(key)

\* Only pointers are looked at; one is kept if it names the stored key.
Kept(file, key) == file.kind = "pointer" => Stored(key) /\ file.id = key.id

\* Before the game is started.  A kill on the way leaves some files as they were.
SanitizeXalStore(done) ==
    /\ session = "off"
    /\ before' = IF done = StoreFiles THEN [xal |-> xal, key |-> keyFile] ELSE NoBefore
    /\ LET junk == {f \in done : ~Kept(xal[f], keyFile)}
       IN  /\ xal' = [f \in StoreFiles |-> IF f \in junk THEN NoFile ELSE xal[f]]
           /\ bad' = [f \in StoreFiles |-> IF f \in junk THEN xal[f] ELSE bad[f]]
    /\ session' = IF done = StoreFiles THEN "reading" ELSE "off"
    /\ UNCHANGED <<keyFile, ecdsa, unfinished, generated, refused, flowVars>>

\* XAL finds a pointer and asks for the key; null would make it throw.
RestoreKeyAndId(f) ==
    /\ session = "reading" /\ xal[f].kind = "pointer"
    /\ IF Stored(keyFile)
       THEN ecdsa' = [held |-> TRUE, id |-> keyFile.id, key |-> keyFile.key] /\ UNCHANGED refused
       ELSE refused' = TRUE /\ UNCHANGED ecdsa
    /\ UNCHANGED <<session, keyFile, xal, bad, before, unfinished, generated, flowVars>>

EnumerationEnds ==
    /\ session = "reading"
    /\ \A f \in StoreFiles : xal[f].kind = "pointer" => ecdsa.held \/ refused
    /\ session' = "playing"
    /\ before' = NoBefore
    /\ UNCHANGED <<keyFile, xal, bad, ecdsa, unfinished, generated, refused, flowVars>>

-----------------------------------------------------------------------------
Playing == session = "playing" /\ ~flow.waiting

GenerateKey(id) ==
    /\ Playing /\ ~ecdsa.held /\ generated < MaxKeys
    /\ generated' = generated + 1
    /\ ecdsa' = [held |-> TRUE, id |-> id, key |-> generated + 1]
    /\ UNCHANGED <<session, keyFile, xal, bad, before, unfinished, refused, flowVars>>

\* An id of white space only falls back to the argument; with neither nothing is kept.
StoredId(id, argument) == IF id # NoId THEN id ELSE argument

\* fs::write empties the file first.
StoreKeyPairAndId(argument) ==
    /\ Playing /\ ecdsa.held /\ unfinished = NoKey
    /\ StoredId(ecdsa.id, argument) # NoId
    /\ unfinished' = [id |-> StoredId(ecdsa.id, argument), key |-> ecdsa.key]
    /\ keyFile' = Torn
    /\ UNCHANGED <<session, xal, bad, before, ecdsa, generated, refused, flowVars>>

\* 1 is returned whether the write failed or not, and XAL writes its pointer.
EcdsaStorePersist(ok, f) ==
    /\ Playing /\ unfinished # NoKey
    /\ keyFile' = IF ok THEN unfinished ELSE keyFile
    /\ xal' = [xal EXCEPT ![f] = Pointer(ecdsa.id)]
    /\ unfinished' = NoKey
    /\ UNCHANGED <<session, bad, before, ecdsa, generated, refused, flowVars>>

\* XAL writes and removes its tickets and tokens.
XalWrites(f, content) ==
    /\ Playing /\ unfinished = NoKey /\ xal[f].kind # "pointer" /\ xal[f] # content
    /\ xal' = [xal EXCEPT ![f] = content]
    /\ UNCHANGED <<session, keyFile, bad, before, ecdsa, unfinished, generated, refused, flowVars>>

-----------------------------------------------------------------------------
\* showUrl: what an earlier attempt left in the capture file is removed first.
\* On a terminal a thread is started that reads one line and then ends.
BrowserLaunchShowUrl(terminal) ==
    /\ Playing /\ unfinished = NoKey /\ flow.started < MaxFlows
    /\ flow' = [started |-> flow.started + 1, waiting |-> TRUE]
    /\ captured' = 0
    /\ readers' = IF terminal THEN readers \cup {flow.started + 1} ELSE readers
    /\ UNCHANGED <<heard, keyVars>>

\* The handler script writes the redirect of whatever tab was left open.
BrowserRedirects ==
    /\ flow.started > 0
    /\ captured' = flow.started
    /\ UNCHANGED <<flow, readers, heard, keyVars>>

\* Only an address is handed on; nobody calls XAL to cancel.
CallUrlOperationSucceeded(address) == heard' = [heard EXCEPT ![flow.started] = address]

FlowEnds(address) ==
    /\ flow' = [flow EXCEPT !.waiting = FALSE]
    /\ CallUrlOperationSucceeded(address)

UrlCaptured ==
    /\ flow.waiting /\ captured > 0
    /\ FlowEnds(captured)
    /\ captured' = 0
    /\ UNCHANGED <<readers, keyVars>>

\* The oldest reader takes the line, and the flow it belongs to may be over.
\* An empty line ends the flow as a timeout does: XAL hears nothing.
LinePasted(empty) ==
    /\ readers # {}
    /\ LET oldest == CHOOSE n \in readers : \A o \in readers : n <= o
       IN  /\ readers' = readers \ {oldest}
           /\ IF flow.waiting /\ oldest = flow.started
              THEN FlowEnds(IF empty THEN 0 ELSE flow.started)
              ELSE UNCHANGED <<flow, heard>>
    /\ UNCHANGED <<captured, keyVars>>

SignInTimesOut ==
    /\ flow.waiting
    /\ FlowEnds(0)
    /\ UNCHANGED <<captured, readers, keyVars>>

\* The files stay as they are; a write of the key file may be half done.
LauncherEnds ==
    /\ session # "off"
    /\ session' = "off"
    /\ before' = NoBefore
    /\ ecdsa' = NoEcdsa /\ unfinished' = NoKey /\ refused' = FALSE
    /\ flow' = [flow EXCEPT !.waiting = FALSE]
    /\ readers' = {}
    /\ UNCHANGED <<keyFile, xal, bad, generated, captured, heard>>

SignNext ==
    \/ \E done \in SUBSET StoreFiles : SanitizeXalStore(done)
    \/ \E f \in StoreFiles : RestoreKeyAndId(f)
    \/ EnumerationEnds
    \/ \E id \in KeyIds \cup {NoId} : GenerateKey(id) \/ StoreKeyPairAndId(id)
    \/ \E ok \in BOOLEAN, f \in StoreFiles : EcdsaStorePersist(ok, f)
    \/ \E f \in StoreFiles, kind \in {"none", "ticket"} : XalWrites(f, [NoFile EXCEPT !.kind = kind])
    \/ \E terminal \in BOOLEAN : BrowserLaunchShowUrl(terminal)
    \/ BrowserRedirects \/ UrlCaptured \/ SignInTimesOut
    \/ \E empty \in BOOLEAN : LinePasted(empty)
    \/ LauncherEnds

SignInSpec == SignInit /\ [][SignNext]_signVars

-----------------------------------------------------------------------------
(***************************************************************************)
(* However often the launcher is killed, and even when a write of the key  *)
(* failed unnoticed: a pointer XAL finds after the repair leads to the key *)
(* it names, so restoring never fails; the repair keeps a pointer that     *)
(* does and every ticket and token; and what XAL is told of a flow was     *)
(* caught after that flow had begun (xal_browser.rs, ecdsa_impl).          *)
(***************************************************************************)
SignInSound ==
    /\ ~refused
    /\ session = "reading" => \A f \in StoreFiles :
          /\ xal[f].kind = "pointer" => Stored(keyFile) /\ keyFile.id = xal[f].id
          /\ (before.xal[f].kind = "ticket" \/ before.xal[f] = Pointer(before.key.id)) => xal[f] = before.xal[f]
    /\ \A f \in StoreFiles : bad[f].kind \in {"none", "pointer"}
    /\ \A n \in DOMAIN heard : heard[n] \in {0, n}
=============================================================================
