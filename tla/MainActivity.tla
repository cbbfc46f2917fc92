---------------------------- MODULE MainActivity ----------------------------
(***************************************************************************)
(* main_activity.rs: the natives of the game's MainActivity that keep      *)
(* state.  The identity (who is signed in, a refresh token, a session) is  *)
(* kept in memory and in identity.json; threads of the game set, clear and *)
(* read it, and the launcher may be killed.  The on-screen keyboard is     *)
(* shown and hidden through the text input handler.                        *)
(***************************************************************************)
EXTENDS Naturals, Sequences, SequencesExt

CONSTANTS
    IdentityThreads,
    Accounts,      \* who signs in, a set of numbers above 0
    MaxSets        \* bound: calls that change the identity

ASSUME ActivityAssumption == "nobody" \notin IdentityThreads

VARIABLES
    known,         \* IDENTITY: field -> value, or NotLoaded
    identityFile,  \* identity.json
    writing,       \* who holds the lock while it writes the file
    image,         \* thread -> what it is writing
    steps,         \* thread -> what its call still has to do
    unsure,        \* ghost: the file could not be read or written, so it may differ
    sets,          \* calls so far
    keyboard,      \* the handler is enabled; IGNORE_NEXT_HIDE_KEYBOARD
    wanted         \* ghost: the last thing the game asked of the keyboard

identityVars == <<known, identityFile, writing, image, steps, unsure, sets>>
activityVars == <<identityVars, keyboard, wanted>>

-----------------------------------------------------------------------------
\* setLoginInformation sets the first four, clearLoginInformation clears them.
LoginFields == <<"access_token", "client_id", "profile_id", "profile_name">>
Fields == Range(LoginFields) \cup {"refresh_token", "session"}

NoIdentity == [f \in Fields |-> 0]
NotLoaded == [f \in {} |-> 0]
HalfWritten == [f \in {"torn"} |-> 0]

ActivityInit ==
    /\ known = NotLoaded
    /\ identityFile = NotLoaded
    /\ writing = "nobody"
    /\ image = [t \in IdentityThreads |-> NotLoaded]
    /\ steps = [t \in IdentityThreads |-> << >>]
    /\ unsure = FALSE
    /\ sets = 0
    /\ keyboard = [enabled |-> FALSE, ignore |-> FALSE]
    /\ wanted = "hidden"

\* What the getters answer.
IdentityShown(f) == IF known = NotLoaded THEN 0 ELSE known[f]

KeyboardUnchanged == UNCHANGED <<keyboard, wanted>>

\* The first use of any native loads the file; one that does not parse counts as empty.
LoadIdentityStore ==
    /\ known = NotLoaded
    /\ known' = IF identityFile \in {NotLoaded, HalfWritten} THEN NoIdentity ELSE identityFile
    /\ unsure' = (identityFile \in {NotLoaded, HalfWritten})
    /\ UNCHANGED <<identityFile, writing, image, steps, sets>> /\ KeyboardUnchanged

Idle(t) == known # NotLoaded /\ steps[t] = << >> /\ sets < MaxSets /\ writing = "nobody"

\* All fields of a login change under one lock, before a save that locks again.
WithFields(fields, value) == [f \in Fields |-> IF f \in fields THEN value ELSE known[f]]

SetFields(t, fields, value) ==
    /\ Idle(t)
    /\ known' = WithFields(fields, value)
    /\ steps' = [steps EXCEPT ![t] = <<"save">>]
    /\ sets' = sets + 1
    /\ UNCHANGED <<identityFile, writing, image, unsure>> /\ KeyboardUnchanged

SetLoginInformation(t, account) == SetFields(t, Range(LoginFields), account)
SetRefreshToken(t, value) == SetFields(t, {"refresh_token"}, value)
SetSession(t, value) == SetFields(t, {"session"}, value)

\* One lock for each field; the refresh token and the session stay.
ClearLoginInformation(t) ==
    /\ Idle(t)
    /\ steps' = [steps EXCEPT ![t] = LoginFields \o <<"save">>]
    /\ sets' = sets + 1
    /\ UNCHANGED <<known, identityFile, writing, image, unsure>> /\ KeyboardUnchanged

ClearNext(t) ==
    /\ Len(steps[t]) > 1 /\ writing = "nobody"
    /\ known' = WithFields({Head(steps[t])}, 0)
    /\ steps' = [steps EXCEPT ![t] = Tail(steps[t])]
    /\ UNCHANGED <<identityFile, writing, image, unsure, sets>> /\ KeyboardUnchanged

\* Mutant: a copy is taken and the lock is given back before the file is written.
GivesBack(t) == "nobody"

\* The guard of `save(&store.lock().unwrap().clone())` lives until the call returns.
HoldsWhileSaving(t) == t

\* fs::write empties the file first - if it can be opened.
SaveBegins(t, opened) ==
    /\ steps[t] = <<"save">> /\ writing = "nobody"
    /\ IF opened
       THEN /\ identityFile' = HalfWritten
            /\ image' = [image EXCEPT ![t] = known]
            /\ writing' = HoldsWhileSaving(t)
            /\ steps' = [steps EXCEPT ![t] = <<"write">>]
            /\ UNCHANGED unsure
       ELSE /\ steps' = [steps EXCEPT ![t] = << >>]
            /\ unsure' = TRUE
            /\ UNCHANGED <<identityFile, image, writing>>
    /\ UNCHANGED <<known, sets>> /\ KeyboardUnchanged

SaveIdentityStore(t, ok) ==
    /\ steps[t] = <<"write">>
    /\ identityFile' = IF ok THEN image[t] ELSE identityFile
    /\ unsure' = ~ok
    /\ image' = [image EXCEPT ![t] = NotLoaded]
    /\ steps' = [steps EXCEPT ![t] = << >>]
    /\ writing' = "nobody"
    /\ UNCHANGED <<known, sets>> /\ KeyboardUnchanged

ActivityKilled ==
    /\ known # NotLoaded
    /\ known' = NotLoaded
    /\ writing' = "nobody"
    /\ image' = [t \in IdentityThreads |-> NotLoaded]
    /\ steps' = [t \in IdentityThreads |-> << >>]
    /\ unsure' = FALSE
    /\ keyboard' = [enabled |-> FALSE, ignore |-> FALSE]
    /\ wanted' = "hidden"
    /\ UNCHANGED <<identityFile, sets>>

-----------------------------------------------------------------------------
\* The text the game passes may be unreadable: then the flag is cleared, no more.
ShowKeyboard(readable) ==
    /\ keyboard' = [enabled |-> keyboard.enabled \/ readable, ignore |-> FALSE]
    /\ wanted' = "shown"
    /\ UNCHANGED identityVars

\* The game hides the keyboard right after it updated the text; that is not meant.
UpdateTextboxText ==
    /\ keyboard' = [keyboard EXCEPT !.ignore = TRUE]
    /\ wanted' = "updated"
    /\ UNCHANGED identityVars

\* getCaretPosition and getCursorPosition.
GetCaretPosition ==
    /\ keyboard' = [keyboard EXCEPT !.ignore = FALSE]
    /\ wanted' = "shown"
    /\ UNCHANGED identityVars

HideKeyboard ==
    /\ keyboard' = [enabled |-> keyboard.ignore /\ keyboard.enabled, ignore |-> FALSE]
    /\ wanted' = IF wanted = "updated" THEN "kept" ELSE "hidden"
    /\ UNCHANGED identityVars

ActivityNext ==
    \/ LoadIdentityStore
    \/ \E t \in IdentityThreads :
          \/ \E a \in Accounts : SetLoginInformation(t, a) \/ SetRefreshToken(t, a) \/ SetSession(t, a)
          \/ ClearLoginInformation(t) \/ ClearNext(t)
          \/ \E ok \in BOOLEAN : SaveBegins(t, ok) \/ SaveIdentityStore(t, ok)
    \/ ActivityKilled
    \/ \E readable \in BOOLEAN : ShowKeyboard(readable)
    \/ UpdateTextboxText \/ GetCaretPosition \/ HideKeyboard

ActivitySpec == ActivityInit /\ [][ActivityNext]_activityVars

-----------------------------------------------------------------------------
(***************************************************************************)
(* Whatever threads set and clear the identity and whenever the launcher   *)
(* is killed: two accounts are never mixed in one login, in memory or on   *)
(* disk; once every call has returned and the disk took the last write the *)
(* file holds what memory holds, not an older snapshot (main_activity.rs,  *)
(* "so tokens survive restarts"); and one update of the text excuses one   *)
(* hideKeyboard at most.                                                   *)
(***************************************************************************)
ActivitySound ==
    /\ \A f, g \in Range(LoginFields) :
          /\ IdentityShown(f) \in {0, IdentityShown(g)} \/ IdentityShown(g) = 0
          /\ f \in DOMAIN identityFile /\ g \in DOMAIN identityFile =>
                identityFile[f] \in {0, identityFile[g]} \/ identityFile[g] = 0
    /\ known # NotLoaded /\ ~unsure /\ (\A t \in IdentityThreads : steps[t] = << >>) => identityFile = known
    /\ keyboard.enabled => wanted # "hidden"
=============================================================================
