----------------------------- MODULE TextInput ------------------------------
(***************************************************************************)
(* text_input_handler.rs: the text the game edits, as UTF-8, with a caret  *)
(* and the other end of the selection, each kept as a byte position and as *)
(* a number of characters.  Slicing inside a character panics, which ends  *)
(* the program.                                                            *)
(***************************************************************************)
EXTENDS Integers, Sequences, FiniteSets, SequencesExt

CONSTANTS Letters, Separators,    \* characters
          Width,                  \* bytes of each
          MaxText                 \* bound: characters in the text

\* Every character takes a byte at least.
ASSUME TextAssumption ==
    /\ MaxText \in Nat
    /\ \A c \in Letters \cup Separators : Width[c] \in Nat \ {0}

VARIABLES text, enabled,
          caret, anchor,          \* current_text_position and current_text_copy_position
          keys,                   \* alt_pressed, shift_pressed
          keepOnce,               \* keep_once
          told,                   \* what the game heard last: text and caret
          down,                   \* the key held down
          releaseMoved,           \* ghost: did a key that went up move the caret
          crashed                 \* a panic

textVars == <<text, enabled, caret, anchor, keys, keepOnce, told, down, releaseMoved, crashed>>

Chars == Letters \cup Separators
Start == [byte |-> 0, utf |-> 0]

\* The bytes of the first n characters, for each n.
Bytes(s) ==
    LET sum[n \in 0 .. Len(s)] == IF n = 0 THEN 0 ELSE sum[n - 1] + Width[s[n]]
    IN  sum
ByteLength(s) == Bytes(s)[Len(s)]
\* The characters before byte p, when p is on a boundary.
IsBoundary(s, p) == \E n \in 0 .. Len(s) : Bytes(s)[n] = p
CharsBefore(s, p) == CHOOSE n \in 0 .. Len(s) : Bytes(s)[n] = p
EndOf(s) == [byte |-> ByteLength(s), utf |-> Len(s)]
AtByte(s, p) == [byte |-> p, utf |-> CharsBefore(s, p)]
AtChar(s, n) == [byte |-> Bytes(s)[n], utf |-> n]
\* utf8_char_len, which slices at p first.
CharLen(s, p) == IF p >= ByteLength(s) THEN 0 ELSE Width[s[CharsBefore(s, p) + 1]]
SlicePanics(s, p) == p < ByteLength(s) /\ ~IsBoundary(s, p)

TextInit ==
    /\ text = <<>> /\ enabled = FALSE
    /\ caret = Start /\ anchor = Start
    /\ keys = [alt |-> FALSE, shift |-> FALSE]
    /\ keepOnce = FALSE
    /\ told = [text |-> <<>>, caret |-> 0]
    /\ down = "none"
    /\ releaseMoved = FALSE
    /\ crashed = FALSE

\* prev_word_boundary: back over separators but for the first character, then
\* over letters.
BackOver(s, n, class, floor) ==
    LET back[k \in 0 .. n] == IF k > floor /\ s[k] \in class THEN back[k - 1] ELSE k
    IN  back[n]
WordStart(s, n) ==
    LET w == BackOver(s, BackOver(s, n, Separators, 1), Letters, 0)
    IN IF w < n /\ s[w + 1] \notin Separators THEN w ELSE n

Without(s, from, to) == SubSeq(s, 1, from) \o SubSeq(s, to + 1, Len(s))

---------------------------------------------------------------------------
(* The game *)

\* update_text_state: both ends after the text, and the game told.
Replaced(t) ==
    /\ text' = t
    /\ caret' = EndOf(t) /\ anchor' = EndOf(t)
    /\ told' = [text |-> t, caret |-> Len(t)]

Enable(t) ==
    /\ ~crashed
    /\ Replaced(IF keepOnce /\ text # <<>> THEN Append(t, Last(text)) ELSE t)
    /\ enabled' = TRUE /\ keepOnce' = FALSE
    /\ UNCHANGED <<keys, down, releaseMoved, crashed>>
Update(t) ==
    /\ ~crashed
    /\ Replaced(t)
    /\ UNCHANGED <<enabled, keys, keepOnce, down, releaseMoved, crashed>>
Disable ==
    /\ ~crashed
    /\ text' = IF keepOnce THEN text ELSE <<>>
    /\ caret' = Start /\ anchor' = Start /\ enabled' = FALSE
    /\ UNCHANGED <<keys, keepOnce, told, down, releaseMoved, crashed>>
SetKeepLastCharOnce ==
    /\ ~crashed /\ ~keepOnce /\ keepOnce' = TRUE
    /\ UNCHANGED <<text, enabled, caret, anchor, keys, told, down, releaseMoved, crashed>>

TellCaret(c) == told' = [told EXCEPT !.caret = c.utf]

\* set_cursor_position, in characters; a negative one is the end.
SetCursorPosition(pos) ==
    /\ ~crashed
    /\ LET c == IF pos < 0 \/ pos > Len(text) THEN EndOf(text) ELSE AtChar(text, pos) IN
       /\ caret' = c
       /\ anchor' = IF keys.shift THEN anchor ELSE c
       /\ TellCaret(c)
    /\ UNCHANGED <<text, enabled, keys, keepOnce, down, releaseMoved, crashed>>

---------------------------------------------------------------------------
(* The keyboard *)

Panic == crashed' = TRUE /\ UNCHANGED <<text, enabled, caret, anchor, keys, keepOnce, told, down, releaseMoved>>

\* After every edit the selection is empty and the game is told.
Edited(s, c) ==
    /\ text' = s /\ caret' = c
    /\ anchor' = IF anchor.byte # c.byte THEN c ELSE anchor
    /\ told' = [text |-> s, caret |-> c.utf]
    /\ UNCHANGED <<enabled, keys, keepOnce, down, releaseMoved, crashed>>

\* A disabled handler passes what is typed to the game as its text.
TypedWhileDisabled(v) ==
    /\ ~crashed /\ ~enabled
    /\ told' = [told EXCEPT !.text = v]
    /\ UNCHANGED <<text, enabled, caret, anchor, keys, keepOnce, down, releaseMoved, crashed>>
Typed(v) ==
    /\ ~crashed /\ enabled /\ Len(text) + Len(v) <= MaxText
    /\ LET n == CharsBefore(text, caret.byte)
           s == SubSeq(text, 1, n) \o v \o SubSeq(text, n + 1, Len(text))
       IN Edited(s, AtByte(s, caret.byte + ByteLength(v)))
\* Backspace asks for the length of the character at the byte before the
\* caret, so a wide character before it panics.
Backspace ==
    /\ ~crashed /\ enabled
    /\ LET n == CharsBefore(text, caret.byte) IN
       CASE caret.byte = 0 -> Edited(text, caret)
         [] keys.alt /\ caret.byte > 0 ->
              LET w == WordStart(text, n) IN
              IF w < n THEN Edited(Without(text, w, n), AtChar(text, w)) ELSE Edited(text, caret)
         [] ~keys.alt /\ caret.byte > 0 ->
              IF SlicePanics(text, caret.byte - 1) THEN Panic
              ELSE LET p == caret.byte - CharLen(text, caret.byte - 1)
                   IN Edited(Without(text, CharsBefore(text, p), n), [byte |-> p, utf |-> caret.utf - 1])
DeleteForward ==
    /\ ~crashed /\ enabled
    /\ LET n == CharsBefore(text, caret.byte) IN
       Edited(IF n < Len(text) THEN Without(text, n, n + 1) ELSE text, caret)

\* One character to the right or to the left, like backspace.
Step(right) ==
    IF right THEN [byte |-> caret.byte + CharLen(text, caret.byte),
                   utf |-> caret.utf + IF caret.byte < ByteLength(text) THEN 1 ELSE 0]
    ELSE IF caret.byte = 0 THEN caret
    ELSE [byte |-> caret.byte - CharLen(text, caret.byte - 1), utf |-> caret.utf - 1]

\* The caret moved: without shift the selection goes with it, and the game hears.
\* Mutant: the game is not told of a caret that moved with shift.
TellPlain(c, a, shift) ==
    /\ caret' = c /\ anchor' = a
    /\ IF shift THEN UNCHANGED told ELSE TellCaret(c)
MoveTo(c, a, shift) ==
    /\ caret' = c /\ anchor' = a
    /\ TellCaret(c)

\* An arrow without shift collapses a selection, and otherwise moves only the
\* caret: the selection's other end stays behind.
Arrow(right, shift) ==
    IF ~shift /\ anchor.byte # caret.byte
    THEN LET further == IF right THEN anchor.byte > caret.byte ELSE anchor.byte < caret.byte
             c == AtByte(text, IF further THEN anchor.byte ELSE caret.byte)
         IN MoveTo(c, c, shift) /\ UNCHANGED crashed
    ELSE IF ~right /\ caret.byte > 0 /\ SlicePanics(text, caret.byte - 1)
    THEN crashed' = TRUE /\ UNCHANGED <<caret, anchor, told>>
    ELSE MoveTo(Step(right), anchor, shift) /\ UNCHANGED crashed
Jump(c, shift) == MoveTo(c, IF shift THEN caret ELSE c, shift) /\ UNCHANGED crashed

\* on_key_pressed takes action 1 for a release: window_callbacks sends 1 for
\* a repeat and 2 for a release.  Up and down go left.
OnKeyPressed(key, action, mods) ==
    /\ ~crashed
    /\ IF action = "press" THEN down = "none" ELSE down = key
    /\ down' = IF action = "release" THEN "none" ELSE key
    /\ IF action = "repeat" \/ mods = "ctrl"
       THEN UNCHANGED <<keys, caret, anchor, told, crashed>>
       ELSE /\ keys' = [alt |-> mods = "alt", shift |-> mods = "shift"]
            /\ CASE key \in {"left", "up", "down", "right"} -> Arrow(key = "right", mods = "shift")
                 [] key = "home" -> Jump(Start, mods = "shift")
                 [] key = "end" -> Jump(EndOf(text), mods = "shift")
                 [] key = "other" -> UNCHANGED <<caret, anchor, told, crashed>>
    /\ releaseMoved' = (releaseMoved \/ (action = "release" /\ caret' # caret))
    /\ UNCHANGED <<text, enabled, keepOnce>>

TextNext ==
    \/ \E t \in {<<>>} \cup {<<c>> : c \in Chars} :
          Enable(t) \/ Update(t) \/ (t # <<>> /\ (Typed(t) \/ TypedWhileDisabled(t)))
    \/ Disable \/ SetKeepLastCharOnce \/ Backspace \/ DeleteForward
    \/ \E pos \in -1 .. MaxText : SetCursorPosition(pos)
    \/ \E key \in {"left", "up", "right", "home", "end", "other"},
          action \in {"press", "repeat", "release"}, mods \in {"none", "shift", "alt", "ctrl"} :
             OnKeyPressed(key, action, mods)

TextSpec == TextInit /\ [][TextNext]_textVars

---------------------------------------------------------------------------
(* Correctness *)

\* The caret is between two characters, both of its positions say the same,
\* and the selection ends between two characters of the text.
CaretConsistent ==
    /\ IsBoundary(text, caret.byte) /\ caret.utf = CharsBefore(text, caret.byte)
    /\ IsBoundary(text, anchor.byte)

\* The game shows what the handler holds.
GameAgrees == enabled => told = [text |-> text, caret |-> caret.utf]

\* Nothing panics while all the characters have one byte.
NarrowTextSafe == crashed => \E i \in DOMAIN text : Width[text[i]] > 1

\* What is edited stays well formed and in step with the game
\* (text_input_handler.rs).
TextSound == CaretConsistent /\ GameAgrees /\ NarrowTextSafe

\* A key that goes up moves nothing: on_key_pressed returns at once with the
\* comment "RELEASE" (text_input_handler.rs).
ReleaseMovesNothing == ~releaseMoved
=============================================================================
