---------------------------- MODULE MCModLoader ----------------------------
(***************************************************************************)
(* Mods for TLC.  m1 needs m2, and m2 needs m1 only in the cyclic world;   *)
(* m3 needs both the game and m1, and comes first in the directory. The    *)
(* game has a symbol nobody defines, as it has in a healthy installation,  *)
(* and so has the library util of the background.                          *)
(***************************************************************************)
EXTENDS ModLoader

CONSTANTS main, t2,
          m1, m2, m3, p1, p2, p3, game, util, \* mods, their paths, libraries
          preinit, init, fun, missing,         \* symbols
          Cyclic,     \* whether m2 needs m1
          Lacking,    \* mods without entry points
          Unbindable  \* mods that import a symbol nobody defines

MCPath == [m \in Mods |-> CASE m = m1 -> p1 [] m = m2 -> p2 [] m = m3 -> p3]
FileOf(n) == {m \in Mods : MCPath[m] = n}
MCSoname == [n \in Elf |-> CASE n = p1 -> m1 [] n = p2 -> m2 [] n = p3 -> m3 [] OTHER -> n]
MCNeeded == [n \in Elf |-> CASE n = p1 -> <<m2>>
                             [] n = p2 -> IF Cyclic THEN <<m1>> ELSE <<>>
                             [] n = p3 -> <<game, m1>>
                             [] OTHER -> <<>>]
MCDefines == [n \in Elf |-> (IF n \in {p1, p2, p3} /\ FileOf(n) \cap Lacking = {}
                               THEN {preinit, init} ELSE {})
                            \cup (IF n \in {p2, game} THEN {fun} ELSE {})]
MCImports == [n \in Elf |-> (IF n \in {p1, p3} THEN {fun} ELSE {})
                            \cup (IF n \in {game, util} \/ FileOf(n) \cap Unbindable # {}
                                    THEN {missing} ELSE {})]
MCModOrder == <<m3, m1, m2>>
=============================================================================
