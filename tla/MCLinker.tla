------------------------------ MODULE MCLinker ------------------------------
(***************************************************************************)
(* Small worlds for TLC: which files exist, what they need, define and     *)
(* import.                                                                 *)
(***************************************************************************)
EXTENDS Linker

CONSTANTS t1, t2,
          app, alias, dep, libc, \* an application, its soname, its dependency, a skipped one
          game, fmod, sqlite,  \* the libraries with loaders of their own
          sa, sd, sc, dlo, sq  \* symbols

\* The application defines sa and calls sd of dep, which it needs besides libc;
\* the game defines sa and calls it, dlopen and sd; fmod and dep call dlopen and sc,
\* which only the host has; sqlite publishes its own symbol and sd.
MCSoname == [n \in Elf |-> IF n = app THEN alias ELSE n]
MCNeeded == [n \in Elf |-> IF n \in {app, game} THEN <<libc, dep>> ELSE <<>>]
MCDefines == [n \in Elf |-> CASE n \in {app, game} -> {sa} [] n = dep -> {sd}
                              [] n = sqlite -> {sq, sd} [] OTHER -> {}]
MCImports == [n \in Elf |-> CASE n = app -> {sa, sd} [] n = game -> {sa, sd, dlo}
                              [] n \in {dep, fmod} -> {sc, dlo} \cap Syms [] OTHER -> {}]
=============================================================================
