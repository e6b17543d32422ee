---------------------------- MODULE KconfigTypes ----------------------------
(***************************************************************************)
(* What the programs of support/kconfig, and the files they write, speak    *)
(* of: symbols with their types, and lines that give them values.          *)
(***************************************************************************)
CONSTANT
    SymType    \* the type of each symbol: "boolean", "tristate", "int", "hex", "string"

Symbols == DOMAIN SymType
TypeOf(s) == IF s \in Symbols THEN SymType[s] ELSE "unknown"
Logical == {"boolean", "tristate"}

(* A file is a sequence of lines; a line is a symbol with its text, Off for  *)
(* "# CONFIG_X is not set".                                                *)
Off == "is not set"

Line(s, text) == [sym |-> s, text |-> text]
Missing == <<Line("", "no file")>>
=============================================================================
