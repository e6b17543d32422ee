-------------------------- MODULE MCKconfigSession --------------------------
(***************************************************************************)
(* Small Kconfig files for TLC.                                            *)
(***************************************************************************)
EXTENDS KconfigSession, TLC

Entry(sym, kind, parent, dep, props, prompt) ==
    [sym |-> sym, kind |-> kind, parent |-> parent, dep |-> dep, vis |-> NULL,
     props |-> props, prompt |-> prompt]
Config(sym, parent, dep, props) == \* with a prompt
    Entry(sym, "config", parent, dep, <<Prop("symbol", sym, NULL), Prop("prompt", "", NULL)>> \o props, 2)
Hidden(sym, parent, dep, props) ==
    Entry(sym, "config", parent, dep, <<Prop("symbol", sym, NULL)>> \o props, 0)
Choice(sym, parent, dep, props) ==
    Entry(sym, "choice", parent, dep, <<Prop("prompt", "", NULL)>> \o props, 1)
Menu(parent, dep) == Entry("", "menu", parent, dep, <<Prop("menu", "", NULL)>>, 1)
If(parent, dep) == Entry("", "if", parent, dep, <<>>, 0)
Default(e, cond) == Prop("default", e, cond)
Select(s, cond) == Prop("select", s, cond)
Imply(s, cond) == Prop("imply", s, cond)
Within(lo, hi, cond) == Prop("range", <<lo, hi>>, cond)
Root == Menu(0, NULL)

Menuconfig(sym, parent, dep) == [Config(sym, parent, dep, <<>>) EXCEPT !.kind = "menuconfig"]
MenuVisibleIf(parent, e) == [Menu(parent, NULL) EXCEPT !.vis = e]
Comment(parent, dep) == Entry("", "comment", parent, dep, <<Prop("comment", "", NULL)>>, 1)
Y == Sym("y")

(* A package with a library it selects and a number, and a choice.          *)
Packages == <<Root,
    Config("P", 1, NULL, <<Select("L", NULL)>>),
    Config("L", 1, NULL, <<>>),
    Config("N", 1, Sym("P"), <<Default(Sym("9"), NULL), Within("1", "7", Sym("L"))>>),
    Choice("C", 1, NULL, <<Default(Sym("V2"), Sym("P"))>>),
    Config("V1", 5, NULL, <<>>),
    Config("V2", 5, Sym("L"), <<>>)>>

(* The next version: the package is gone, the library has an option. *)
Upgraded == <<Root,
    Config("L", 1, NULL, <<Default(Y, NULL)>>),
    Config("B", 1, Sym("L"), <<Default(Y, NULL)>>),
    Hidden("S", 1, NULL, <<Default(Sym("a"), Sym("B"))>>)>>

(* Modules: an implication, a selection, a choice of modules. *)
WithModules == <<Root,
    Config("MODULES", 1, NULL, <<Default(Y, NULL)>>),
    Config("T", 1, NULL, <<Imply("I", NULL), Select("U", Sym("I"))>>),
    Config("I", 1, NULL, <<>>),
    Hidden("U", 1, NULL, <<>>),
    Choice("TC", 1, Sym("T"), <<>>),
    Config("W1", 6, NULL, <<>>),
    Config("W2", 6, NULL, <<>>),
    Config("B", 1, Sym("T"), <<Default(Sym("T"), NULL)>>)>>

(* Menus of all kinds, and what becomes a submenu. *)
Menus == <<Root,
    Config("P", 1, NULL, <<>>),
    MenuVisibleIf(1, Sym("P")),
    Config("B", 3, NULL, <<Default(Y, NULL)>>),
    Menu(3, Sym("B")),
    Config("S", 5, NULL, <<Default(Sym("a"), NULL)>>),
    If(1, Not(Sym("P"))),
    Menuconfig("D", 7, NULL),
    Config("X", 7, Sym("D"), <<Default(Sym("0x5"), NULL), Within("0x1", "0x9", NULL)>>),
    Hidden("H", 7, NULL, <<Default(Sym("D"), NULL)>>),
    Comment(1, Sym("H")),
    Config("E", 1, Two("or", Sym("H"), Sym("B")), <<Select("L", Not(Sym("D")))>>),
    Hidden("L", 1, NULL, <<>>)>>

(* All dependencies of two symbols, a choice and one of its two values.     *)
Loops == {"", "P", "L", "V1", "V2"} \X {"", "P", "V1"} \X {"", "P", "L"} \X {"", "L", "V1"} \X BOOLEAN
Looping(l) ==
    LET Dep(s) == IF s = "" THEN NULL ELSE Sym(s)
    IN  <<Root,
          Config("P", 1, Dep(l[1]), <<>>),
          Config("L", 1, Dep(l[2]), IF l[5] THEN <<Select("P", NULL)>> ELSE <<>>),
          Choice("C", 1, Dep(l[3]), <<>>),
          Config("V1", 4, NULL, <<>>),
          Config("V2", 4, Dep(l[4]), <<>>)>>
Source(nodes) == [nodes |-> nodes, optional |-> {}, allno |-> {"L"}]
MCSources == <<"packages">> :> Source(Packages) @@ <<"upgraded">> :> Source(Upgraded)
             @@ <<"modules">> :> Source(WithModules) @@ <<"menus">> :> Source(Menus)
             @@ [l \in Loops |-> Source(Looping(l))]
MCOrder == <<"packages">> :> <<"V2", "N", "C", "L", "V1", "P">>
           @@ <<"upgraded">> :> <<"S", "B", "L">>
           @@ <<"modules">> :> <<"W2", "U", "T", "MODULES", "TC", "I", "B", "W1">>
           @@ <<"menus">> :> <<"X", "L", "H", "S", "P", "E", "B", "D">>
           @@ [l \in Loops |-> <<"V1", "L", "C", "P", "V2">>]
MCUpgrades == <<"packages">> :> {<<"upgraded">>} @@ [t \in DOMAIN MCSources |-> {}]
L(s, t) == Line(s, t)
MCConfigs == <<"packages">> :> {<<L("P", "y"), L("N", "9"), L("V1", "y")>>}
             @@ <<"modules">> :> {Missing, <<L("MODULES", "y"), L("T", "m"), L("W1", "m"), L("W2", "y")>>}
             @@ <<"menus">> :> {Missing, <<L("P", Off), L("D", "y"), L("X", "0x5"), L("N", "5")>>}
             @@ [t \in DOMAIN MCSources |-> {Missing}]
MCAutos == <<"packages">> :> <<L("N", "5"), L("L", "y"), L("V1", "y"), L("P", "y")>>
           @@ [t \in DOMAIN MCSources |-> Missing]
MCMaxRuns == <<"packages">> :> 2 @@ <<"modules">> :> 1 @@ <<"menus">> :> 1 @@ [t \in DOMAIN MCSources |-> 0]

MCFrontEnds == <<"packages">> :> {"mconf"} @@ <<"upgraded">> :> {"mconf"}
               @@ [t \in DOMAIN MCSources |-> {"mconf", "nconf", "gconf"}]
MCMaxEdits == <<"packages">> :> <<1, 2>> @@ [t \in DOMAIN MCSources |-> <<2, 2>>]
MCConfModes == <<"packages">> :> {"oldconfig", "syncconfig", "savedefconfig", "defconfig", "randconfig"}
               @@ <<"upgraded">> :> {"oldconfig", "syncconfig"}
               @@ <<"modules">> :> {"oldconfig", "syncconfig", "allmodconfig", "alldefconfig", "olddefconfig"}
               @@ <<"menus">> :> {"oldaskconfig", "oldconfig", "syncconfig", "listnewconfig", "allnoconfig", "allyesconfig"}
               @@ [t \in DOMAIN MCSources |-> {}]

MCSymType == [s \in {"P", "L", "C", "V1", "V2", "B", "D", "E", "H", "MODULES"} |-> "boolean"]
             @@ [s \in {"T", "I", "U", "TC", "W1", "W2"} |-> "tristate"]
             @@ "N" :> "int" @@ "X" :> "hex" @@ "S" :> "string"
MCNumber == "1" :> 1 @@ "5" :> 5 @@ "7" :> 7 @@ "9" :> 9 @@ "0x1" :> 1 @@ "0x5" :> 5 @@ "0x7" :> 7 @@ "0x9" :> 9
MCRank == "" :> 0 @@ "1" :> 1 @@ "5" :> 2 @@ "7" :> 3 @@ "9" :> 4 @@ "m" :> 5 @@ "n" :> 6 @@ "y" :> 7
MCIntText == 1 :> "1" @@ 5 :> "5" @@ 7 :> "7" @@ 9 :> "9"
MCHexText == 1 :> "0x1" @@ 5 :> "0x5" @@ 7 :> "0x7" @@ 9 :> "0x9"
Drawn == [s \in {"P", "L", "C", "V1", "V2"} |-> yes]
MCRandomValues == <<"packages">> :> {Drawn, [Drawn EXCEPT !["P"] = no, !["C"] = mod]}
                  @@ [t \in DOMAIN MCSources |-> {}]
MCRandomPicks == <<"packages">> :> {"C" :> "V1", "C" :> "V2"} @@ [t \in DOMAIN MCSources |-> {}]
=============================================================================
