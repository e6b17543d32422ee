-------------------------- MODULE ToolchainWrapper --------------------------
(***************************************************************************)
(* toolchain/toolchain-wrapper.c: the program that stands in for the cross  *)
(* compiler.  It puts the options of the target, chosen when it is compiled *)
(* itself, before the arguments it is called with, but none that would     *)
(* contradict these; it looks for directories of the build machine among   *)
(* them; and it executes the real compiler, possibly through ccache.        *)
(*                                                                         *)
(* An argument is a record of the option it begins with, "" for none, and  *)
(* of the rest: a value or a path, "" for nothing.                         *)
(***************************************************************************)
EXTENDS Integers, Sequences

CONSTANTS
    Options, Rests, \* what an argument can begin with, and what can follow
    Configs,    \* with which macros the wrapper is compiled
    Commands,   \* the arguments it is called with, without its own name
    Environments

Word(opt, rest) == [opt |-> opt, rest |-> rest]
Option(opt) == Word(opt, "")
Words == [opt : Options, rest : Rests]

(* What the wrapper itself adds. *)
ASSUME OptionsAssumption ==
    {"", "--sysroot", "-mfloat-abi=", "-mfp", "-march=", "-mcpu=", "-D", "-fPIE", "-pie",
     "-Wno-builtin-macro-redefined", "-Wl,-z,now", "-Wl,-z,relro"} \subseteq Options
ASSUME RestsAssumption ==
    {"", "ccache", "compiler", "sysroot", "soft", "softfp", "hard", "32", "target",
     "__TIME__", "__DATE__"} \subseteq Rests

Config == [
    ccache   : BOOLEAN,
    floatAbi : {"none", "soft", "softfp", "hard"}, \* BR_FLOAT_ABI
    fp32     : BOOLEAN,              \* BR_FP32_MODE
    arch     : BOOLEAN, cpu : BOOLEAN,
    always   : Seq(Words),           \* BR_ABI to BR_ADDITIONAL_CFLAGS
    epoch    : BOOLEAN,              \* BR_NEED_SOURCE_DATE_EPOCH
    pie      : BOOLEAN,
    relro    : {"none", "partial", "full"}]
Environment == [
    paranoid  : BOOLEAN,
    noCcache  : BOOLEAN,
    epoch     : {"unset", "valid", "invalid"}] \* SOURCE_DATE_EPOCH

(* The float ABI is chosen for ARM and C-SKY, the FP32 mode for MIPS:       *)
(* arch/Config.in.arm 920, arch/Config.in.csky 35, arch/Config.in.mips 197. *)
ASSUME ConfigsAssumption ==
    Configs \subseteq {c \in Config : c.floatAbi # "none" => ~c.fp32}
ASSUME CommandsAssumption == Commands \subseteq Seq(Words)
ASSUME EnvironmentsAssumption == Environments \subseteq Environment

VARIABLES
    config, argv, env, \* the input; argv without argv[0]
    args,     \* what is in the allocated vector
    step,     \* how far main has come
    i,        \* the argument that is scanned for unsafe paths
    opt,      \* and the unsafe option it is compared with
    reported, \* the arguments that were found to name an unsafe path
    started   \* what execv has been called with

input == <<config, argv, env>>
vars == <<input, args, step, i, opt, reported, started>>

EXCLUSIVE_ARGS == 10

argc == Len(argv) + 1
Given(opts) == \E j \in DOMAIN argv : argv[j].opt \in opts /\ argv[j].rest = ""
GivenWith(prefixes) == \E j \in DOMAIN argv : argv[j].opt \in prefixes

predef_args(c) ==
    (IF c.ccache THEN <<Word("", "ccache")>> ELSE <<>>)
    \o <<Word("", "compiler"), Option("--sysroot"), Word("", "sysroot")>> \o c.always

(* What malloc has been asked for. *)
MutRoom == Len(predef_args(config)) + Len(argv) + EXCLUSIVE_ARGS \* without argv[0]
Room == Len(predef_args(config)) + argc + EXCLUSIVE_ARGS

Init ==
    /\ config \in Configs /\ argv \in Commands /\ env \in Environments
    /\ args = <<>> /\ step = "alloc" /\ i = 1 /\ opt = 1 /\ reported = {} /\ started = <<>>

(* main goes on to the next part, with more words in the vector. *)
Then(next, more) ==
    /\ step' = next /\ args' = args \o more
    /\ UNCHANGED <<input, i, opt, reported, started>>

Exit(how) ==
    /\ step' = how
    /\ UNCHANGED <<input, args, i, opt, reported, started>>

-----------------------------------------------------------------------------

(* The base directory cannot be found, a path is too long, or there is no   *)
(* memory.                                                                 *)
CannotStart == step = "alloc" /\ Exit("failed")

Alloc == step = "alloc" /\ Then("float", predef_args(config))

FloatGiven == GivenWith({"-mfloat-abi="}) \/ Given({"-msoft-float", "-mhard-float"})
FloatAbi ==
    /\ step = "float"
    /\ Then("fp32", IF config.floatAbi # "none" /\ ~FloatGiven
                    THEN <<Word("-mfloat-abi=", config.floatAbi)>> ELSE <<>>)

(* The last one of -msoft-float and -mhard-float counts. *)
SoftFloat ==
    \E j \in DOMAIN argv :
        /\ argv[j] = Option("-msoft-float")
        /\ \A l \in DOMAIN argv : l > j => argv[l] # Option("-mhard-float")
Fp32 ==
    /\ step = "fp32"
    /\ Then("cpu", IF config.fp32 /\ ~SoftFloat THEN <<Word("-mfp", "32")>> ELSE <<>>)

ArchCpu ==
    LET arch == IF config.arch THEN <<Word("-march=", "target")>> ELSE <<>>
        cpu  == IF config.cpu THEN <<Word("-mcpu=", "target")>> ELSE <<>>
    IN  /\ step = "cpu"
        /\ Then("epoch", IF GivenWith({"-march=", "-mtune=", "-mcpu="}) THEN <<>> ELSE arch \o cpu)

(* parse_source_date_epoch_from_env. *)
EpochInvalid == step = "epoch" /\ config.epoch /\ env.epoch = "invalid" /\ Exit("failed")
Epoch ==
    /\ step = "epoch" /\ (config.epoch => env.epoch # "invalid")
    /\ Then("pie", IF config.epoch /\ env.epoch = "valid"
                   THEN <<Word("-D", "__TIME__"), Word("-D", "__DATE__"),
                          Option("-Wno-builtin-macro-redefined")>>
                   ELSE <<>>)

Kernel == Given({"-D__KERNEL__", "-D__UBOOT__"})
NoPie == Kernel \/ Given({"-r", "-Wl,-r", "-static", "-fno-pie", "-fno-PIE", "-no-pie"})
MutPie == \* only -fPIE is left out when PIE is disabled
    LET code == IF Given({"-fpie", "-fPIE", "-fpic", "-fPIC"}) THEN <<>> ELSE <<Option("-fPIE")>>
        link == IF Given({"-shared"}) THEN <<>> ELSE <<Option("-pie")>>
    IN  /\ step = "pie"
        /\ Then("relro", IF ~config.pie THEN <<>> ELSE IF NoPie THEN link ELSE code \o link)
Pie ==
    LET code == IF Given({"-fpie", "-fPIE", "-fpic", "-fPIC"}) THEN <<>> ELSE <<Option("-fPIE")>>
        link == IF Given({"-shared"}) THEN <<>> ELSE <<Option("-pie")>>
    IN  /\ step = "pie"
        /\ Then("relro", IF ~config.pie \/ NoPie THEN <<>> ELSE code \o link)

Relro ==
    LET now   == IF config.relro = "full" THEN <<Option("-Wl,-z,now")>> ELSE <<>>
        relro == IF config.relro # "none" THEN <<Option("-Wl,-z,relro")>> ELSE <<>>
    IN  step = "relro" /\ Then("scan", IF Kernel THEN <<>> ELSE now \o relro)

-----------------------------------------------------------------------------
(***************************************************************************)
(* The search for unsafe paths.  An argument is compared with all options;  *)
(* one whose path is the next argument moves on to that one, which is then *)
(* compared with the options that are left.                                *)
(***************************************************************************)
unsafe_opts == <<"-I", "-idirafter", "-iquote", "-isystem", "-L">>

(* unsafe_paths, and what only begins with the same characters. *)
Host == {"/usr/include"}
Begins == Host \cup {"/library"}

(* check_unsafe_path for argument j: whether main goes on. *)
Check(j, path, goon) ==
    /\ reported' = IF path \in Begins THEN reported \cup {j} ELSE reported
    /\ IF path \in Begins /\ env.paranoid
       THEN step' = "refused" /\ UNCHANGED <<i, opt>>
       ELSE UNCHANGED step /\ goon

PathOf(word) == IF word.opt = "" THEN word.rest ELSE word.opt
Matching == {o \in DOMAIN unsafe_opts : o >= opt /\ unsafe_opts[o] = argv[i].opt}

ScanNext ==
    /\ step = "scan" /\ i \in DOMAIN argv /\ Matching = {}
    /\ i' = i + 1 /\ opt' = 1
    /\ UNCHANGED <<input, args, step, reported, started>>

(* The path is in the same argument. *)
ScanJoined ==
    /\ step = "scan" /\ i \in DOMAIN argv
    /\ \E o \in Matching :
        /\ argv[i].rest # ""
        /\ Check(i, argv[i].rest, i' = i /\ opt' = o + 1)
    /\ UNCHANGED <<input, args, started>>

(* It is the next argument, if there is one. *)
MutScanSeparate == \* i++ once more
    /\ step = "scan" /\ i \in DOMAIN argv
    /\ \E o \in Matching :
        /\ argv[i].rest = ""
        /\ IF i + 1 \in DOMAIN argv
           THEN Check(i + 1, PathOf(argv[i + 1]), i' = i + 2 /\ opt' = o + 1)
           ELSE i' = i + 2 /\ UNCHANGED <<opt, step, reported>>
    /\ UNCHANGED <<input, args, started>>
ScanSeparate ==
    /\ step = "scan" /\ i \in DOMAIN argv
    /\ \E o \in Matching :
        /\ argv[i].rest = ""
        /\ IF i + 1 \in DOMAIN argv
           THEN Check(i + 1, PathOf(argv[i + 1]), i' = i + 1 /\ opt' = o + 1)
           ELSE i' = i + 2 /\ UNCHANGED <<opt, step, reported>>
    /\ UNCHANGED <<input, args, started>>

Forward == step = "scan" /\ i \notin DOMAIN argv /\ Then("exec", argv)

(* execv, without ccache if so wished; the rest of args is forgotten.       *)
Exec ==
    /\ step = "exec"
    /\ step' = "running"
    /\ started' = IF config.ccache /\ env.noCcache THEN Tail(args) ELSE args
    /\ UNCHANGED <<input, args, i, opt, reported>>

(* setenv or execv fails. *)
CannotExec == step = "exec" /\ Exit("failed")

Next ==
    \/ CannotStart \/ Alloc \/ FloatAbi \/ Fp32 \/ ArchCpu \/ EpochInvalid \/ Epoch \/ Pie \/ Relro
    \/ ScanNext \/ ScanJoined \/ ScanSeparate \/ Forward \/ Exec \/ CannotExec

Spec == Init /\ [][Next]_vars

-----------------------------------------------------------------------------

(* Lines 333-342: whatever is added and forwarded, with the terminating NULL *)
(* it fits into what was allocated.  The list of the extra arguments in    *)
(* lines 45-55 lacks -mfp.                                                 *)
FitsTheBuffer == Len(args) + (IF step \in {"exec", "running"} THEN 1 ELSE 0) <= Room

(* Lines 40-43: what the wrapper adds is not contradicted by what it is      *)
(* called with; gcc goes by the last word of a kind.  A program is only    *)
(* linked as position independent if its code is compiled like that, and   *)
(* it is if nobody has said otherwise.  What the target always adds counts  *)
(* there, but not against the FP32 mode: it is no argument of the caller.  *)
Own == SubSeq(args, Len(predef_args(config)) + 1, Len(args) - Len(argv))
LastOf(words, list) ==
    LET js == {j \in DOMAIN list : list[j] \in words}
    IN  IF js = {} THEN Option("") ELSE list[CHOOSE j \in js : \A l \in js : l <= j]
IsAdded(opts) == \E j \in DOMAIN Own : Own[j].opt \in opts
PicWords == {Option(o) : o \in {"-fpie", "-fPIE", "-fpic", "-fPIC"}}
NonPicWords == {Option(o) : o \in {"-fno-pie", "-fno-PIE"}}
NotLinkedPie == {"-shared", "-static", "-r", "-Wl,-r", "-no-pie"}
SaysOtherwise == Kernel \/ Given(NotLinkedPie) \/ LastOf(NonPicWords, args) # Option("")
LinksPie == Option("-pie") \in {args[j] : j \in DOMAIN args}
NothingContradicted ==
    step = "exec" =>
        /\ IsAdded({"-mfloat-abi="}) =>
              \A j \in DOMAIN argv :
                 argv[j].opt # "-mfloat-abi=" /\ argv[j] \notin {Option("-msoft-float"), Option("-mhard-float")}
        /\ IsAdded({"-mfp"}) =>
              LastOf({Option("-msoft-float"), Option("-mhard-float")}, argv) # Option("-msoft-float")
        /\ IsAdded({"-march=", "-mcpu="}) =>
              \A j \in DOMAIN argv : argv[j].opt \notin {"-march=", "-mtune=", "-mcpu="}
        /\ IsAdded({"-pie"}) =>
              ~Given(NotLinkedPie) /\ LastOf(PicWords \cup NonPicWords, args) \in PicWords
        /\ config.pie /\ ~SaysOtherwise => LinksPie

(* External: the directories gcc takes from its arguments, where the argument *)
(* after an option without a path is the path, whatever it is.             *)
DirOpts == {unsafe_opts[o] : o \in DOMAIN unsafe_opts}
Alone(word) == word.opt \in DirOpts /\ word.rest = ""
IsPath ==
    LET path[j \in DOMAIN argv] == j > 1 /\ Alone(argv[j - 1]) /\ ~path[j - 1]
    IN  path
UsesHost ==
    {j \in DOMAIN argv : argv[j].rest \in Host
                          /\ IF IsPath[j] THEN argv[j].opt = "" ELSE argv[j].opt \in DirOpts}

(* Lines 479-499: every directory of the build machine that gcc would use is *)
(* found, in both ways of giving it, and the paranoid wrapper then executes *)
(* nothing; it refuses nothing else than paths that begin like one.  No     *)
(* path looks like an option here: the wrapper would take it for one too.  *)
PathsAreNoOptions == \A j \in DOMAIN argv : IsPath[j] => argv[j].opt = ""
UnsafeFound ==
    PathsAreNoOptions =>
        /\ step \in {"exec", "running"} => UsesHost \subseteq reported /\ (env.paranoid => UsesHost = {})
        /\ \A j \in reported :
              argv[j].rest \in Begins /\ (IsPath[j] \/ argv[j].opt \in DirOpts)
=============================================================================
