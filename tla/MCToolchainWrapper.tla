------------------------- MODULE MCToolchainWrapper -------------------------
(***************************************************************************)
(* The wrapper of four targets, called with up to three arguments of a kind *)
(* and two of any kinds.                                                   *)
(***************************************************************************)
EXTENDS ToolchainWrapper

MCOptions == {
    "", "--sysroot", "-mfloat-abi=", "-mfp", "-march=", "-mcpu=", "-D", "-fPIE", "-pie",
    "-Wno-builtin-macro-redefined", "-Wl,-z,now", "-Wl,-z,relro", "-EL", "-m64", "-msoft-float",
    "-mhard-float", "-mtune=", "-shared", "-static", "-fPIC", "-fno-pie", "-D__KERNEL__", "-I",
    "-isystem", "-L"}
MCRests == {
    "", "ccache", "compiler", "sysroot", "soft", "softfp", "hard", "32", "target", "__TIME__",
    "__DATE__", "other", "lib", "/usr/include", "/library"}

Plain == [ccache |-> FALSE, floatAbi |-> "none", fp32 |-> FALSE, arch |-> FALSE, cpu |-> FALSE,
          always |-> <<>>, epoch |-> FALSE, pie |-> FALSE, relro |-> "none"]
Arm == [Plain EXCEPT !.floatAbi = "hard", !.arch = TRUE, !.cpu = TRUE, !.epoch = TRUE, !.pie = TRUE, !.relro = "full"]
Mips == [Plain EXCEPT !.fp32 = TRUE, !.arch = TRUE, !.always = <<Option("-EL")>>, !.relro = "partial"]
X86 == [Plain EXCEPT !.ccache = TRUE, !.arch = TRUE, !.always = <<Option("-m64")>>, !.pie = TRUE]
MCConfigs == {Plain, Arm, Mips, X86}

Target == {Option("-msoft-float"), Option("-mhard-float"), Word("-mfloat-abi=", "soft"), Word("-mtune=", "other")}
Linking == {Option(o) : o \in {"-shared", "-static", "-fPIC", "-fno-pie", "-D__KERNEL__"}}
Paths == {Option("-I"), Option("-isystem"), Option("-L"), Word("-I", "/usr/include"), Word("-L", "lib"),
          Word("", "/usr/include"), Word("", "/library")}
All == Target \cup Linking \cup Paths
Lists(words, n) == [1 .. n -> words]
MCCommands == UNION {Lists(All, n) : n \in 0 .. 2} \cup Lists(Target, 3) \cup Lists(Linking, 3) \cup Lists(Paths, 3)

MCEnvironments == {[paranoid |-> paranoid, noCcache |-> paranoid, epoch |-> epoch] :
                      paranoid \in BOOLEAN, epoch \in {"unset", "valid", "invalid"}}
=============================================================================
