----------------------- MODULE ToolchainWrapperProofs -----------------------
(***************************************************************************)
(* For all targets and arguments: what the wrapper passes on fits into the *)
(* vector it has allocated; nothing it adds is contradicted by what it was *)
(* called with; and the search finds every directory of the build machine  *)
(* that gcc would use.                                                     *)
(***************************************************************************)
EXTENDS ToolchainWrapper, TLAPS, SequenceTheorems, WellFoundedInduction

Inputs ==
    /\ config \in Configs /\ argv \in Seq(Words) /\ args \in Seq(Words)
    /\ config \in Config /\ (config.floatAbi # "none" => ~config.fp32)

Predefined == Len(predef_args(config))

(* How many words there are at most at each step. *)
Counted ==
    /\ step = "alloc" => Len(args) = 0
    /\ step = "float" => Len(args) <= Predefined
    /\ step = "fp32" => Len(args) <= Predefined + (IF config.floatAbi # "none" THEN 1 ELSE 0)
    /\ step = "cpu" => Len(args) <= Predefined + 1
    /\ step = "epoch" => Len(args) <= Predefined + 3
    /\ step = "pie" => Len(args) <= Predefined + 6
    /\ step = "relro" => Len(args) <= Predefined + 8
    /\ step \in {"scan", "refused"} => Len(args) <= Predefined + 10
    /\ Len(args) <= Predefined + 10 + Len(argv)

IInv == Inputs /\ Counted

LEMMA Concat ==
  ASSUME NEW S, NEW s \in Seq(S), NEW t \in Seq(S)
  PROVE  s \o t \in Seq(S) /\ Len(s \o t) = Len(s) + Len(t)
  OBVIOUS

LEMMA One == ASSUME NEW S, NEW a \in S PROVE <<a>> \in Seq(S) /\ Len(<<a>>) = 1
  OBVIOUS

LEMMA Three == ASSUME NEW S, NEW a \in S, NEW b \in S, NEW c \in S PROVE <<a, b, c>> \in Seq(S) /\ Len(<<a, b, c>>) = 3
  OBVIOUS

LEMMA None == ASSUME NEW S PROVE <<>> \in Seq(S) /\ Len(<<>>) = 0
  OBVIOUS

LEMMA WordType ==
  ASSUME NEW o \in Options, NEW r \in Rests
  PROVE  Word(o, r) \in Words
  BY Zenon DEF Word, Words

LEMMA OwnWords ==
  /\ \A r \in {"ccache", "compiler", "sysroot"} : Word("", r) \in Words
  /\ \A o \in {"--sysroot", "-Wno-builtin-macro-redefined", "-fPIE", "-pie", "-Wl,-z,now", "-Wl,-z,relro"} :
        Option(o) \in Words
  /\ \A r \in {"soft", "softfp", "hard"} : Word("-mfloat-abi=", r) \in Words
  /\ Word("-mfp", "32") \in Words
  /\ \A o \in {"-march=", "-mcpu="} : Word(o, "target") \in Words
  /\ \A r \in {"__TIME__", "__DATE__"} : Word("-D", r) \in Words
<1>1. \A o \in {"", "--sysroot", "-mfloat-abi=", "-mfp", "-march=", "-mcpu=", "-D", "-fPIE", "-pie",
                "-Wno-builtin-macro-redefined", "-Wl,-z,now", "-Wl,-z,relro"} : o \in Options
  BY OptionsAssumption, Zenon
<1>2. \A r \in {"", "ccache", "compiler", "sysroot", "soft", "softfp", "hard", "32", "target",
                "__TIME__", "__DATE__"} : r \in Rests
  BY RestsAssumption, Zenon
<1> QED
  BY <1>1, <1>2, WordType, Zenon DEF Option

LEMMA PredefType ==
  ASSUME NEW c \in Config
  PROVE  predef_args(c) \in Seq(Words)
<1> DEFINE first == IF c.ccache THEN <<Word("", "ccache")>> ELSE <<>>
<1> DEFINE next == <<Word("", "compiler"), Option("--sysroot"), Word("", "sysroot")>>
<1>1. c.always \in Seq(Words)
  BY DEF Config
<1>2. next \in Seq(Words)
  <2>1. Word("", "compiler") \in Words /\ Option("--sysroot") \in Words /\ Word("", "sysroot") \in Words
    BY OwnWords, Zenon
  <2> QED
    BY <2>1, Three, Zenon DEF next
<1>3. first \in Seq(Words)
  <2>1. Word("", "ccache") \in Words
    BY OwnWords, Zenon
  <2>2. <<Word("", "ccache")>> \in Seq(Words) /\ <<>> \in Seq(Words)
    BY <2>1, One, None, Zenon
  <2> QED
    BY <2>2, Zenon
<1> HIDE DEF first, next
<1>4. first \o next \in Seq(Words)
  BY <1>2, <1>3, Concat
<1>5. (first \o next) \o c.always \in Seq(Words)
  BY <1>1, <1>4, Concat
<1> QED
  BY <1>5, Zenon DEF predef_args, first, next

LEMMA PIsNat == Inputs => Predefined \in Nat
<1> SUFFICES ASSUME Inputs PROVE Predefined \in Nat
  OBVIOUS
<1>1. predef_args(config) \in Seq(Words)
  BY PredefType DEF Inputs
<1> QED
  BY <1>1 DEF Predefined

(* A part of main that adds words. *)
LEMMA Adding ==
  ASSUME Inputs, NEW next, NEW more \in Seq(Words), Then(next, more)
  PROVE  /\ Inputs' /\ Predefined' = Predefined /\ argv' = argv /\ config' = config /\ step' = next
         /\ Len(args') = Len(args) + Len(more)
<1>1. step' = next /\ args' = args \o more /\ config' = config /\ argv' = argv
  BY DEF Then, input
<1>2. args \o more \in Seq(Words) /\ Len(args \o more) = Len(args) + Len(more)
  <2>1. args \in Seq(Words)
    BY DEF Inputs
  <2> QED
    BY <2>1, Concat
<1>3. Predefined' = Predefined
  BY <1>1, Zenon DEF Predefined, predef_args
<1>4. Inputs'
  BY <1>1, <1>2, Zenon DEF Inputs
<1> QED
  BY <1>1, <1>2, <1>3, <1>4, Zenon

LEMMA InitIInv == Init => IInv
<1> SUFFICES ASSUME Init PROVE IInv
  OBVIOUS
<1>1. config \in Configs /\ argv \in Commands /\ args = <<>> /\ step = "alloc"
  BY DEF Init
<1>2. config \in Config /\ (config.floatAbi # "none" => ~config.fp32)
  BY <1>1, ConfigsAssumption, Zenon
<1>3. argv \in Seq(Words) /\ args \in Seq(Words)
  BY <1>1, CommandsAssumption, None, Zenon
<1>4. Inputs
  BY <1>1, <1>2, <1>3, Zenon DEF Inputs
<1>5. Predefined \in Nat /\ Len(argv) \in Nat /\ Len(args) = 0
  BY <1>1, <1>3, <1>4, PIsNat
<1>6. Counted
  BY <1>1, <1>5 DEF Counted
<1> QED
  BY <1>4, <1>6 DEF IInv

(* The lists of words that the parts of main add. *)
LEMMA Shorts ==
  ASSUME NEW s \in Seq(Words), NEW t \in Seq(Words), Len(s) <= 1, Len(t) <= 1
  PROVE  s \o t \in Seq(Words) /\ Len(s \o t) \in Nat /\ Len(s \o t) <= 2
<1>1. s \o t \in Seq(Words) /\ Len(s \o t) = Len(s) + Len(t)
  BY Concat
<1> QED
  BY <1>1

LEMMA AtMostTwo ==
  ASSUME NEW w \in Words, NEW v \in Words, NEW s \in {<<>>, <<w>>}, NEW t \in {<<>>, <<v>>}
  PROVE  s \o t \in Seq(Words) /\ Len(s \o t) \in Nat /\ Len(s \o t) <= 2
<1>1. \A x \in Words : <<x>> \in Seq(Words) /\ Len(<<x>>) <= 1
  BY One
<1>2. <<>> \in Seq(Words) /\ Len(<<>>) <= 1
  BY None
<1> QED
  BY <1>1, <1>2, Shorts, Zenon

(* Each part of main adds at most what Counted expects. *)
LEMMA AllocIInv == ASSUME IInv, Alloc PROVE IInv'
<1>1. predef_args(config) \in Seq(Words) /\ Predefined \in Nat
  BY PredefType, PIsNat DEF IInv, Inputs
<1>2. step = "alloc"
  BY DEF Alloc
<1>a. Then("float", predef_args(config))
  BY DEF Alloc
<1>3. Inputs' /\ Predefined' = Predefined /\ argv' = argv /\ step' = "float"
      /\ Len(args') = Len(args) + Predefined
  BY <1>1, <1>a, Adding DEF IInv, Predefined
<1>4. Counted'
  BY <1>1, <1>2, <1>3 DEF IInv, Counted, Inputs
<1> QED
  BY <1>3, <1>4 DEF IInv

LEMMA FloatAbiIInv == ASSUME IInv, FloatAbi PROVE IInv'
<1> DEFINE more == IF config.floatAbi # "none" /\ ~FloatGiven
                   THEN <<Word("-mfloat-abi=", config.floatAbi)>> ELSE <<>>
<1>1. step = "float"
  BY DEF FloatAbi
<1>a. Then("fp32", more)
  BY Zenon DEF FloatAbi
<1>2. /\ more \in Seq(Words) /\ Len(more) \in Nat
      /\ Len(more) <= (IF config.floatAbi # "none" THEN 1 ELSE 0)
  <2>1. CASE config.floatAbi # "none" /\ ~FloatGiven
    <3>1. config.floatAbi \in {"soft", "softfp", "hard"}
      BY <2>1 DEF IInv, Inputs, Config
    <3>2. Word("-mfloat-abi=", config.floatAbi) \in Words
      BY <3>1, OwnWords, Zenon
    <3>3. <<Word("-mfloat-abi=", config.floatAbi)>> \in Seq(Words)
          /\ Len(<<Word("-mfloat-abi=", config.floatAbi)>>) = 1
      BY <3>2, One, Zenon
    <3> QED
      BY <2>1, <3>3
  <2>2. CASE ~(config.floatAbi # "none" /\ ~FloatGiven)
    <3>1. more = <<>>
      BY <2>2, Zenon
    <3> QED
      BY <3>1, None
  <2> QED
    BY <2>1, <2>2, Zenon
<1> HIDE DEF more
<1>3. /\ Inputs' /\ Predefined' = Predefined /\ argv' = argv /\ config' = config /\ step' = "fp32"
      /\ Len(args') = Len(args) + Len(more)
  BY <1>2, <1>a, Adding, Zenon DEF IInv
<1>4. Predefined \in Nat /\ Len(args) \in Nat /\ Len(argv) \in Nat
  BY PIsNat DEF IInv, Inputs
<1>5. Counted'
  BY <1>1, <1>2, <1>3, <1>4 DEF IInv, Counted
<1> QED
  BY <1>3, <1>5 DEF IInv

LEMMA Fp32IInv == ASSUME IInv, Fp32 PROVE IInv'
<1> DEFINE more == IF config.fp32 /\ ~SoftFloat THEN <<Word("-mfp", "32")>> ELSE <<>>
<1>1. step = "fp32"
  BY DEF Fp32
<1>2. Then("cpu", more)
  BY Zenon DEF Fp32
<1>3. more \in Seq(Words) /\ Len(more) \in Nat /\ Len(more) <= (IF config.fp32 THEN 1 ELSE 0)
  <2>1. Word("-mfp", "32") \in Words
    BY OwnWords, Zenon
  <2>2. <<Word("-mfp", "32")>> \in Seq(Words) /\ Len(<<Word("-mfp", "32")>>) = 1
        /\ <<>> \in Seq(Words) /\ Len(<<>>) = 0
    BY <2>1, One, None, Zenon
  <2>3. CASE config.fp32 /\ ~SoftFloat
    <3>1. more = <<Word("-mfp", "32")>>
      BY <2>3, Zenon
    <3> HIDE DEF more
    <3> QED
      BY <2>2, <2>3, <3>1
  <2>4. CASE ~(config.fp32 /\ ~SoftFloat)
    <3>1. more = <<>>
      BY <2>4, Zenon
    <3> HIDE DEF more
    <3> QED
      BY <2>2, <3>1
  <2> QED
    BY <2>3, <2>4, Zenon
<1> HIDE DEF more
<1>4. /\ Inputs' /\ Predefined' = Predefined /\ argv' = argv /\ config' = config /\ step' = "cpu"
      /\ Len(args') = Len(args) + Len(more)
  BY <1>2, <1>3, Adding, Zenon DEF IInv
<1>5. Predefined \in Nat /\ Len(args) \in Nat /\ Len(argv) \in Nat
  BY PIsNat DEF IInv, Inputs
<1>6. Counted'
  BY <1>1, <1>3, <1>4, <1>5 DEF IInv, Inputs, Counted
<1> QED
  BY <1>4, <1>6 DEF IInv

LEMMA ArchCpuIInv == ASSUME IInv, ArchCpu PROVE IInv'
<1> DEFINE arch == IF config.arch THEN <<Word("-march=", "target")>> ELSE <<>>
<1> DEFINE cpu == IF config.cpu THEN <<Word("-mcpu=", "target")>> ELSE <<>>
<1> DEFINE both == arch \o cpu
<1> DEFINE more == IF GivenWith({"-march=", "-mtune=", "-mcpu="}) THEN <<>> ELSE both
<1>1. step = "cpu"
  BY DEF ArchCpu
<1>2. Then("epoch", more)
  BY Zenon DEF ArchCpu
<1>3. more \in Seq(Words) /\ Len(more) \in Nat /\ Len(more) <= 2
  <2>1. Word("-march=", "target") \in Words /\ Word("-mcpu=", "target") \in Words
    BY OwnWords, Zenon
  <2>2. both \in Seq(Words) /\ Len(both) \in Nat /\ Len(both) <= 2
    <3>1. arch \in {<<>>, <<Word("-march=", "target")>>} /\ cpu \in {<<>>, <<Word("-mcpu=", "target")>>}
      BY Zenon
    <3> HIDE DEF arch, cpu
    <3> QED
      BY <2>1, <3>1, AtMostTwo, Zenon
  <2>3. <<>> \in Seq(Words) /\ Len(<<>>) \in Nat /\ Len(<<>>) <= 2
    BY None
  <2>4. more = both \/ more = <<>>
    BY Zenon
  <2> HIDE DEF both, more
  <2> QED
    BY <2>2, <2>3, <2>4, Zenon
<1> HIDE DEF more
<1>4. /\ Inputs' /\ Predefined' = Predefined /\ argv' = argv /\ config' = config /\ step' = "epoch"
      /\ Len(args') = Len(args) + Len(more)
  BY <1>2, <1>3, Adding, Zenon DEF IInv
<1>5. Predefined \in Nat /\ Len(args) \in Nat /\ Len(argv) \in Nat
  BY PIsNat DEF IInv, Inputs
<1>6. Counted'
  BY <1>1, <1>3, <1>4, <1>5 DEF IInv, Counted
<1> QED
  BY <1>4, <1>6 DEF IInv

LEMMA PieIInv == ASSUME IInv, Pie PROVE IInv'
<1> DEFINE code == IF Given({"-fpie", "-fPIE", "-fpic", "-fPIC"}) THEN <<>> ELSE <<Option("-fPIE")>>
<1> DEFINE link == IF Given({"-shared"}) THEN <<>> ELSE <<Option("-pie")>>
<1> DEFINE both == code \o link
<1> DEFINE more == IF ~config.pie \/ NoPie THEN <<>> ELSE both
<1>1. step = "pie"
  BY DEF Pie
<1>2. Then("relro", more)
  BY Zenon DEF Pie
<1>3. more \in Seq(Words) /\ Len(more) \in Nat /\ Len(more) <= 2
  <2>1. Option("-fPIE") \in Words /\ Option("-pie") \in Words
    BY OwnWords, Zenon
  <2>2. both \in Seq(Words) /\ Len(both) \in Nat /\ Len(both) <= 2
    <3>1. code \in {<<>>, <<Option("-fPIE")>>} /\ link \in {<<>>, <<Option("-pie")>>}
      BY Zenon
    <3> HIDE DEF code, link
    <3> QED
      BY <2>1, <3>1, AtMostTwo, Zenon
  <2>3. <<>> \in Seq(Words) /\ Len(<<>>) \in Nat /\ Len(<<>>) <= 2
    BY None
  <2>4. more = both \/ more = <<>>
    BY Zenon
  <2> HIDE DEF both, more
  <2> QED
    BY <2>2, <2>3, <2>4, Zenon
<1> HIDE DEF more
<1>4. /\ Inputs' /\ Predefined' = Predefined /\ argv' = argv /\ config' = config /\ step' = "relro"
      /\ Len(args') = Len(args) + Len(more)
  BY <1>2, <1>3, Adding, Zenon DEF IInv
<1>5. Predefined \in Nat /\ Len(args) \in Nat /\ Len(argv) \in Nat
  BY PIsNat DEF IInv, Inputs
<1>6. Counted'
  BY <1>1, <1>3, <1>4, <1>5 DEF IInv, Counted
<1> QED
  BY <1>4, <1>6 DEF IInv

LEMMA RelroIInv == ASSUME IInv, Relro PROVE IInv'
<1> DEFINE now == IF config.relro = "full" THEN <<Option("-Wl,-z,now")>> ELSE <<>>
<1> DEFINE relro == IF config.relro # "none" THEN <<Option("-Wl,-z,relro")>> ELSE <<>>
<1> DEFINE both == now \o relro
<1> DEFINE more == IF Kernel THEN <<>> ELSE both
<1>1. step = "relro"
  BY DEF Relro
<1>2. Then("scan", more)
  BY Zenon DEF Relro
<1>3. more \in Seq(Words) /\ Len(more) \in Nat /\ Len(more) <= 2
  <2>1. Option("-Wl,-z,now") \in Words /\ Option("-Wl,-z,relro") \in Words
    BY OwnWords, Zenon
  <2>2. both \in Seq(Words) /\ Len(both) \in Nat /\ Len(both) <= 2
    <3>1. now \in {<<>>, <<Option("-Wl,-z,now")>>} /\ relro \in {<<>>, <<Option("-Wl,-z,relro")>>}
      BY Zenon
    <3> HIDE DEF now, relro
    <3> QED
      BY <2>1, <3>1, AtMostTwo, Zenon
  <2>3. <<>> \in Seq(Words) /\ Len(<<>>) \in Nat /\ Len(<<>>) <= 2
    BY None
  <2>4. more = both \/ more = <<>>
    BY Zenon
  <2> HIDE DEF both, more
  <2> QED
    BY <2>2, <2>3, <2>4, Zenon
<1> HIDE DEF more
<1>4. /\ Inputs' /\ Predefined' = Predefined /\ argv' = argv /\ config' = config /\ step' = "scan"
      /\ Len(args') = Len(args) + Len(more)
  BY <1>2, <1>3, Adding, Zenon DEF IInv
<1>5. Predefined \in Nat /\ Len(args) \in Nat /\ Len(argv) \in Nat
  BY PIsNat DEF IInv, Inputs
<1>6. Counted'
  BY <1>1, <1>3, <1>4, <1>5 DEF IInv, Counted
<1> QED
  BY <1>4, <1>6 DEF IInv

LEMMA EpochIInv == ASSUME IInv, Epoch PROVE IInv'
<1> DEFINE three == <<Word("-D", "__TIME__"), Word("-D", "__DATE__"), Option("-Wno-builtin-macro-redefined")>>
<1> DEFINE more == IF config.epoch /\ env.epoch = "valid" THEN three ELSE <<>>
<1>1. step = "epoch"
  BY DEF Epoch
<1>2. Then("pie", more)
  BY Zenon DEF Epoch
<1>3. more \in Seq(Words) /\ Len(more) \in Nat /\ Len(more) <= 3
  <2>1. /\ Word("-D", "__TIME__") \in Words /\ Word("-D", "__DATE__") \in Words
        /\ Option("-Wno-builtin-macro-redefined") \in Words
    BY OwnWords, Zenon
  <2>2. three \in Seq(Words) /\ Len(three) = 3
    BY <2>1, Three, Zenon
  <2> HIDE DEF three
  <2>3. three \in Seq(Words) /\ Len(three) \in Nat /\ Len(three) <= 3
    BY <2>2
  <2>4. <<>> \in Seq(Words) /\ Len(<<>>) \in Nat /\ Len(<<>>) <= 3
    BY None
  <2> QED
    BY <2>3, <2>4, Zenon
<1> HIDE DEF more
<1>4. /\ Inputs' /\ Predefined' = Predefined /\ argv' = argv /\ config' = config /\ step' = "pie"
      /\ Len(args') = Len(args) + Len(more)
  BY <1>2, <1>3, Adding, Zenon DEF IInv
<1>5. Predefined \in Nat /\ Len(args) \in Nat /\ Len(argv) \in Nat
  BY PIsNat DEF IInv, Inputs
<1>6. Counted'
  BY <1>1, <1>3, <1>4, <1>5 DEF IInv, Counted
<1> QED
  BY <1>4, <1>6 DEF IInv

LEMMA ForwardIInv == ASSUME IInv, Forward PROVE IInv'
<1>1. step = "scan"
  BY DEF Forward
<1>2. Then("exec", argv)
  BY Zenon DEF Forward
<1>3. argv \in Seq(Words)
  BY DEF IInv, Inputs
<1>4. /\ Inputs' /\ Predefined' = Predefined /\ argv' = argv /\ config' = config /\ step' = "exec"
      /\ Len(args') = Len(args) + Len(argv)
  BY <1>2, <1>3, Adding, Zenon DEF IInv
<1>5. Predefined \in Nat /\ Len(args) \in Nat /\ Len(argv) \in Nat
  BY PIsNat DEF IInv, Inputs
<1>6. Counted'
  BY <1>1, <1>4, <1>5 DEF IInv, Counted
<1> QED
  BY <1>4, <1>6 DEF IInv

(* The parts that add nothing: the search for unsafe paths, the execution,  *)
(* and the ends with an error.                                             *)
LEMMA AddingNothing ==
  ASSUME IInv, UNCHANGED <<input, args>>, step' = step \/ step' \in {"failed", "running"}
                                          \/ (step = "scan" /\ step' = "refused")
  PROVE  IInv'
<1>1. Inputs' /\ Predefined' = Predefined /\ args' = args /\ argv' = argv /\ config' = config
  BY DEF IInv, Inputs, input, Predefined
<1>2. Counted'
  <2>1. Predefined \in Nat /\ Len(args) \in Nat /\ Len(argv) \in Nat
    BY PIsNat DEF IInv, Inputs
  <2> QED
    BY <1>1, <2>1 DEF IInv, Counted
<1> QED
  BY <1>1, <1>2 DEF IInv

LEMMA OthersIInv ==
  ASSUME IInv, CannotStart \/ EpochInvalid \/ ScanNext \/ ScanJoined \/ ScanSeparate \/ Exec \/ CannotExec
  PROVE  IInv'
<1>1. CASE CannotStart
  BY <1>1, AddingNothing DEF CannotStart, Exit
<1>2. CASE EpochInvalid
  BY <1>2, AddingNothing DEF EpochInvalid, Exit
<1>3. CASE CannotExec
  BY <1>3, AddingNothing DEF CannotExec, Exit
<1>4. CASE Exec
  BY <1>4, AddingNothing DEF Exec
<1>5. CASE ScanNext
  BY <1>5, AddingNothing DEF ScanNext
<1>6. CASE ScanJoined
  BY <1>6, AddingNothing, Zenon DEF ScanJoined, Check
<1>7. CASE ScanSeparate
  BY <1>7, AddingNothing, Zenon DEF ScanSeparate, Check
<1> QED
  BY <1>1, <1>2, <1>3, <1>4, <1>5, <1>6, <1>7

LEMMA NextIInv == IInv /\ [Next]_vars => IInv'
<1> SUFFICES ASSUME IInv, [Next]_vars PROVE IInv'
  OBVIOUS
<1>1. CASE UNCHANGED vars
  BY <1>1, AddingNothing DEF vars
<1>2. CASE Next
  BY <1>2, AllocIInv, FloatAbiIInv, Fp32IInv, ArchCpuIInv, EpochIInv, PieIInv, RelroIInv, ForwardIInv,
     OthersIInv, Zenon DEF Next
<1> QED
  BY <1>1, <1>2

LEMMA IInvFits == IInv => FitsTheBuffer
<1> SUFFICES ASSUME IInv PROVE FitsTheBuffer
  OBVIOUS
<1>1. Predefined \in Nat /\ Len(args) \in Nat /\ Len(argv) \in Nat
  BY PIsNat DEF IInv, Inputs
<1>2. Room = Predefined + Len(argv) + 11
  BY <1>1 DEF Room, Predefined, argc, EXCLUSIVE_ARGS
<1>3. Len(args) <= Predefined + 10 + Len(argv)
  BY DEF IInv, Counted
<1> QED
  BY <1>1, <1>2, <1>3 DEF FitsTheBuffer

(* Lines 333-342 of toolchain-wrapper.c: for every target and every command *)
(* line, ten words beside the predefined and the given ones are enough.    *)
THEOREM BufferSuffices == Spec => []FitsTheBuffer
<1>1. Init => IInv
  BY InitIInv
<1>2. IInv /\ [Next]_vars => IInv'
  BY NextIInv
<1>3. IInv => FitsTheBuffer
  BY IInvFits
<1> QED
  BY <1>1, <1>2, <1>3, PTL DEF Spec

-----------------------------------------------------------------------------

(***************************************************************************)
(* What the wrapper adds.  A word among the added ones has been justified  *)
(* by the arguments the wrapper was called with, from which no step takes  *)
(* anything away; and where it has come past the part about PIE, a program *)
(* that is to be linked as position independent has both options.          *)
(***************************************************************************)
Building == {"float", "fp32", "cpu", "epoch", "pie", "relro", "scan", "exec"}
PiePassed == {"relro", "scan", "exec"}
Front == Len(args) - (IF step = "exec" THEN Len(argv) ELSE 0)
Added == Predefined + 1 .. Front

PicGiven == Given({"-fpie", "-fPIE", "-fpic", "-fPIC"})
Position == config.pie /\ ~NoPie

Justified(w) ==
    /\ w.opt = "-mfloat-abi=" => ~FloatGiven
    /\ w.opt = "-mfp" => ~SoftFloat
    /\ w.opt \in {"-march=", "-mcpu="} => ~GivenWith({"-march=", "-mtune=", "-mcpu="})
    /\ w.opt = "-pie" => Position /\ ~Given({"-shared"})
    /\ w \notin NonPicWords

Has(w) == \E j \in Added : args[j] = w

AddedInv == step \in Building =>
    /\ Predefined <= Front
    /\ \A j \in Added : Justified(args[j])
    /\ step \in PiePassed /\ Position => /\ Given({"-shared"}) \/ Has(Option("-pie"))
                                         /\ PicGiven \/ Has(Option("-fPIE"))
    /\ step = "exec" => \A k \in DOMAIN argv : args[Front + k] = argv[k]

LEMMA Appended ==
  ASSUME NEW S, NEW s \in Seq(S), NEW t \in Seq(S)
  PROVE  /\ s \o t \in Seq(S) /\ Len(s \o t) = Len(s) + Len(t)
         /\ Len(s) \in Nat /\ Len(t) \in Nat
         /\ \A j \in 1 .. Len(s) : (s \o t)[j] = s[j]
         /\ \A k \in 1 .. Len(t) : (s \o t)[Len(s) + k] = t[k]
  OBVIOUS

LEMMA SameJudgement ==
  ASSUME config' = config, argv' = argv
  PROVE  (\A w : Justified(w)' <=> Justified(w)) /\ (Position' <=> Position)
         /\ (PicGiven' <=> PicGiven) /\ (Given({"-shared"})' <=> Given({"-shared"}))
<1>1. /\ \A S : Given(S)' <=> Given(S)
      /\ \A S : GivenWith(S)' <=> GivenWith(S)
  BY Zenon DEF Given, GivenWith
<1>2. FloatGiven' <=> FloatGiven
  BY <1>1, Zenon DEF FloatGiven
<1>3. SoftFloat' <=> SoftFloat
  BY Zenon DEF SoftFloat
<1>4. Position' <=> Position
  BY <1>1, Zenon DEF Position, NoPie, Kernel
<1>5. \A w : Justified(w)' <=> Justified(w)
  BY <1>1, <1>2, <1>3, <1>4, Zenon DEF Justified
<1> QED
  BY <1>1, <1>4, <1>5, Zenon DEF PicGiven

(* A part of main that adds justified words. *)
LEMMA AddingJustified ==
  ASSUME Inputs, AddedInv, step \in Building \ {"exec"},
         NEW next, next \in Building \ {"exec"}, next # "scan" => step # "scan",
         NEW more \in Seq(Words), Then(next, more),
         \A k \in DOMAIN more : Justified(more[k]),
         next \in PiePassed /\ Position =>
            /\ step \in PiePassed \/ Given({"-shared"}) \/ \E k \in DOMAIN more : more[k] = Option("-pie")
            /\ step \in PiePassed \/ PicGiven \/ \E k \in DOMAIN more : more[k] = Option("-fPIE")
  PROVE  AddedInv'
<1>1. /\ Predefined' = Predefined /\ argv' = argv /\ config' = config /\ step' = next
      /\ Len(args') = Len(args) + Len(more) /\ Predefined \in Nat
  BY Adding, PIsNat, Zenon
<1>2. /\ args' = args \o more /\ args \in Seq(Words)
  BY DEF Then, Inputs
<1>3. /\ Len(args) \in Nat /\ Len(more) \in Nat
      /\ \A j \in 1 .. Len(args) : args'[j] = args[j]
      /\ \A k \in 1 .. Len(more) : args'[Len(args) + k] = more[k]
  <2> DEFINE both == args \o more
  <2>1. /\ Len(args) \in Nat /\ Len(more) \in Nat
        /\ \A j \in 1 .. Len(args) : both[j] = args[j]
        /\ \A k \in 1 .. Len(more) : both[Len(args) + k] = more[k]
    BY <1>2, Appended
  <2>2. args' = both
    BY <1>2
  <2> HIDE DEF both
  <2> QED
    BY <2>1, <2>2
<1>4. DOMAIN more = 1 .. Len(more)
  OBVIOUS
<1>5. Front = Len(args) /\ Front' = Len(args) + Len(more)
  BY <1>1, <1>3 DEF Front
<1>6. /\ Predefined <= Len(args)
      /\ \A j \in Predefined + 1 .. Len(args) : Justified(args[j])
      /\ step \in PiePassed /\ Position => /\ Given({"-shared"}) \/ Has(Option("-pie"))
                                           /\ PicGiven \/ Has(Option("-fPIE"))
  BY <1>5 DEF AddedInv, Added, Building
<1>7. Predefined' <= Front'
  BY <1>1, <1>3, <1>5, <1>6
<1>8. \A j \in Added' : Justified(args'[j])
  <2> SUFFICES ASSUME NEW j \in Predefined + 1 .. Len(args) + Len(more)
               PROVE  Justified(args'[j])
    BY <1>1, <1>5 DEF Added
  <2>1. CASE j <= Len(args)
    <3>1. j \in 1 .. Len(args) /\ j \in Predefined + 1 .. Len(args)
      BY <1>1, <1>3, <2>1
    <3> QED
      BY <1>3, <1>6, <3>1, Zenon
  <2>2. CASE ~(j <= Len(args))
    <3>1. j - Len(args) \in 1 .. Len(more) /\ j = Len(args) + (j - Len(args))
      BY <1>1, <1>3, <2>2
    <3>2. args'[j] = more[j - Len(args)]
      BY <1>3, <3>1
    <3> QED
      BY <1>4, <3>1, <3>2
  <2> QED
    BY <2>1, <2>2
<1>9. \A w : Has(w) \/ (\E k \in DOMAIN more : more[k] = w) => Has(w)'
  <2> SUFFICES ASSUME NEW w, Has(w) \/ (\E k \in DOMAIN more : more[k] = w)
               PROVE  \E j \in Predefined + 1 .. Len(args) + Len(more) : args'[j] = w
    BY <1>1, <1>5 DEF Has, Added
  <2>1. CASE Has(w)
    <3>1. PICK j \in Predefined + 1 .. Len(args) : args[j] = w
      BY <1>5, <2>1 DEF Has, Added
    <3>2. j \in 1 .. Len(args) /\ j \in Predefined + 1 .. Len(args) + Len(more)
      BY <1>1, <1>3
    <3> QED
      BY <1>3, <3>1, <3>2
  <2>2. CASE \E k \in DOMAIN more : more[k] = w
    <3>1. PICK k \in 1 .. Len(more) : more[k] = w
      BY <1>4, <2>2
    <3>2. Len(args) + k \in Predefined + 1 .. Len(args) + Len(more)
      BY <1>1, <1>3, <1>6
    <3> QED
      BY <1>3, <3>1, <3>2
  <2> QED
    BY <2>1, <2>2
<1>10. /\ \A w : Justified(w)' <=> Justified(w)
       /\ Position' <=> Position
       /\ PicGiven' <=> PicGiven
       /\ Given({"-shared"})' <=> Given({"-shared"})
  BY <1>1, SameJudgement, Zenon
<1>11. step' \in PiePassed /\ Position' => /\ Given({"-shared"})' \/ Has(Option("-pie"))'
                                           /\ PicGiven' \/ Has(Option("-fPIE"))'
  <2> SUFFICES ASSUME next \in PiePassed, Position
               PROVE  /\ Given({"-shared"}) \/ Has(Option("-pie"))'
                      /\ PicGiven \/ Has(Option("-fPIE"))'
    BY <1>1, <1>10, Zenon
  <2>1. Has(Option("-pie")) \/ (\E k \in DOMAIN more : more[k] = Option("-pie")) => Has(Option("-pie"))'
    BY <1>9, Zenon
  <2>2. Has(Option("-fPIE")) \/ (\E k \in DOMAIN more : more[k] = Option("-fPIE")) => Has(Option("-fPIE"))'
    BY <1>9, Zenon
  <2> QED
    BY <1>6, <2>1, <2>2, Zenon
<1>12. \A j \in Added' : Justified(args[j])'
  BY <1>8, <1>10, Zenon
<1>13. step' # "exec"
  BY <1>1
<1> QED
  BY <1>7, <1>11, <1>12, <1>13, Zenon DEF AddedInv

Contains(s, w) == \E k \in DOMAIN s : s[k] = w
AllJustified(s) == s \in Seq(Words) /\ \A k \in DOMAIN s : Justified(s[k])

LEMMA NoneJustified == AllJustified(<<>>)
<1>1. <<>> \in Seq(Words) /\ DOMAIN <<>> = {}
  OBVIOUS
<1> QED
  BY <1>1, Zenon DEF AllJustified

LEMMA OneJustified ==
  ASSUME NEW w \in Words, Justified(w)
  PROVE  AllJustified(<<w>>) /\ Contains(<<w>>, w)
<1>1. <<w>> \in Seq(Words) /\ DOMAIN <<w>> = {1} /\ <<w>>[1] = w
  OBVIOUS
<1> QED
  BY <1>1, Zenon DEF AllJustified, Contains

(* Both halves are found again in what they are put together to. *)
LEMMA BothJustified ==
  ASSUME NEW s, NEW t, AllJustified(s), AllJustified(t)
  PROVE  /\ AllJustified(s \o t)
         /\ \A w : Contains(s, w) \/ Contains(t, w) => Contains(s \o t, w)
<1> DEFINE both == s \o t
<1>1. s \in Seq(Words) /\ t \in Seq(Words)
  BY Zenon DEF AllJustified
<1>2. /\ both \in Seq(Words) /\ Len(both) = Len(s) + Len(t)
      /\ Len(s) \in Nat /\ Len(t) \in Nat
      /\ \A j \in 1 .. Len(s) : both[j] = s[j]
      /\ \A k \in 1 .. Len(t) : both[Len(s) + k] = t[k]
  BY <1>1, Appended
<1> HIDE DEF both
<1>3. DOMAIN s = 1 .. Len(s) /\ DOMAIN t = 1 .. Len(t) /\ DOMAIN both = 1 .. Len(both)
  BY <1>1, <1>2
<1>4. ASSUME NEW k \in DOMAIN both PROVE Justified(both[k])
  <2>1. CASE k <= Len(s)
    <3>1. k \in DOMAIN s /\ both[k] = s[k]
      BY <1>2, <1>3, <2>1
    <3> QED
      BY <3>1, Zenon DEF AllJustified
  <2>2. CASE ~(k <= Len(s))
    <3>1. k - Len(s) \in 1 .. Len(t) /\ k = Len(s) + (k - Len(s))
      BY <1>2, <1>3, <2>2
    <3>2. k - Len(s) \in DOMAIN t /\ both[k] = t[k - Len(s)]
      BY <1>2, <1>3, <3>1
    <3> QED
      BY <3>2, Zenon DEF AllJustified
  <2> QED
    BY <2>1, <2>2
<1>5. ASSUME NEW w, Contains(s, w) \/ Contains(t, w)
      PROVE  Contains(both, w)
  <2>1. CASE Contains(s, w)
    <3>1. PICK k \in 1 .. Len(s) : s[k] = w
      BY <1>3, <2>1 DEF Contains
    <3>2. k \in 1 .. Len(both)
      BY <1>2
    <3> QED
      BY <1>2, <1>3, <3>1, <3>2 DEF Contains
  <2>2. CASE Contains(t, w)
    <3>1. PICK k \in 1 .. Len(t) : t[k] = w
      BY <1>3, <2>2 DEF Contains
    <3>2. Len(s) + k \in 1 .. Len(both)
      BY <1>2
    <3> QED
      BY <1>2, <1>3, <3>1, <3>2 DEF Contains
  <2> QED
    BY <1>5, <2>1, <2>2
<1> QED
  BY <1>2, <1>4, <1>5, Zenon DEF AllJustified, both

LEMMA Spelling == \A o, r : Word(o, r).opt = o /\ Word(o, r).rest = r
  BY DEF Word

LEMMA NonPicSpelling == \A w \in NonPicWords : w.opt \in {"-fno-pie", "-fno-PIE"}
<1> SUFFICES ASSUME NEW o \in {"-fno-pie", "-fno-PIE"} PROVE Option(o).opt \in {"-fno-pie", "-fno-PIE"}
  BY DEF NonPicWords
<1> QED
  BY Spelling, Zenon DEF Option

LEMMA NoJudgement ==
  ASSUME NEW w, w.opt \notin {"-mfloat-abi=", "-mfp", "-march=", "-mcpu=", "-pie", "-fno-pie", "-fno-PIE"}
  PROVE  Justified(w)
<1>1. w \notin NonPicWords
  BY NonPicSpelling
<1> QED
  BY <1>1 DEF Justified

LEMMA AllocAdded == ASSUME IInv, Alloc PROVE AddedInv'
<1>1. step' = "float" /\ args' = args \o predef_args(config) /\ config' = config /\ step = "alloc"
  BY DEF Alloc, Then, input
<1>2. predef_args(config) \in Seq(Words) /\ args \in Seq(Words)
  BY PredefType DEF IInv, Inputs
<1>3. Len(args') = Len(args) + Predefined /\ Len(args) = 0 /\ Predefined \in Nat /\ Predefined' = Predefined
  <2>1. Len(args \o predef_args(config)) = Len(args) + Len(predef_args(config)) /\ Len(predef_args(config)) \in Nat
    BY <1>2, Appended
  <2>2. predef_args(config)' = predef_args(config)
    BY <1>1, Zenon DEF predef_args
  <2>3. Len(args) = 0
    BY <1>1 DEF IInv, Counted
  <2> QED
    BY <1>1, <2>1, <2>2, <2>3, Zenon DEF Predefined
<1>4. Front' = Predefined' /\ Added' = {}
  BY <1>1, <1>3 DEF Front, Added
<1> QED
  BY <1>1, <1>3, <1>4 DEF AddedInv, PiePassed

LEMMA FloatAbiAdded == ASSUME IInv, AddedInv, FloatAbi PROVE AddedInv'
<1> DEFINE w == Word("-mfloat-abi=", config.floatAbi)
<1> DEFINE more == IF config.floatAbi # "none" /\ ~FloatGiven THEN <<w>> ELSE <<>>
<1>1. step = "float" /\ Then("fp32", more) /\ Inputs
  BY Zenon DEF FloatAbi, IInv
<1>2. AllJustified(more)
  <2>1. CASE config.floatAbi # "none" /\ ~FloatGiven
    <3>1. config.floatAbi \in {"soft", "softfp", "hard"}
      BY <2>1 DEF IInv, Inputs, Config
    <3>2. w \in Words /\ w.opt = "-mfloat-abi="
      BY <3>1, OwnWords, Spelling, Zenon
    <3>3. w \notin NonPicWords
      BY <3>2, NonPicSpelling
    <3> HIDE DEF w
    <3>4. Justified(w)
      BY <2>1, <3>2, <3>3 DEF Justified
    <3> QED
      BY <2>1, <3>2, <3>4, OneJustified, Zenon
  <2>2. CASE ~(config.floatAbi # "none" /\ ~FloatGiven)
    BY <2>2, NoneJustified, Zenon
  <2> QED
    BY <2>1, <2>2, Zenon
<1> HIDE DEF more
<1> QED
  BY <1>1, <1>2, AddingJustified DEF AllJustified, Building, PiePassed

LEMMA Fp32Added == ASSUME IInv, AddedInv, Fp32 PROVE AddedInv'
<1> DEFINE w == Word("-mfp", "32")
<1> DEFINE more == IF config.fp32 /\ ~SoftFloat THEN <<w>> ELSE <<>>
<1>1. step = "fp32" /\ Then("cpu", more) /\ Inputs
  BY Zenon DEF Fp32, IInv
<1>2. AllJustified(more)
  <2>1. CASE config.fp32 /\ ~SoftFloat
    <3>1. w \in Words /\ w.opt = "-mfp"
      BY OwnWords, Spelling, Zenon
    <3>2. w \notin NonPicWords
      BY <3>1, Spelling DEF NonPicWords, Option
    <3> HIDE DEF w
    <3>3. Justified(w)
      BY <2>1, <3>1, <3>2 DEF Justified
    <3> QED
      BY <2>1, <3>1, <3>3, OneJustified, Zenon
  <2>2. CASE ~(config.fp32 /\ ~SoftFloat)
    BY <2>2, NoneJustified, Zenon
  <2> QED
    BY <2>1, <2>2, Zenon
<1> HIDE DEF more
<1> QED
  BY <1>1, <1>2, AddingJustified DEF AllJustified, Building, PiePassed

LEMMA ArchCpuAdded == ASSUME IInv, AddedInv, ArchCpu PROVE AddedInv'
<1> DEFINE a == Word("-march=", "target")
<1> DEFINE c == Word("-mcpu=", "target")
<1> DEFINE arch == IF config.arch THEN <<a>> ELSE <<>>
<1> DEFINE cpu == IF config.cpu THEN <<c>> ELSE <<>>
<1> DEFINE more == IF GivenWith({"-march=", "-mtune=", "-mcpu="}) THEN <<>> ELSE arch \o cpu
<1>1. step = "cpu" /\ Then("epoch", more) /\ Inputs
  BY Zenon DEF ArchCpu, IInv
<1>2. AllJustified(more)
  <2>1. CASE GivenWith({"-march=", "-mtune=", "-mcpu="})
    BY <2>1, NoneJustified, Zenon
  <2>2. CASE ~GivenWith({"-march=", "-mtune=", "-mcpu="})
    <3>1. \A w : w.opt \in {"-march=", "-mcpu="} => Justified(w)
      <4> SUFFICES ASSUME NEW w, w.opt \in {"-march=", "-mcpu="} PROVE Justified(w)
        OBVIOUS
      <4>1. w \notin NonPicWords
        BY NonPicSpelling
      <4> QED
        BY <2>2, <4>1 DEF Justified
    <3>2. a \in Words /\ a.opt = "-march=" /\ c \in Words /\ c.opt = "-mcpu="
      BY OwnWords, Spelling, Zenon
    <3> HIDE DEF a, c
    <3>3. Justified(a) /\ Justified(c)
      BY <3>1, <3>2
    <3>4. AllJustified(arch) /\ AllJustified(cpu)
      BY <3>2, <3>3, OneJustified, NoneJustified, Zenon
    <3> HIDE DEF arch, cpu
    <3> QED
      BY <2>2, <3>4, BothJustified, Zenon
  <2> QED
    BY <2>1, <2>2, Zenon
<1> HIDE DEF more
<1> QED
  BY <1>1, <1>2, AddingJustified DEF AllJustified, Building, PiePassed

LEMMA EpochAdded == ASSUME IInv, AddedInv, Epoch PROVE AddedInv'
<1> DEFINE t == Word("-D", "__TIME__")
<1> DEFINE d == Word("-D", "__DATE__")
<1> DEFINE b == Option("-Wno-builtin-macro-redefined")
<1> DEFINE more == IF config.epoch /\ env.epoch = "valid" THEN <<t, d, b>> ELSE <<>>
<1>1. step = "epoch" /\ Then("pie", more) /\ Inputs
  BY Zenon DEF Epoch, IInv
<1>2. AllJustified(more)
  <2>1. t \in Words /\ d \in Words /\ b \in Words
    BY OwnWords, Zenon
  <2>2. t.opt = "-D" /\ d.opt = "-D" /\ b.opt = "-Wno-builtin-macro-redefined"
    BY Spelling, Zenon DEF Option
  <2> HIDE DEF t, d, b
  <2>3. Justified(t) /\ Justified(d) /\ Justified(b)
    BY <2>2, NoJudgement
  <2>4. <<t, d, b>> \in Seq(Words)
    BY <2>1, Three
  <2>5. \A k \in DOMAIN <<t, d, b>> : <<t, d, b>>[k] \in {t, d, b}
    OBVIOUS
  <2>6. AllJustified(<<t, d, b>>)
    BY <2>3, <2>4, <2>5, Zenon DEF AllJustified
  <2> QED
    BY <2>6, NoneJustified, Zenon
<1> HIDE DEF more
<1> QED
  BY <1>1, <1>2, AddingJustified DEF AllJustified, Building, PiePassed

LEMMA PieAdded == ASSUME IInv, AddedInv, Pie PROVE AddedInv'
<1> DEFINE c == Option("-fPIE")
<1> DEFINE l == Option("-pie")
<1> DEFINE code == IF Given({"-fpie", "-fPIE", "-fpic", "-fPIC"}) THEN <<>> ELSE <<c>>
<1> DEFINE link == IF Given({"-shared"}) THEN <<>> ELSE <<l>>
<1> DEFINE more == IF ~config.pie \/ NoPie THEN <<>> ELSE code \o link
<1>1. step = "pie" /\ Then("relro", more) /\ Inputs
  BY Zenon DEF Pie, IInv
<1>2. /\ AllJustified(more)
      /\ Position => /\ Given({"-shared"}) \/ Contains(more, l)
                     /\ PicGiven \/ Contains(more, c)
  <2>1. CASE ~Position
    <3>1. more = <<>>
      BY <2>1, Zenon DEF Position
    <3> HIDE DEF more
    <3> QED
      BY <2>1, <3>1, NoneJustified, Zenon
  <2>2. CASE Position
    <3>1. c \in Words /\ l \in Words
      BY OwnWords, Zenon
    <3>2. c.opt = "-fPIE" /\ l.opt = "-pie"
      BY Spelling, Zenon DEF Option
    <3>3. l \notin NonPicWords
      BY <3>2, NonPicSpelling
    <3>4. more = code \o link
      BY <2>2, Zenon DEF Position
    <3> HIDE DEF more, c, l
    <3>5. Justified(c)
      BY <3>2, NoJudgement
    <3>6. AllJustified(code) /\ (PicGiven \/ Contains(code, c))
      BY <3>1, <3>5, OneJustified, NoneJustified, Zenon DEF PicGiven
    <3>7. AllJustified(link) /\ (Given({"-shared"}) \/ Contains(link, l))
      <4>1. CASE Given({"-shared"})
        BY <4>1, NoneJustified, Zenon
      <4>2. CASE ~Given({"-shared"})
        <5>1. Justified(l)
          BY <2>2, <3>2, <3>3, <4>2 DEF Justified
        <5> QED
          BY <3>1, <4>2, <5>1, OneJustified, Zenon
      <4> QED
        BY <4>1, <4>2, Zenon
    <3> HIDE DEF code, link
    <3>8. AllJustified(code) /\ AllJustified(link)
      BY <3>6, <3>7, Zenon
    <3>9. AllJustified(code \o link)
      BY <3>8, BothJustified, Zenon
    <3>10. Contains(code, c) => Contains(more, c)
      BY <3>4, <3>8, BothJustified, Zenon
    <3>11. Contains(link, l) => Contains(more, l)
      BY <3>4, <3>8, BothJustified, Zenon
    <3> QED
      BY <3>4, <3>6, <3>7, <3>9, <3>10, <3>11, Zenon
  <2> QED
    BY <2>1, <2>2, Zenon
<1> HIDE DEF more
<1>3. step \in Building \ {"exec"} /\ "relro" \in Building \ {"exec"} /\ step # "scan"
  BY <1>1 DEF Building
<1> QED
  BY <1>1, <1>2, <1>3, AddingJustified, Zenon DEF AllJustified, Contains

LEMMA RelroAdded == ASSUME IInv, AddedInv, Relro PROVE AddedInv'
<1> DEFINE n == Option("-Wl,-z,now")
<1> DEFINE r == Option("-Wl,-z,relro")
<1> DEFINE now == IF config.relro = "full" THEN <<n>> ELSE <<>>
<1> DEFINE relro == IF config.relro # "none" THEN <<r>> ELSE <<>>
<1> DEFINE more == IF Kernel THEN <<>> ELSE now \o relro
<1>1. step = "relro" /\ Then("scan", more) /\ Inputs
  BY Zenon DEF Relro, IInv
<1>2. AllJustified(more)
  <2>1. n \in Words /\ n.opt = "-Wl,-z,now" /\ r \in Words /\ r.opt = "-Wl,-z,relro"
    BY OwnWords, Spelling, Zenon DEF Option
  <2> HIDE DEF n, r
  <2>2. Justified(n) /\ Justified(r)
    BY <2>1, NoJudgement
  <2>3. AllJustified(now) /\ AllJustified(relro)
    BY <2>1, <2>2, OneJustified, NoneJustified, Zenon
  <2> HIDE DEF now, relro
  <2> QED
    BY <2>3, BothJustified, NoneJustified, Zenon
<1> HIDE DEF more
<1> QED
  BY <1>1, <1>2, AddingJustified DEF AllJustified, Building, PiePassed

(* The arguments of the caller follow what has been added. *)
LEMMA ForwardAdded == ASSUME IInv, AddedInv, Forward PROVE AddedInv'
<1>1. step = "scan" /\ Then("exec", argv) /\ Inputs
  BY Zenon DEF Forward, IInv
<1>2. args' = args \o argv /\ args \in Seq(Words) /\ argv \in Seq(Words)
  BY <1>1 DEF Then, Inputs
<1>3. /\ Predefined' = Predefined /\ argv' = argv /\ config' = config /\ step' = "exec"
      /\ Len(args') = Len(args) + Len(argv) /\ Predefined \in Nat
  BY <1>1, <1>2, Adding, PIsNat, Zenon
<1>4. /\ Len(args) \in Nat /\ Len(argv) \in Nat
      /\ \A j \in 1 .. Len(args) : args'[j] = args[j]
      /\ \A k \in 1 .. Len(argv) : args'[Len(args) + k] = argv[k]
  <2> DEFINE both == args \o argv
  <2>1. /\ Len(args) \in Nat /\ Len(argv) \in Nat
        /\ \A j \in 1 .. Len(args) : both[j] = args[j]
        /\ \A k \in 1 .. Len(argv) : both[Len(args) + k] = argv[k]
    BY <1>2, Appended
  <2>2. args' = both
    BY <1>2
  <2> HIDE DEF both
  <2> QED
    BY <2>1, <2>2
<1>5. Front = Len(args) /\ Front' = Len(args)
  BY <1>1, <1>3, <1>4 DEF Front
<1>6. Added' = Added /\ \A j \in Added : args'[j] = args[j]
  <2>1. Added' = Added /\ Added = Predefined + 1 .. Len(args)
    BY <1>3, <1>5 DEF Added
  <2>2. \A j \in Predefined + 1 .. Len(args) : j \in 1 .. Len(args)
    BY <1>3, <1>4
  <2> QED
    BY <1>4, <2>1, <2>2
<1>7. /\ Predefined <= Front /\ \A j \in Added : Justified(args[j])
      /\ Position => /\ Given({"-shared"}) \/ Has(Option("-pie"))
                     /\ PicGiven \/ Has(Option("-fPIE"))
  BY <1>1 DEF AddedInv, Building, PiePassed
<1>8. \A w : Has(w)' <=> Has(w)
  BY <1>6, Zenon DEF Has
<1>9. /\ \A w : Justified(w)' <=> Justified(w)
      /\ Position' <=> Position
      /\ PicGiven' <=> PicGiven
      /\ Given({"-shared"})' <=> Given({"-shared"})
  BY <1>3, SameJudgement, Zenon
<1>10. \A j \in Added' : Justified(args[j])'
  BY <1>6, <1>7, <1>9, Zenon
<1>11. Position' => /\ Given({"-shared"})' \/ Has(Option("-pie"))'
                    /\ PicGiven' \/ Has(Option("-fPIE"))'
  BY <1>7, <1>8, <1>9, Zenon
<1>12. Predefined' <= Front'
  BY <1>3, <1>5, <1>7
<1>13. \A k \in DOMAIN argv' : args'[Front' + k] = argv'[k]
  BY <1>2, <1>3, <1>4, <1>5
<1> QED
  BY <1>10, <1>11, <1>12, <1>13, Zenon DEF AddedInv

LEMMA OthersAdded ==
  ASSUME IInv, AddedInv, UNCHANGED <<input, args>>, step' = step \/ step' \notin Building
  PROVE  AddedInv'
<1>1. CASE step' \notin Building
  BY <1>1, Zenon DEF AddedInv, Building
<1>2. CASE step' = step
  <2>1. config' = config /\ argv' = argv /\ args' = args
    BY DEF input
  <2>2. /\ \A w : Justified(w)' <=> Justified(w)
        /\ Position' <=> Position
        /\ PicGiven' <=> PicGiven
        /\ Given({"-shared"})' <=> Given({"-shared"})
    BY <2>1, SameJudgement, Zenon
  <2>3. Predefined' = Predefined /\ Front' = Front
    BY <1>2, <2>1, Zenon DEF Predefined, predef_args, Front
  <2>4. Added' = Added
    BY <2>3, Zenon DEF Added
  <2>5. \A w : Has(w)' <=> Has(w)
    BY <2>1, <2>4, Zenon DEF Has
  <2>6. step' \in Building => step \in Building /\ (step' \in PiePassed <=> step \in PiePassed)
    BY <1>2
  <2> QED
    BY <1>2, <2>1, <2>2, <2>3, <2>4, <2>5, <2>6, Zenon DEF AddedInv
<1> QED
  BY <1>1, <1>2

LEMMA NextAdded == IInv /\ AddedInv /\ [Next]_vars => AddedInv'
<1> SUFFICES ASSUME IInv, AddedInv, [Next]_vars PROVE AddedInv'
  OBVIOUS
<1>1. CASE UNCHANGED vars
  BY <1>1, OthersAdded DEF vars
<1>2. CASE CannotStart \/ EpochInvalid \/ CannotExec \/ Exec
  BY <1>2, OthersAdded DEF CannotStart, EpochInvalid, CannotExec, Exec, Exit, Building
<1>3. CASE ScanNext
  BY <1>3, OthersAdded DEF ScanNext
<1>4. "refused" \notin Building
  BY DEF Building
<1>5. CASE ScanJoined
  BY <1>4, <1>5, OthersAdded, Zenon DEF ScanJoined, Check
<1>6. CASE ScanSeparate
  BY <1>4, <1>6, OthersAdded, Zenon DEF ScanSeparate, Check
<1>7. CASE Next
  BY <1>2, <1>3, <1>5, <1>6, <1>7, AllocAdded, FloatAbiAdded, Fp32Added, ArchCpuAdded, EpochAdded, PieAdded,
     RelroAdded, ForwardAdded, Zenon DEF Next
<1> QED
  BY <1>1, <1>7

LEMMA LastPlace ==
  ASSUME NEW n \in Nat, NEW S \in SUBSET (1 .. n), S # {}
  PROVE  \E m \in S : \A l \in S : l <= m
<1> DEFINE D == {n - j : j \in S}
           R == OpToRel(<, Nat)
<1>1. D \subseteq Nat /\ D # {}
  <2>1. \A j \in S : j \in 1 .. n
    BY Zenon
  <2>2. \A j \in S : n - j \in Nat
    BY <2>1
  <2> QED
    BY <2>2
<1>2. IsWellFoundedOn(R, Nat)
  BY NatLessThanWellFounded
<1> HIDE DEF D, R
<1>3. PICK d \in D : \A e \in D : ~(<<e, d>> \in R)
  BY <1>1, <1>2, WFMin
<1>4. \A e \in D : ~(e < d)
  BY <1>1, <1>3 DEF R, OpToRel
<1>5. PICK m \in S : n - m = d
  BY <1>3 DEF D
<1>6. \A l \in S : l <= m
  <2> SUFFICES ASSUME NEW l \in S PROVE l <= m
    OBVIOUS
  <2>1. ~(n - l < d)
    BY <1>4 DEF D
  <2>2. l \in Nat /\ m \in Nat
    OBVIOUS
  <2> QED
    BY <1>5, <2>1, <2>2
<1> QED
  BY <1>6

LEMMA LastIs ==
  ASSUME NEW S, NEW list \in Seq(S), NEW words, NEW first \in DOMAIN list, list[first] \in words
  PROVE  \E m \in DOMAIN list :
            /\ LastOf(words, list) = list[m] /\ list[m] \in words
            /\ \A l \in DOMAIN list : list[l] \in words => l <= m
<1> DEFINE js == {j \in DOMAIN list : list[j] \in words}
<1>1. js \in SUBSET (1 .. Len(list)) /\ js # {} /\ Len(list) \in Nat
  <2>1. DOMAIN list = 1 .. Len(list) /\ Len(list) \in Nat
    OBVIOUS
  <2>2. first \in js
    OBVIOUS
  <2>3. js \subseteq DOMAIN list
    OBVIOUS
  <2> QED
    BY <2>1, <2>2, <2>3, Zenon
<1>2. \E m \in js : \A l \in js : l <= m
  <2> HIDE DEF js
  <2> QED
    BY <1>1, LastPlace
<1> DEFINE m == CHOOSE j \in js : \A l \in js : l <= j
<1>3. m \in js /\ \A l \in js : l <= m
  BY <1>2, Zenon
<1>4. LastOf(words, list) = list[m]
  BY <1>1, Zenon DEF LastOf
<1> HIDE DEF m
<1> QED
  BY <1>3, <1>4

LEMMA LastIsNone ==
  ASSUME NEW list, NEW words, \A j \in DOMAIN list : list[j] \notin words
  PROVE  LastOf(words, list) = Option("")
  BY Zenon DEF LastOf

(* The words between the predefined and the given ones are the added ones. *)
LEMMA OwnIsAdded ==
  ASSUME IInv, AddedInv, step = "exec", NEW opts, IsAdded(opts)
  PROVE  \E j \in Added : args[j].opt \in opts /\ Justified(args[j])
<1>1. /\ args \in Seq(Words) /\ argv \in Seq(Words) /\ Predefined \in Nat
      /\ Len(args) \in Nat /\ Len(argv) \in Nat
  BY PIsNat DEF IInv, Inputs
<1>2. Front = Len(args) - Len(argv) /\ Predefined <= Front /\ Front <= Len(args) /\ Front \in Int
  BY <1>1 DEF Front, AddedInv, Building
<1>3. Own = SubSeq(args, Predefined + 1, Front)
  BY <1>2, Zenon DEF Own, Predefined
<1>4. \A j \in Predefined + 1 .. Front : args[j] \in Words
  <2> SUFFICES ASSUME NEW j \in Predefined + 1 .. Front PROVE args[j] \in Words
    OBVIOUS
  <2>1. j \in 1 .. Len(args)
    BY <1>1, <1>2
  <2> QED
    BY <1>1, <2>1
<1>5. /\ Own \in Seq(Words)
      /\ Len(Own) = IF Predefined + 1 <= Front THEN Front - (Predefined + 1) + 1 ELSE 0
      /\ \A j \in 1 .. Front - (Predefined + 1) + 1 : Own[j] = args[Predefined + 1 + j - 1]
  BY <1>1, <1>2, <1>3, <1>4, SubSeqProperties
<1>6. PICK j \in DOMAIN Own : Own[j].opt \in opts
  BY Zenon DEF IsAdded
<1>7. Predefined + j \in Predefined + 1 .. Front /\ Own[j] = args[Predefined + j]
  <2>1. j \in 1 .. Len(Own) /\ DOMAIN Own = 1 .. Len(Own)
    BY <1>5
  <2>2. j \in 1 .. Front - (Predefined + 1) + 1 /\ Predefined + 1 + j - 1 = Predefined + j
    BY <1>1, <1>2, <1>5, <2>1
  <2>3. Own[j] = args[Predefined + 1 + j - 1]
    BY <1>5, <2>2, Zenon
  <2> QED
    BY <1>1, <1>2, <2>2, <2>3
<1>8. \A k \in Added : Justified(args[k])
  BY DEF AddedInv, Building
<1> QED
  BY <1>6, <1>7, <1>8, Zenon DEF Added

LEMMA ElementType == ASSUME NEW S, NEW s \in Seq(S), NEW j \in DOMAIN s PROVE s[j] \in S
  OBVIOUS

LEMMA GivenAs ==
  ASSUME argv \in Seq(Words), NEW j \in DOMAIN argv, NEW o, argv[j] = Option(o)
  PROVE  argv[j].opt = o /\ argv[j].rest = ""
<1>1. argv[j] = Word(o, "")
  BY Zenon DEF Option
<1>2. Word(o, "").opt = o /\ Word(o, "").rest = ""
  BY Spelling, Zenon
<1> QED
  BY <1>1, <1>2, Zenon

LEMMA GivenWord ==
  ASSUME argv \in Seq(Words), NEW j \in DOMAIN argv, argv[j].rest = ""
  PROVE  argv[j] = Option(argv[j].opt)
<1>1. argv[j] \in Words
  BY ElementType
<1>2. argv[j] \in [opt : Options, rest : Rests]
  BY <1>1, Zenon DEF Words
<1> QED
  BY <1>2 DEF Option, Word

(* What the caller gives is at the end of what is executed. *)
LEMMA GivenIsPassed ==
  ASSUME IInv, AddedInv, step = "exec"
  PROVE  /\ Predefined <= Front /\ Front \in Int /\ Len(args) = Front + Len(argv)
         /\ Len(args) \in Nat /\ Len(argv) \in Nat /\ Predefined \in Nat
         /\ DOMAIN args = 1 .. Len(args) /\ DOMAIN argv = 1 .. Len(argv)
         /\ \A k \in DOMAIN argv : Front + k \in DOMAIN args /\ args[Front + k] = argv[k]
         /\ \A j \in Added : j \in DOMAIN args
<1>1. /\ args \in Seq(Words) /\ argv \in Seq(Words) /\ Predefined \in Nat
      /\ Len(args) \in Nat /\ Len(argv) \in Nat
      /\ DOMAIN args = 1 .. Len(args) /\ DOMAIN argv = 1 .. Len(argv)
  BY PIsNat DEF IInv, Inputs
<1>2. Front = Len(args) - Len(argv) /\ Predefined <= Front
  BY <1>1 DEF Front, AddedInv, Building
<1>3. \A k \in DOMAIN argv : args[Front + k] = argv[k]
  BY DEF AddedInv, Building
<1>4. \A k \in 1 .. Len(argv) : Front + k \in 1 .. Len(args)
  BY <1>1, <1>2
<1>5. \A j \in Predefined + 1 .. Front : j \in 1 .. Len(args)
  BY <1>1, <1>2
<1>6. \A k \in DOMAIN argv : Front + k \in DOMAIN args
  BY <1>1, <1>4, Zenon
<1>7. \A j \in Added : j \in DOMAIN args
  BY <1>1, <1>5, Zenon DEF Added
<1>8. Front \in Int /\ Len(args) = Front + Len(argv)
  BY <1>1, <1>2
<1> QED
  BY <1>1, <1>2, <1>3, <1>6, <1>7, <1>8, Zenon

LEMMA AddedNotContradicted == IInv /\ AddedInv => NothingContradicted
<1> SUFFICES ASSUME IInv, AddedInv, step = "exec"
             PROVE  /\ IsAdded({"-mfloat-abi="}) =>
                         \A j \in DOMAIN argv :
                            argv[j].opt # "-mfloat-abi=" /\ argv[j] \notin {Option("-msoft-float"), Option("-mhard-float")}
                    /\ IsAdded({"-mfp"}) =>
                         LastOf({Option("-msoft-float"), Option("-mhard-float")}, argv) # Option("-msoft-float")
                    /\ IsAdded({"-march=", "-mcpu="}) =>
                         \A j \in DOMAIN argv : argv[j].opt \notin {"-march=", "-mtune=", "-mcpu="}
                    /\ IsAdded({"-pie"}) =>
                         ~Given(NotLinkedPie) /\ LastOf(PicWords \cup NonPicWords, args) \in PicWords
                    /\ config.pie /\ ~SaysOtherwise => LinksPie
  BY Zenon DEF NothingContradicted
<1>0. argv \in Seq(Words) /\ args \in Seq(Words)
  BY DEF IInv, Inputs
<1>1. ASSUME IsAdded({"-mfloat-abi="}), NEW j \in DOMAIN argv
      PROVE  argv[j].opt # "-mfloat-abi=" /\ argv[j] \notin {Option("-msoft-float"), Option("-mhard-float")}
  <2>1. PICK k \in Added : args[k].opt = "-mfloat-abi=" /\ Justified(args[k])
    <3>1. \E k \in Added : args[k].opt \in {"-mfloat-abi="} /\ Justified(args[k])
      BY <1>1, OwnIsAdded, Zenon
    <3> QED
      BY <3>1
  <2>2. ~FloatGiven
    BY <2>1, Zenon DEF Justified
  <2>3. argv[j].opt # "-mfloat-abi="
    BY <2>2, Zenon DEF FloatGiven, GivenWith
  <2>4. \A o \in {"-msoft-float", "-mhard-float"} : argv[j] # Option(o)
    BY <1>0, <2>2, GivenAs, Zenon DEF FloatGiven, Given
  <2> QED
    BY <2>3, <2>4, Zenon
<1>2. ASSUME IsAdded({"-mfp"})
      PROVE  LastOf({Option("-msoft-float"), Option("-mhard-float")}, argv) # Option("-msoft-float")
  <2> DEFINE float == {Option("-msoft-float"), Option("-mhard-float")}
  <2>1. PICK k \in Added : args[k].opt = "-mfp" /\ Justified(args[k])
    <3>1. \E k \in Added : args[k].opt \in {"-mfp"} /\ Justified(args[k])
      BY <1>2, OwnIsAdded, Zenon
    <3> QED
      BY <3>1
  <2>2. ~SoftFloat
    BY <2>1, Zenon DEF Justified
  <2>3. CASE \A j \in DOMAIN argv : argv[j] \notin float
    <3>1. LastOf(float, argv) = Option("")
      BY <2>3, LastIsNone, Zenon
    <3>2. Option("").opt = "" /\ Option("-msoft-float").opt = "-msoft-float"
      BY Spelling, Zenon DEF Option
    <3> QED
      BY <3>1, <3>2, Zenon
  <2>4. CASE \E j \in DOMAIN argv : argv[j] \in float
    <3> HIDE DEF float
    <3>1. PICK m \in DOMAIN argv : /\ LastOf(float, argv) = argv[m]
                                   /\ \A l \in DOMAIN argv : argv[l] \in float => l <= m
      BY <1>0, <2>4, LastIs
    <3>2. ASSUME NEW l \in DOMAIN argv, l > m PROVE argv[l] \notin float
      BY <1>0, <3>1, <3>2
    <3>3. \A l \in DOMAIN argv : l > m => argv[l] # Option("-mhard-float")
      BY <3>2, Zenon DEF float
    <3>4. argv[m] # Option("-msoft-float")
      BY <2>2, <3>3, Zenon DEF SoftFloat
    <3> QED
      BY <3>1, <3>4, Zenon DEF float
  <2> QED
    BY <2>3, <2>4, Zenon
<1>3. ASSUME IsAdded({"-march=", "-mcpu="}), NEW j \in DOMAIN argv
      PROVE  argv[j].opt \notin {"-march=", "-mtune=", "-mcpu="}
  <2>1. PICK k \in Added : args[k].opt \in {"-march=", "-mcpu="} /\ Justified(args[k])
    BY <1>3, OwnIsAdded, Zenon
  <2> QED
    BY <2>1, Zenon DEF Justified, GivenWith
<1>4. ASSUME IsAdded({"-pie"})
      PROVE  ~Given(NotLinkedPie) /\ LastOf(PicWords \cup NonPicWords, args) \in PicWords
  <2>1. PICK k \in Added : args[k].opt = "-pie" /\ Justified(args[k])
    <3>1. \E k \in Added : args[k].opt \in {"-pie"} /\ Justified(args[k])
      BY <1>4, OwnIsAdded, Zenon
    <3> QED
      BY <3>1
  <2>2. Position /\ ~Given({"-shared"})
    BY <2>1, Zenon DEF Justified
  <2>3. ~Given({"-r", "-Wl,-r", "-static", "-fno-pie", "-fno-PIE", "-no-pie"})
    BY <2>2, Zenon DEF Position, NoPie
  <2>4. ~Given(NotLinkedPie)
    BY <2>2, <2>3 DEF Given, NotLinkedPie
  <2>5. \A j \in DOMAIN argv : argv[j] \notin NonPicWords
    BY <1>0, <2>3, GivenAs, Zenon DEF Given, NonPicWords
  <2>6. \A j \in Added : args[j] \notin NonPicWords
    BY Zenon DEF AddedInv, Building, Justified
  <2>7. \E j \in DOMAIN args : args[j] \in PicWords /\ j > Predefined
    <3>1. PicGiven \/ Has(Option("-fPIE"))
      BY <2>2 DEF AddedInv, Building, PiePassed
    <3>2. CASE PicGiven
      <4>1. PICK j \in DOMAIN argv : argv[j].opt \in {"-fpie", "-fPIE", "-fpic", "-fPIC"} /\ argv[j].rest = ""
        BY <3>2, Zenon DEF PicGiven, Given
      <4>2. argv[j] = Option(argv[j].opt)
        BY <1>0, <4>1, GivenWord
      <4>3. argv[j] \in PicWords
        BY <4>1, <4>2, Zenon DEF PicWords
      <4>4. Front + j \in DOMAIN args /\ args[Front + j] \in PicWords /\ Front + j > Predefined
        BY <4>3, GivenIsPassed
      <4> QED
        BY <4>4, Zenon
    <3>3. CASE Has(Option("-fPIE"))
      <4>1. PICK j \in Added : args[j] = Option("-fPIE")
        BY <3>3, Zenon DEF Has
      <4>2. args[j] \in PicWords
        BY <4>1, Zenon DEF PicWords
      <4>3. j \in DOMAIN args /\ j > Predefined
        BY GivenIsPassed DEF Added
      <4> QED
        BY <4>2, <4>3, Zenon
    <3> QED
      BY <3>1, <3>2, <3>3, Zenon
  <2>8. PICK m \in DOMAIN args :
           /\ LastOf(PicWords \cup NonPicWords, args) = args[m] /\ args[m] \in PicWords \cup NonPicWords
           /\ \A l \in DOMAIN args : args[l] \in PicWords \cup NonPicWords => l <= m
    <3> DEFINE both == PicWords \cup NonPicWords
    <3>1. PICK first \in DOMAIN args : args[first] \in both
      BY <2>7, Zenon
    <3> HIDE DEF both
    <3>2. \E m \in DOMAIN args : /\ LastOf(both, args) = args[m] /\ args[m] \in both
                                 /\ \A l \in DOMAIN args : args[l] \in both => l <= m
      BY <1>0, <3>1, LastIs
    <3> QED
      BY <3>2, Zenon DEF both
  <2>9. m > Predefined
    <3>1. PICK j \in DOMAIN args : args[j] \in PicWords /\ j > Predefined
      BY <2>7, Zenon
    <3>2. j <= m
      BY <2>8, <3>1
    <3> QED
      BY <3>1, <3>2, GivenIsPassed
  <2>10. args[m] \notin NonPicWords
    <3>1. CASE m <= Front
      <4>1. m \in Added
        BY <2>9, <3>1, GivenIsPassed DEF Added
      <4> QED
        BY <2>6, <4>1, Zenon
    <3>2. CASE ~(m <= Front)
      <4>1. m - Front \in DOMAIN argv /\ m = Front + (m - Front)
        BY <3>2, GivenIsPassed
      <4>2. args[m] = argv[m - Front]
        BY <4>1, GivenIsPassed
      <4> QED
        BY <2>5, <4>1, <4>2, Zenon
    <3> QED
      BY <3>1, <3>2, Zenon
  <2> QED
    BY <2>4, <2>8, <2>10, Zenon
<1>5. ASSUME config.pie, ~SaysOtherwise PROVE LinksPie
  <2>1. ~Kernel /\ ~Given(NotLinkedPie) /\ LastOf(NonPicWords, args) = Option("")
    BY <1>5, Zenon DEF SaysOtherwise
  <2>2. \A j \in DOMAIN args : args[j] \notin NonPicWords
    <3> SUFFICES ASSUME NEW j \in DOMAIN args, args[j] \in NonPicWords PROVE FALSE
      OBVIOUS
    <3>1. Option("") \in NonPicWords
      BY <1>0, <2>1, LastIs, Zenon
    <3>2. Option("").opt = ""
      BY Spelling, Zenon DEF Option
    <3> QED
      BY <3>1, <3>2, NonPicSpelling
  <2>3. ~Given({"-fno-pie", "-fno-PIE"})
    <3> SUFFICES ASSUME NEW j \in DOMAIN argv, argv[j].opt \in {"-fno-pie", "-fno-PIE"}, argv[j].rest = ""
                 PROVE  FALSE
      BY Zenon DEF Given
    <3>1. argv[j] = Option(argv[j].opt)
      BY <1>0, GivenWord
    <3>2. argv[j] \in NonPicWords
      BY <3>1, Zenon DEF NonPicWords
    <3> QED
      BY <2>2, <3>2, GivenIsPassed, Zenon
  <2>4. Position /\ ~Given({"-shared"})
    BY <1>5, <2>1, <2>3 DEF Position, NoPie, NotLinkedPie, Given
  <2>5. Has(Option("-pie"))
    BY <2>4 DEF AddedInv, Building, PiePassed
  <2>6. PICK j \in Added : args[j] = Option("-pie")
    BY <2>5, Zenon DEF Has
  <2>7. j \in DOMAIN args
    BY GivenIsPassed
  <2> QED
    BY <2>6, <2>7, Zenon DEF LinksPie
<1> QED
  BY <1>1, <1>2, <1>3, <1>4, <1>5, Zenon

(* Lines 40-43 of toolchain-wrapper.c: for every target and command line,   *)
(* no word the wrapper adds is contradicted by the caller's, and a program *)
(* is linked as position independent exactly where its code is.            *)
THEOREM NeverContradicts == Spec => []NothingContradicted
<1>1. Init => AddedInv
  BY DEF Init, AddedInv, Building
<1>2. Init => IInv
  BY InitIInv
<1>3. IInv /\ [Next]_vars => IInv'
  BY NextIInv
<1>4. IInv /\ AddedInv /\ [Next]_vars => AddedInv'
  BY NextAdded
<1>5. IInv /\ AddedInv => NothingContradicted
  BY AddedNotContradicted
<1> QED
  BY <1>1, <1>2, <1>3, <1>4, <1>5, PTL DEF Spec

-----------------------------------------------------------------------------

(***************************************************************************)
(* The search for unsafe paths.  The scan stands at an argument that is not *)
(* the path of the one before, or at such a path, which it has compared,   *)
(* or behind an option with its path in the same argument, likewise.       *)
(***************************************************************************)
Compared == i \in UsesHost => i \in reported
ScanInv ==
    /\ step \notin {"scan", "exec", "running", "failed", "refused"} => reported = {} /\ i = 1 /\ opt = 1
    /\ i \in Nat \ {0} /\ opt \in Nat \ {0}
    /\ \A j \in reported :
          j \in DOMAIN argv /\ argv[j].rest \in Begins /\ (IsPath[j] \/ argv[j].opt \in DirOpts)
    /\ step \in {"scan", "exec", "running"} =>
          /\ env.paranoid => reported = {}
          /\ \A j \in UsesHost : j < i => j \in reported
    /\ step = "scan" /\ i \in DOMAIN argv =>
          \/ opt = 1 /\ ~IsPath[i]
          \/ IsPath[i] /\ Compared
          \/ /\ ~IsPath[i] /\ argv[i].rest # "" /\ Compared
             /\ \E o \in DOMAIN unsafe_opts : o < opt /\ unsafe_opts[o] = argv[i].opt
    /\ step \in {"exec", "running"} => i \notin DOMAIN argv
IScan == PathsAreNoOptions => ScanInv

(***************************************************************************)
(* The recursive IsPath is the function that says whether the run of       *)
(* options without a path that ends before an argument has an odd length.  *)
(***************************************************************************)
Lone(j) == Alone(argv[j])
Run(k, j) == \* from k to j - 1
    /\ \A l \in k .. j - 1 : Lone(l)
    /\ k = 1 \/ ~Lone(k - 1)
OddRun == [j \in DOMAIN argv |-> \E k \in 1 .. j - 1 : Run(k, j) /\ (j - k) % 2 = 1]

LEMMA RunExists ==
  ASSUME NEW j \in Nat, j > 1, Lone(j - 1)
  PROVE  \E k \in 1 .. j - 1 : Run(k, j)
<1> DEFINE S == {k \in Nat : k >= 1 /\ k <= j - 1 /\ \A l \in k .. j - 1 : Lone(l)}
           R == OpToRel(<, Nat)
<1>1. j - 1 \in S
  <2>1. \A l \in j - 1 .. j - 1 : l = j - 1
    OBVIOUS
  <2> QED
    BY <2>1
<1>2. S \subseteq Nat /\ S # {}
  BY <1>1
<1>3. IsWellFoundedOn(R, Nat)
  BY NatLessThanWellFounded
<1> HIDE DEF S, R
<1>4. PICK k \in S : \A l \in S : ~(<<l, k>> \in R)
  BY <1>2, <1>3, WFMin
<1>5. \A l \in S : ~(l < k)
  BY <1>2, <1>4 DEF R, OpToRel
<1>6. k \in Nat /\ k >= 1 /\ k <= j - 1 /\ \A l \in k .. j - 1 : Lone(l)
  BY DEF S
<1>7. k = 1 \/ ~Lone(k - 1)
  <2> SUFFICES ASSUME k # 1, Lone(k - 1) PROVE FALSE
    OBVIOUS
  <2>1. k - 1 \in Nat /\ k - 1 >= 1 /\ k - 1 <= j - 1
    BY <1>6
  <2>2. \A l \in k - 1 .. j - 1 : l = k - 1 \/ l \in k .. j - 1
    BY <1>6
  <2>3. k - 1 \in S
    BY <1>6, <2>1, <2>2 DEF S
  <2> QED
    BY <1>5, <1>6, <2>3
<1> QED
  BY <1>6, <1>7 DEF Run

LEMMA OneRun ==
  ASSUME NEW j \in Nat, NEW k \in 1 .. j - 1, NEW m \in 1 .. j - 1, Run(k, j), Run(m, j)
  PROVE  k = m
<1>1. ASSUME NEW a \in 1 .. j - 1, NEW b \in 1 .. j - 1, Run(a, j), Run(b, j), a < b PROVE FALSE
  <2>1. b - 1 \in a .. j - 1 /\ b # 1
    BY <1>1
  <2>2. Lone(b - 1) /\ ~Lone(b - 1)
    BY <1>1, <2>1 DEF Run
  <2> QED
    BY <2>2
<1>2. k \in Int /\ m \in Int
  OBVIOUS
<1>3. ~(k < m) /\ ~(m < k)
  BY <1>1
<1> QED
  BY <1>2, <1>3

LEMMA OddRunStep ==
  ASSUME argv \in Seq(Words), NEW j \in DOMAIN argv
  PROVE  OddRun[j] <=> (j > 1 /\ Lone(j - 1) /\ ~OddRun[j - 1])
<1>1. j \in Nat /\ j >= 1 /\ Len(argv) \in Nat /\ DOMAIN argv = 1 .. Len(argv) /\ j <= Len(argv)
  OBVIOUS
<1>2. OddRun[j] <=> \E k \in 1 .. j - 1 : Run(k, j) /\ (j - k) % 2 = 1
  BY DEF OddRun
<1>3. j > 1 => j - 1 \in DOMAIN argv
  BY <1>1
<1>4. j > 1 => (OddRun[j - 1] <=> \E k \in 1 .. j - 2 : Run(k, j - 1) /\ (j - 1 - k) % 2 = 1)
  <2>1. j - 1 - 1 = j - 2
    BY <1>1
  <2> QED
    BY <1>3, <2>1 DEF OddRun
<1>5. ASSUME j > 1, Lone(j - 1), NEW k \in 1 .. j - 2
      PROVE  Run(k, j) <=> Run(k, j - 1)
  <2>1. \A l \in k .. j - 1 : l = j - 1 \/ l \in k .. (j - 1) - 1
    BY <1>1
  <2>2. \A l \in k .. (j - 1) - 1 : l \in k .. j - 1
    BY <1>1
  <2> QED
    BY <1>5, <2>1, <2>2 DEF Run
<1>6. ASSUME OddRun[j] PROVE j > 1 /\ Lone(j - 1) /\ ~OddRun[j - 1]
  <2>1. PICK k \in 1 .. j - 1 : Run(k, j) /\ (j - k) % 2 = 1
    BY <1>2, <1>6
  <2>2. j > 1 /\ j - 1 \in k .. j - 1
    BY <1>1
  <2>3. Lone(j - 1)
    BY <2>1, <2>2 DEF Run
  <2>4. ASSUME OddRun[j - 1] PROVE FALSE
    <3>1. PICK m \in 1 .. j - 2 : Run(m, j - 1) /\ (j - 1 - m) % 2 = 1
      BY <1>4, <2>2, <2>4
    <3>2. Run(m, j) /\ m \in 1 .. j - 1
      BY <1>1, <1>5, <2>2, <2>3, <3>1
    <3>3. m = k
      BY <1>1, <2>1, <3>2, OneRun
    <3>4. (j - k) % 2 = 1 /\ (j - 1 - k) % 2 = 1 /\ j - k \in Nat
      BY <1>1, <2>1, <3>1, <3>3
    <3>5. j - 1 - k = (j - k) - 1
      BY <1>1
    <3> QED
      BY <3>4, <3>5
  <2> QED
    BY <2>2, <2>3, <2>4
<1>7. ASSUME j > 1, Lone(j - 1), ~OddRun[j - 1] PROVE OddRun[j]
  <2>1. PICK k \in 1 .. j - 1 : Run(k, j)
    BY <1>1, <1>7, RunExists
  <2>2. CASE (j - k) % 2 = 1
    BY <1>2, <2>1, <2>2
  <2>3. CASE (j - k) % 2 # 1
    <3>1. (j - 1 - k) % 2 = 1 /\ k # j - 1
      <4>1. j - k \in Nat /\ j - k >= 1 /\ j - 1 - k = (j - k) - 1
        BY <1>1
      <4> QED
        BY <2>3, <4>1
    <3>2. k \in 1 .. j - 2
      BY <1>1, <3>1
    <3>3. Run(k, j - 1)
      BY <1>5, <1>7, <2>1, <3>2
    <3> QED
      BY <1>4, <1>7, <3>1, <3>2, <3>3
  <2> QED
    BY <2>2, <2>3
<1> QED
  BY <1>6, <1>7

LEMMA PathStep ==
  ASSUME argv \in Seq(Words)
  PROVE  \A j \in DOMAIN argv : IsPath[j] <=> (j > 1 /\ Alone(argv[j - 1]) /\ ~IsPath[j - 1])
<1> DEFINE Rest(p) == [j \in DOMAIN argv |-> j > 1 /\ Alone(argv[j - 1]) /\ ~p[j - 1]]
<1>1. OddRun = Rest(OddRun)
  <2>1. \A j \in DOMAIN argv : OddRun[j] <=> Rest(OddRun)[j]
    BY OddRunStep DEF Lone
  <2>2. \A j \in DOMAIN argv : OddRun[j] = Rest(OddRun)[j]
    BY <2>1 DEF OddRun
  <2> QED
    BY <2>2 DEF OddRun
<1>2. IsPath = CHOOSE p : p = Rest(p)
  BY Zenon DEF IsPath
<1>3. IsPath = Rest(IsPath)
  BY <1>1, <1>2, Zenon
<1> QED
  BY <1>3, Zenon

LEMMA PathAfter ==
  ASSUME argv \in Seq(Words), NEW n \in Nat \ {0}, n + 1 \in DOMAIN argv
  PROVE  IsPath[n + 1] <=> Alone(argv[n]) /\ ~IsPath[n]
<1>1. PICK j \in DOMAIN argv : j = n + 1
  OBVIOUS
<1>2. IsPath[j] <=> j > 1 /\ Alone(argv[j - 1]) /\ ~IsPath[j - 1]
  BY PathStep, Zenon
<1>3. j > 1 /\ j - 1 = n
  BY <1>1
<1>4. IsPath[j] <=> Alone(argv[n]) /\ ~IsPath[n]
  BY <1>2, <1>3
<1> QED
  BY <1>1, <1>4, Zenon

LEMMA DistinctOpts ==
  /\ DOMAIN unsafe_opts \subseteq Nat /\ "" \notin DirOpts
  /\ \A o, p \in DOMAIN unsafe_opts : unsafe_opts[o] = unsafe_opts[p] => o = p
<1>1. DOMAIN unsafe_opts = 1 .. 5
  BY DEF unsafe_opts
<1>2. /\ unsafe_opts[1] = "-I" /\ unsafe_opts[2] = "-idirafter" /\ unsafe_opts[3] = "-iquote"
      /\ unsafe_opts[4] = "-isystem" /\ unsafe_opts[5] = "-L"
  BY DEF unsafe_opts
<1>3. \A o \in 1 .. 5 : o = 1 \/ o = 2 \/ o = 3 \/ o = 4 \/ o = 5
  OBVIOUS
<1>4. \A o \in 1 .. 5 : unsafe_opts[o] # ""
  BY <1>2, <1>3
<1>5. \A o, p \in 1 .. 5 : unsafe_opts[o] = unsafe_opts[p] => o = p
  BY <1>2, <1>3
<1>6. "" \notin DirOpts
  BY <1>1, <1>4, Zenon DEF DirOpts
<1>7. DOMAIN unsafe_opts \subseteq Nat
  BY <1>1
<1> QED
  BY <1>1, <1>5, <1>6, <1>7, Zenon

LEMMA Neighbours ==
  \A n \in Nat \ {0} : n + 1 \in Nat \ {0} /\ n + 2 \in Nat \ {0} /\ n + 1 - 1 = n /\ n + 1 > 1
  OBVIOUS

LEMMA Between ==
  \A m, n \in Nat : /\ m < n + 1 => m < n \/ m = n
                    /\ m < n + 2 => m < n \/ m = n \/ m = n + 1
  OBVIOUS

LEMMA HostPlaces ==
  ASSUME argv \in Seq(Words)
  PROVE  \A j \in UsesHost : j \in DOMAIN argv /\ j \in Nat /\ ~(j < 1)
<1>1. DOMAIN argv = 1 .. Len(argv) /\ Len(argv) \in Nat
  OBVIOUS
<1>2. \A j \in 1 .. Len(argv) : j \in Nat /\ ~(j < 1)
  OBVIOUS
<1>3. \A j \in UsesHost : j \in DOMAIN argv
  BY Zenon DEF UsesHost
<1> QED
  BY <1>1, <1>2, <1>3, Zenon

LEMMA SameWords ==
  ASSUME argv' = argv
  PROVE  IsPath' = IsPath /\ UsesHost' = UsesHost /\ (PathsAreNoOptions' <=> PathsAreNoOptions)
<1>1. IsPath' = IsPath
  BY Zenon DEF IsPath, Alone, DirOpts, unsafe_opts
<1> QED
  BY <1>1, Zenon DEF UsesHost, PathsAreNoOptions, DirOpts, unsafe_opts, Host

(* Where an option is found, the scan has just come to its argument. *)
LEMMA FoundFirst ==
  ASSUME PathsAreNoOptions, ScanInv, step = "scan", i \in DOMAIN argv, NEW o \in Matching
  PROVE  /\ ~IsPath[i] /\ argv[i].opt = unsafe_opts[o] /\ argv[i].opt \in DirOpts
         /\ o \in DOMAIN unsafe_opts /\ o \in Nat
<1>1. o \in DOMAIN unsafe_opts /\ o >= opt /\ unsafe_opts[o] = argv[i].opt
  BY Zenon DEF Matching
<1>2. argv[i].opt \in DirOpts /\ o \in Nat /\ opt \in Nat
  BY <1>1, DistinctOpts, Zenon DEF DirOpts, ScanInv
<1>3. ASSUME IsPath[i] PROVE FALSE
  BY <1>2, <1>3, DistinctOpts DEF PathsAreNoOptions
<1> QED
  BY <1>1, <1>2, <1>3, Zenon

LEMMA ScanNextScan == ASSUME IInv, PathsAreNoOptions, ScanInv, ScanNext PROVE ScanInv'
<1>1. /\ step = "scan" /\ i \in DOMAIN argv /\ Matching = {} /\ i' = i + 1 /\ opt' = 1
      /\ step' = "scan" /\ argv' = argv /\ env' = env /\ reported' = reported
  BY DEF ScanNext, input
<1>2. argv \in Seq(Words)
  BY DEF IInv, Inputs
<1>3. IsPath' = IsPath /\ UsesHost' = UsesHost
  BY <1>1, SameWords, Zenon
<1>4. Compared /\ ~(Alone(argv[i]) /\ ~IsPath[i])
  <2>1. CASE opt = 1 /\ ~IsPath[i]
    <3>1. \A o \in DOMAIN unsafe_opts : o >= 1
      BY DEF unsafe_opts
    <3>2. \A o \in DOMAIN unsafe_opts : unsafe_opts[o] # argv[i].opt
      BY <1>1, <2>1, <3>1 DEF Matching
    <3>3. argv[i].opt \notin DirOpts
      BY <3>2, Zenon DEF DirOpts
    <3> QED
      BY <2>1, <3>3, Zenon DEF Compared, UsesHost, Alone
  <2>2. CASE IsPath[i] /\ Compared
    BY <2>2, Zenon
  <2>3. CASE argv[i].rest # "" /\ Compared
    BY <2>3, Zenon DEF Alone
  <2> QED
    BY <1>1, <2>1, <2>2, <2>3, Zenon DEF ScanInv
<1>5. i \in Nat \ {0} /\ i \in Nat /\ i + 1 - 1 = i
  <2>1. i \in Nat \ {0}
    BY Zenon DEF ScanInv
  <2> QED
    BY <2>1, Neighbours
<1>6. i + 1 \in DOMAIN argv => ~IsPath[i + 1]
  BY <1>2, <1>4, <1>5, PathAfter, Zenon
<1>7. \A j \in UsesHost : j < i + 1 => j \in reported
  <2> SUFFICES ASSUME NEW j \in UsesHost, j < i + 1 PROVE j \in reported
    OBVIOUS
  <2>1. j \in Nat
    BY <1>2, HostPlaces
  <2>2. j < i \/ j = i
    BY <1>5, <2>1, Between
  <2>3. j < i => j \in reported
    BY <1>1, Zenon DEF ScanInv
  <2> QED
    BY <1>4, <2>2, <2>3, Zenon DEF Compared
<1>8. /\ env.paranoid => reported = {}
      /\ \A j \in reported : j \in DOMAIN argv /\ argv[j].rest \in Begins /\ (IsPath[j] \/ argv[j].opt \in DirOpts)
  BY <1>1, Zenon DEF ScanInv
<1>9. i + 1 \in Nat \ {0} /\ 1 \in Nat \ {0}
  BY <1>5, Neighbours
<1> QED
  BY <1>1, <1>3, <1>6, <1>7, <1>8, <1>9 DEF ScanInv

LEMMA ScanJoinedScan == ASSUME IInv, PathsAreNoOptions, ScanInv, ScanJoined PROVE ScanInv'
<1>1. PICK o \in Matching : argv[i].rest # "" /\ Check(i, argv[i].rest, i' = i /\ opt' = o + 1)
  BY Zenon DEF ScanJoined
<1>2. step = "scan" /\ i \in DOMAIN argv /\ argv' = argv /\ env' = env
  BY DEF ScanJoined, input
<1>3. IsPath' = IsPath /\ UsesHost' = UsesHost
  BY <1>2, SameWords, Zenon
<1>4. /\ ~IsPath[i] /\ argv[i].opt = unsafe_opts[o] /\ argv[i].opt \in DirOpts
      /\ o \in DOMAIN unsafe_opts /\ o \in Nat
  BY <1>2, FoundFirst, Zenon
<1>5. /\ i \in Nat \ {0} /\ opt \in Nat \ {0} /\ (env.paranoid => reported = {})
      /\ \A j \in UsesHost : j < i => j \in reported
      /\ \A j \in reported : j \in DOMAIN argv /\ argv[j].rest \in Begins /\ (IsPath[j] \/ argv[j].opt \in DirOpts)
  BY <1>2, Zenon DEF ScanInv
<1>6. reported' = IF argv[i].rest \in Begins THEN reported \cup {i} ELSE reported
  BY <1>1, Zenon DEF Check
<1>7. \A j \in reported' :
         j \in DOMAIN argv /\ argv[j].rest \in Begins /\ (IsPath[j] \/ argv[j].opt \in DirOpts)
  BY <1>2, <1>4, <1>5, <1>6
<1>8. i' = i /\ opt' \in Nat \ {0}
  <2>1. o + 1 \in Nat \ {0}
    BY <1>4
  <2>2. i' = i /\ (opt' = opt \/ opt' = o + 1)
    BY <1>1, Zenon DEF Check
  <2> QED
    BY <1>5, <2>1, <2>2, Zenon
<1>9. CASE argv[i].rest \in Begins /\ env.paranoid
  <2>1. step' = "refused"
    BY <1>1, <1>9, Zenon DEF Check
  <2> QED
    BY <1>2, <1>3, <1>5, <1>7, <1>8, <2>1 DEF ScanInv
<1>10. CASE ~(argv[i].rest \in Begins /\ env.paranoid)
  <2>1. step' = "scan" /\ opt' = o + 1
    BY <1>1, <1>2, <1>10, Zenon DEF Check
  <2>2. i \in UsesHost => i \in reported'
    BY <1>4, <1>6, Zenon DEF UsesHost, Begins
  <2>3. env.paranoid => reported' = {}
    <3> SUFFICES ASSUME env.paranoid PROVE reported' = {}
      OBVIOUS
    <3>1. argv[i].rest \notin Begins /\ reported = {}
      BY <1>5, <1>10
    <3> QED
      BY <1>6, <3>1, Zenon
  <2>4. \A j \in UsesHost : j < i => j \in reported'
    BY <1>5, <1>6
  <2>5. o < opt' /\ unsafe_opts[o] = argv[i].opt
    BY <1>4, <2>1
  <2> QED
    BY <1>1, <1>2, <1>3, <1>4, <1>5, <1>7, <1>8, <2>1, <2>2, <2>3, <2>4, <2>5 DEF ScanInv, Compared
<1> QED
  BY <1>9, <1>10, Zenon

LEMMA ScanSeparateScan == ASSUME IInv, PathsAreNoOptions, ScanInv, ScanSeparate PROVE ScanInv'
<1>1. PICK o \in Matching :
         /\ argv[i].rest = ""
         /\ IF i + 1 \in DOMAIN argv
            THEN Check(i + 1, PathOf(argv[i + 1]), i' = i + 1 /\ opt' = o + 1)
            ELSE i' = i + 2 /\ UNCHANGED <<opt, step, reported>>
  BY Zenon DEF ScanSeparate
<1>2. step = "scan" /\ i \in DOMAIN argv /\ argv' = argv /\ env' = env /\ argv \in Seq(Words)
  BY DEF ScanSeparate, input, IInv, Inputs
<1>3. IsPath' = IsPath /\ UsesHost' = UsesHost
  BY <1>2, SameWords, Zenon
<1>4. /\ ~IsPath[i] /\ argv[i].opt = unsafe_opts[o] /\ argv[i].opt \in DirOpts
      /\ o \in DOMAIN unsafe_opts /\ o \in Nat
  BY <1>2, FoundFirst, Zenon
<1>5. /\ i \in Nat \ {0} /\ opt \in Nat \ {0} /\ (env.paranoid => reported = {})
      /\ \A j \in UsesHost : j < i => j \in reported
      /\ \A j \in reported : j \in DOMAIN argv /\ argv[j].rest \in Begins /\ (IsPath[j] \/ argv[j].opt \in DirOpts)
  BY <1>2, Zenon DEF ScanInv
<1>6. i \notin UsesHost
  BY <1>1 DEF UsesHost, Host
<1>7. \A j \in UsesHost : j \in DOMAIN argv /\ j \in Nat
  BY <1>2, HostPlaces
<1>8. CASE i + 1 \notin DOMAIN argv
  <2>1. i' = i + 2 /\ opt' = opt /\ step' = step /\ reported' = reported
    BY <1>1, <1>8
  <2>2. i + 2 \notin DOMAIN argv
    BY <1>2, <1>5, <1>8
  <2>3. \A j \in UsesHost : j < i + 2 => j < i
    <3> SUFFICES ASSUME NEW j \in UsesHost, j < i + 2 PROVE j < i
      OBVIOUS
    <3>1. j # i /\ j # i + 1 /\ j \in Nat /\ i \in Nat
      <4>1. j \in DOMAIN argv /\ j \in Nat
        BY <1>7, Zenon
      <4>2. j # i /\ j # i + 1
        BY <1>6, <1>8, <4>1, Zenon
      <4> QED
        BY <1>5, <4>1, <4>2
    <3> QED
      BY <3>1, Between
  <2>4. i + 2 \in Nat \ {0}
    BY <1>5, Neighbours, Zenon
  <2> QED
    BY <1>2, <1>3, <1>5, <2>1, <2>2, <2>3, <2>4 DEF ScanInv
<1>9. CASE i + 1 \in DOMAIN argv
  <2>1. Check(i + 1, PathOf(argv[i + 1]), i' = i + 1 /\ opt' = o + 1)
    BY <1>1, <1>9, Zenon
  <2>2. IsPath[i + 1]
    <3>1. Alone(argv[i])
      BY <1>1, <1>4, Zenon DEF Alone
    <3> QED
      BY <1>2, <1>4, <1>5, <1>9, <3>1, PathAfter, Zenon
  <2>3. argv[i + 1].opt = "" /\ PathOf(argv[i + 1]) = argv[i + 1].rest
    BY <1>9, <2>2, Zenon DEF PathOf, PathsAreNoOptions
  <2>4. reported' = IF argv[i + 1].rest \in Begins THEN reported \cup {i + 1} ELSE reported
    BY <2>1, <2>3, Zenon DEF Check
  <2>5. \A j \in reported' :
           j \in DOMAIN argv /\ argv[j].rest \in Begins /\ (IsPath[j] \/ argv[j].opt \in DirOpts)
    BY <1>5, <1>9, <2>2, <2>4
  <2>6. i' \in Nat \ {0} /\ opt' \in Nat \ {0}
    <3>1. o + 1 \in Nat \ {0} /\ i + 1 \in Nat \ {0}
      <4>1. o + 1 \in Nat \ {0}
        BY <1>4
      <4> QED
        BY <1>5, <4>1, Neighbours, Zenon
    <3>2. (i' = i \/ i' = i + 1) /\ (opt' = opt \/ opt' = o + 1)
      BY <2>1, Zenon DEF Check
    <3> QED
      BY <1>5, <3>1, <3>2, Zenon
  <2>7. CASE argv[i + 1].rest \in Begins /\ env.paranoid
    <3>1. step' = "refused"
      BY <2>1, <2>3, <2>7, Zenon DEF Check
    <3> QED
      BY <1>2, <1>3, <2>5, <2>6, <3>1 DEF ScanInv
  <2>8. CASE ~(argv[i + 1].rest \in Begins /\ env.paranoid)
    <3>1. step' = "scan" /\ i' = i + 1 /\ opt' = o + 1
      BY <1>2, <2>1, <2>3, <2>8, Zenon DEF Check
    <3>2. i + 1 \in UsesHost => i + 1 \in reported'
      BY <2>2, <2>4, Zenon DEF UsesHost, Begins
    <3>3. env.paranoid => reported' = {}
      <4> SUFFICES ASSUME env.paranoid PROVE reported' = {}
        OBVIOUS
      <4>1. argv[i + 1].rest \notin Begins /\ reported = {}
        BY <1>5, <2>8
      <4> QED
        BY <2>4, <4>1, Zenon
    <3>4. \A j \in UsesHost : j < i + 1 => j \in reported'
      <4> SUFFICES ASSUME NEW j \in UsesHost, j < i + 1 PROVE j \in reported'
        OBVIOUS
      <4>1. j < i
        <5>1. j \in Nat /\ i \in Nat /\ j # i
          BY <1>5, <1>6, <1>7
        <5> QED
          BY <5>1, Between
      <4> QED
        BY <1>5, <2>4, <4>1
    <3> QED
      BY <1>2, <1>3, <2>2, <2>5, <2>6, <3>1, <3>2, <3>3, <3>4 DEF ScanInv, Compared
  <2> QED
    BY <2>7, <2>8, Zenon
<1> QED
  BY <1>8, <1>9, Zenon

LEMMA NextScan == IInv /\ IScan /\ [Next]_vars => IScan'
<1> SUFFICES ASSUME IInv, IScan, [Next]_vars, PathsAreNoOptions' PROVE ScanInv'
  BY Zenon DEF IScan
<1>1. argv' = argv /\ env' = env
  BY DEF Next, vars, input, CannotStart, Alloc, FloatAbi, Fp32, ArchCpu, EpochInvalid, Epoch, Pie, Relro,
     ScanNext, ScanJoined, ScanSeparate, Forward, Exec, CannotExec, Then, Exit
<1>2. /\ IsPath' = IsPath /\ UsesHost' = UsesHost /\ PathsAreNoOptions
      /\ ScanInv
  BY <1>1, SameWords, Zenon DEF IScan
<1>3. ASSUME UNCHANGED <<i, opt, reported>>,
             \/ step' = step
             \/ step' \in {"failed", "float", "fp32", "cpu", "epoch", "pie", "relro"}
                /\ step \notin {"scan", "exec", "running", "failed", "refused"}
             \/ step' = "failed" /\ step = "exec"
             \/ step' = "scan" /\ step = "relro"
             \/ step' = "exec" /\ step = "scan" /\ i \notin DOMAIN argv
             \/ step' = "running" /\ step = "exec"
      PROVE  ScanInv'
  <2>0. argv \in Seq(Words)
    BY DEF IInv, Inputs
  <2>1. 1 \in DOMAIN argv => ~IsPath[1]
    <3>1. 1 \in DOMAIN argv => (IsPath[1] <=> 1 > 1 /\ Alone(argv[1 - 1]) /\ ~IsPath[1 - 1])
      BY <2>0, PathStep
    <3> QED
      BY <3>1
  <2>2. \A j \in UsesHost : ~(j < 1)
    BY <2>0, HostPlaces, Zenon
  <2> QED
    BY <1>1, <1>2, <1>3, <2>1, <2>2 DEF ScanInv, Compared
<1>4. CASE UNCHANGED vars
  BY <1>3, <1>4 DEF vars
<1>5. CASE CannotStart \/ EpochInvalid \/ CannotExec
  BY <1>3, <1>5 DEF CannotStart, EpochInvalid, CannotExec, Exit
<1>6. CASE Alloc \/ FloatAbi \/ Fp32 \/ ArchCpu \/ Epoch \/ Pie
  BY <1>3, <1>6 DEF Alloc, FloatAbi, Fp32, ArchCpu, Epoch, Pie, Then
<1>7. CASE Relro \/ Forward \/ Exec
  BY <1>3, <1>7 DEF Relro, Forward, Exec, Then
<1>8. CASE ScanNext
  BY <1>2, <1>8, ScanNextScan
<1>9. CASE ScanJoined
  BY <1>2, <1>9, ScanJoinedScan
<1>10. CASE ScanSeparate
  BY <1>2, <1>10, ScanSeparateScan
<1> QED
  BY <1>4, <1>5, <1>6, <1>7, <1>8, <1>9, <1>10, Zenon DEF Next

LEMMA ScanFound == IInv /\ IScan => UnsafeFound
<1> SUFFICES ASSUME IInv, ScanInv
             PROVE  /\ step \in {"exec", "running"} => UsesHost \subseteq reported /\ (env.paranoid => UsesHost = {})
                    /\ \A j \in reported : argv[j].rest \in Begins /\ (IsPath[j] \/ argv[j].opt \in DirOpts)
  BY Zenon DEF UnsafeFound, IScan
<1>1. argv \in Seq(Words) /\ i \in Nat \ {0}
  BY Zenon DEF IInv, Inputs, ScanInv
<1>2. ASSUME step \in {"exec", "running"}, NEW j \in UsesHost PROVE j \in reported
  <2>1. i \notin DOMAIN argv /\ j \in DOMAIN argv
    BY <1>2, Zenon DEF ScanInv, UsesHost
  <2>2. j < i
    <3>1. DOMAIN argv = 1 .. Len(argv) /\ Len(argv) \in Nat
      BY <1>1
    <3> QED
      BY <1>1, <2>1, <3>1
  <2> QED
    BY <1>2, <2>2 DEF ScanInv
<1>3. step \in {"exec", "running"} /\ env.paranoid => reported = {}
  BY DEF ScanInv
<1>4. \A j \in reported : argv[j].rest \in Begins /\ (IsPath[j] \/ argv[j].opt \in DirOpts)
  BY Zenon DEF ScanInv
<1> QED
  BY <1>2, <1>3, <1>4

(* Lines 479-499 of toolchain-wrapper.c: for every command line without a   *)
(* path that looks like an option, the directories of the build machine    *)
(* that gcc would use are found, and the paranoid wrapper does not start it.*)
THEOREM UnsafeAlwaysFound == Spec => []UnsafeFound
<1>1. Init => IScan
  BY DEF Init, IScan, ScanInv
<1>2. Init => IInv
  BY InitIInv
<1>3. IInv /\ [Next]_vars => IInv'
  BY NextIInv
<1>4. IInv /\ IScan /\ [Next]_vars => IScan'
  BY NextScan
<1>5. IInv /\ IScan => UnsafeFound
  BY ScanFound
<1> QED
  BY <1>1, <1>2, <1>3, <1>4, <1>5, PTL DEF Spec
=============================================================================
