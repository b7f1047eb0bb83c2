----------------------- MODULE ProcessArgumentsProofs -----------------------
(***************************************************************************)
(* Every plan that resolves crosses the process boundary with the runtime  *)
(* that was confirmed, and no capture does, for any plans, limits and fixed*)
(* checks.  The arguments of a child are looked at position by position, as*)
(* the boundary does.  The line a child is given is taken apart into what  *)
(* it was built of, for every list and every argument: the loops on both   *)
(* sides are recursive functions, and what they compute is shown along the *)
(* units by an induction in its first-order form.                          *)
(***************************************************************************)
EXTENDS ChildArguments, SequenceTheorems, WellFoundedInduction, TLAPS

-----------------------------------------------------------------------------
(* An argument is none of these flags.                                     *)
Apart(argument, names) == \A n \in names : argument # Flag(n)

(* A flag is told by its name.                                             *)
LEMMA FlagsApart ==
    ASSUME NEW names
    PROVE  \A n : Apart(Flag(n), names) <=> n \notin names
  BY DEF Flag, Apart

(* No other argument is a flag; the mmap flags are no names of a runtime   *)
(* field.                                                                  *)
LEMMA ArgumentsApart ==
    ASSUME NEW names
    PROVE  /\ \A x : Apart(Path(x), names)
           /\ \A x : Apart(Word(x), names)
           /\ \A x : Apart(Number(x), names)
           /\ \A x : Apart(LayersNumber(x), names)
           /\ \A x : Apart(ToggleNumber(x), names)
           /\ names \cap {"--mmap", "--no-mmap"} = {} => \A x : Apart(MmapFlag(x), names)
  BY DEF Flag, Path, Word, Number, LayersNumber, ToggleNumber, MmapFlag, Apart

(* Behind names of which one stands, and once, stands one value.           *)
LEMMA OneFlag ==
    ASSUME NEW argv, NEW names, NEW last \in Int, last = Len(argv) - 1, NEW k \in 1..last,
           \A j \in 1..last : ~Apart(argv[j], names) <=> j = k
    PROVE  Behind(argv, names) = {argv[k + 1][2]}
  BY DEF Behind, Apart

(* The names of the runtime's fields.                                      *)
LEMMA FlagFields ==
    /\ DOMAIN FlagNames = {"context", "batch", "microBatch", "threads", "key", "value"}
    /\ FlagNames.context = {"-d", "-c"} /\ FlagNames.batch = {"-b"}
    /\ FlagNames.microBatch = {"-ub"} /\ FlagNames.threads = {"-t"}
    /\ FlagNames.key = {"-ctk"} /\ FlagNames.value = {"-ctv"}
  BY DEF FlagNames

(* The arguments of execution_protocol.rs by their positions, from one.    *)
IsBenchmarkArgv(argv, p) ==
    /\ Len(argv) = 28
    /\ argv[1] = Flag("-m") /\ argv[2] = Path(p.artifact) /\ argv[3] = Flag("-p")
    /\ argv[4] = Number(PromptTokens) /\ argv[5] = Flag("-n")
    /\ argv[6] = Number(GenerationTokens) /\ argv[7] = Flag("-d")
    /\ argv[8] = Number(p.runtime.context) /\ argv[9] = Flag("-b")
    /\ argv[10] = Number(p.runtime.batch) /\ argv[11] = Flag("-ub")
    /\ argv[12] = Number(p.runtime.microBatch) /\ argv[13] = Flag("-ctk")
    /\ argv[14] = Word(p.runtime.key) /\ argv[15] = Flag("-ctv")
    /\ argv[16] = Word(p.runtime.value) /\ argv[17] = Flag("-t")
    /\ argv[18] = Number(p.runtime.threads) /\ argv[19] = Flag("-ngl")
    /\ argv[20] = LayersNumber(p.runtime.layers) /\ argv[21] = Flag("-fa")
    /\ argv[22] = ToggleNumber(p.runtime.flash) /\ argv[23] = Flag("-mmp")
    /\ argv[24] = ToggleNumber(p.runtime.mmap) /\ argv[25] = Flag("-r")
    /\ argv[26] = Number(1) /\ argv[27] = Flag("-o") /\ argv[28] = Word("json")

(* Those of a quick check.                                                 *)
IsQuickCheckArgv(argv, p, check) ==
    /\ Len(argv) = 40
    /\ argv[1] = Flag("-m") /\ argv[2] = Path(p.artifact) /\ argv[3] = Flag("-p")
    /\ argv[4] = Word(check) /\ argv[5] = Flag("-n")
    /\ argv[6] = Number(FixedChecks[check]) /\ argv[7] = Flag("-c")
    /\ argv[8] = Number(p.runtime.context) /\ argv[9] = Flag("-ctk")
    /\ argv[10] = Word(p.runtime.key) /\ argv[11] = Flag("-ctv")
    /\ argv[12] = Word(p.runtime.value) /\ argv[13] = Flag("-ngl")
    /\ argv[14] = LayersNumber(p.runtime.layers) /\ argv[15] = Flag("-b")
    /\ argv[16] = Number(p.runtime.batch) /\ argv[17] = Flag("-ub")
    /\ argv[18] = Number(p.runtime.microBatch) /\ argv[19] = Flag("-t")
    /\ argv[20] = Number(p.runtime.threads) /\ argv[21] = Flag("--flash-attn")
    /\ argv[22] = Word(p.runtime.flash) /\ argv[23] = MmapFlag(p.runtime.mmap)
    /\ argv[24] = Flag("--chat-template") /\ argv[25] = Word("chatml")
    /\ argv[26] = Flag("--temp") /\ argv[27] = Word("sampler")
    /\ argv[28] = Flag("--top-p") /\ argv[29] = Word("sampler")
    /\ argv[30] = Flag("--top-k") /\ argv[31] = Word("sampler")
    /\ argv[32] = Flag("--min-p") /\ argv[33] = Word("sampler")
    /\ argv[34] = Flag("--seed") /\ argv[35] = Word("sampler")
    /\ argv[36] = Flag("--single-turn") /\ argv[37] = Flag("--simple-io")
    /\ argv[38] = Flag("--no-show-timings") /\ argv[39] = Flag("--color")
    /\ argv[40] = Word("off")

(* Where the flag of a runtime field stands.                               *)
BenchmarkPlace ==
    [context |-> 7, batch |-> 9, microBatch |-> 11, key |-> 13, value |-> 15, threads |-> 17]
QuickCheckPlace ==
    [context |-> 7, batch |-> 15, microBatch |-> 17, key |-> 9, value |-> 11, threads |-> 19]

(* The resolver builds them so.                                            *)
LEMMA BenchmarkArguments ==
    ASSUME NEW p
    PROVE  IsBenchmarkArgv(BenchmarkArgv(p), p)
  BY DEF IsBenchmarkArgv, BenchmarkArgv

(* It builds those of a quick check so.                                    *)
LEMMA QuickCheckArguments ==
    ASSUME NEW p, NEW check
    PROVE  IsQuickCheckArgv(QuickCheckArgv(p, check), p, check)
  BY DEF IsQuickCheckArgv, QuickCheckArgv

(* The flag of a field stands in its place and nowhere else, the last      *)
(* position apart, behind which nothing stands.                            *)
LEMMA BenchmarkFlags ==
    ASSUME NEW p, NEW argv, IsBenchmarkArgv(argv, p),
           NEW field \in DOMAIN FlagNames
    PROVE  \A j \in 1..27 : ~Apart(argv[j], FlagNames[field]) <=> j = BenchmarkPlace[field]
  <1> DEFINE names == FlagNames[field]
             place == BenchmarkPlace[field]
  <1>1. \A j \in 1..27 :
          \/ j = 1 \/ j = 2 \/ j = 3 \/ j = 4 \/ j = 5 \/ j = 6 \/ j = 7 \/ j = 8
          \/ j = 9 \/ j = 10 \/ j = 11 \/ j = 12 \/ j = 13 \/ j = 14 \/ j = 15
          \/ j = 16 \/ j = 17 \/ j = 18 \/ j = 19 \/ j = 20 \/ j = 21 \/ j = 22
          \/ j = 23 \/ j = 24 \/ j = 25 \/ j = 26 \/ j = 27
    OBVIOUS
  <1>2. names \cap {"--mmap", "--no-mmap"} = {}
    BY FlagFields
  <1>3. \/ place = 7 /\ names = {"-d", "-c"}
        \/ place = 9 /\ names = {"-b"}
        \/ place = 11 /\ names = {"-ub"}
        \/ place = 13 /\ names = {"-ctk"}
        \/ place = 15 /\ names = {"-ctv"}
        \/ place = 17 /\ names = {"-t"}
    BY FlagFields DEF BenchmarkPlace
  <1> HIDE DEF names, place
  <1>4. /\ Apart(argv[2], names) /\ Apart(argv[4], names) /\ Apart(argv[6], names)
        /\ Apart(argv[8], names) /\ Apart(argv[10], names) /\ Apart(argv[12], names)
        /\ Apart(argv[14], names) /\ Apart(argv[16], names) /\ Apart(argv[18], names)
        /\ Apart(argv[20], names) /\ Apart(argv[22], names) /\ Apart(argv[24], names)
        /\ Apart(argv[26], names)
    BY <1>2, ArgumentsApart DEF IsBenchmarkArgv
  <1>5. /\ (Apart(argv[1], names) <=> "-m" \notin names)
        /\ (Apart(argv[3], names) <=> "-p" \notin names)
        /\ (Apart(argv[5], names) <=> "-n" \notin names)
        /\ (Apart(argv[7], names) <=> "-d" \notin names)
        /\ (Apart(argv[9], names) <=> "-b" \notin names)
        /\ (Apart(argv[11], names) <=> "-ub" \notin names)
        /\ (Apart(argv[13], names) <=> "-ctk" \notin names)
        /\ (Apart(argv[15], names) <=> "-ctv" \notin names)
        /\ (Apart(argv[17], names) <=> "-t" \notin names)
        /\ (Apart(argv[19], names) <=> "-ngl" \notin names)
        /\ (Apart(argv[21], names) <=> "-fa" \notin names)
        /\ (Apart(argv[23], names) <=> "-mmp" \notin names)
        /\ (Apart(argv[25], names) <=> "-r" \notin names)
        /\ (Apart(argv[27], names) <=> "-o" \notin names)
    BY FlagsApart DEF IsBenchmarkArgv
  <1>6. QED
    BY <1>1, <1>3, <1>4, <1>5 DEF names, place

(* So it is in a quick check.                                              *)
LEMMA QuickCheckFlags ==
    ASSUME NEW p, NEW check, NEW argv, IsQuickCheckArgv(argv, p, check),
           NEW field \in DOMAIN FlagNames
    PROVE  \A j \in 1..39 : ~Apart(argv[j], FlagNames[field]) <=> j = QuickCheckPlace[field]
  <1> DEFINE names == FlagNames[field]
             place == QuickCheckPlace[field]
  <1>1. \A j \in 1..39 :
          \/ j = 1 \/ j = 2 \/ j = 3 \/ j = 4 \/ j = 5 \/ j = 6 \/ j = 7 \/ j = 8
          \/ j = 9 \/ j = 10 \/ j = 11 \/ j = 12 \/ j = 13 \/ j = 14 \/ j = 15
          \/ j = 16 \/ j = 17 \/ j = 18 \/ j = 19 \/ j = 20 \/ j = 21 \/ j = 22
          \/ j = 23 \/ j = 24 \/ j = 25 \/ j = 26 \/ j = 27 \/ j = 28 \/ j = 29
          \/ j = 30 \/ j = 31 \/ j = 32 \/ j = 33 \/ j = 34 \/ j = 35 \/ j = 36
          \/ j = 37 \/ j = 38 \/ j = 39
    OBVIOUS
  <1>2. names \cap {"--mmap", "--no-mmap"} = {}
    BY FlagFields
  <1>3. \/ place = 7 /\ names = {"-d", "-c"}
        \/ place = 15 /\ names = {"-b"}
        \/ place = 17 /\ names = {"-ub"}
        \/ place = 9 /\ names = {"-ctk"}
        \/ place = 11 /\ names = {"-ctv"}
        \/ place = 19 /\ names = {"-t"}
    BY FlagFields DEF QuickCheckPlace
  <1> HIDE DEF names, place
  <1>4. /\ Apart(argv[2], names) /\ Apart(argv[4], names) /\ Apart(argv[6], names)
        /\ Apart(argv[8], names) /\ Apart(argv[10], names) /\ Apart(argv[12], names)
        /\ Apart(argv[14], names) /\ Apart(argv[16], names) /\ Apart(argv[18], names)
        /\ Apart(argv[20], names) /\ Apart(argv[22], names) /\ Apart(argv[23], names)
        /\ Apart(argv[25], names) /\ Apart(argv[27], names) /\ Apart(argv[29], names)
        /\ Apart(argv[31], names) /\ Apart(argv[33], names) /\ Apart(argv[35], names)
    BY <1>2, ArgumentsApart DEF IsQuickCheckArgv
  <1>5. /\ (Apart(argv[1], names) <=> "-m" \notin names)
        /\ (Apart(argv[3], names) <=> "-p" \notin names)
        /\ (Apart(argv[5], names) <=> "-n" \notin names)
        /\ (Apart(argv[7], names) <=> "-c" \notin names)
        /\ (Apart(argv[9], names) <=> "-ctk" \notin names)
        /\ (Apart(argv[11], names) <=> "-ctv" \notin names)
        /\ (Apart(argv[13], names) <=> "-ngl" \notin names)
        /\ (Apart(argv[15], names) <=> "-b" \notin names)
        /\ (Apart(argv[17], names) <=> "-ub" \notin names)
        /\ (Apart(argv[19], names) <=> "-t" \notin names)
        /\ (Apart(argv[21], names) <=> "--flash-attn" \notin names)
        /\ (Apart(argv[24], names) <=> "--chat-template" \notin names)
        /\ (Apart(argv[26], names) <=> "--temp" \notin names)
        /\ (Apart(argv[28], names) <=> "--top-p" \notin names)
        /\ (Apart(argv[30], names) <=> "--top-k" \notin names)
        /\ (Apart(argv[32], names) <=> "--min-p" \notin names)
        /\ (Apart(argv[34], names) <=> "--seed" \notin names)
        /\ (Apart(argv[36], names) <=> "--single-turn" \notin names)
        /\ (Apart(argv[37], names) <=> "--simple-io" \notin names)
        /\ (Apart(argv[38], names) <=> "--no-show-timings" \notin names)
        /\ (Apart(argv[39], names) <=> "--color" \notin names)
    BY FlagsApart DEF IsQuickCheckArgv
  <1>6. QED
    BY <1>1, <1>3, <1>4, <1>5 DEF names, place

(* Behind the flag of a field stands the plan's value, and no other.       *)
LEMMA BenchmarkRuntime ==
    ASSUME NEW p, NEW argv, IsBenchmarkArgv(argv, p),
           NEW field \in DOMAIN FlagNames
    PROVE  Behind(argv, FlagNames[field]) = {p.runtime[field]}
  <1> DEFINE place == BenchmarkPlace[field]
  <1>1. 27 \in Int /\ 27 = Len(argv) - 1 /\ place \in 1..27
    BY FlagFields DEF IsBenchmarkArgv, BenchmarkPlace
  <1>2. \A j \in 1..27 : ~Apart(argv[j], FlagNames[field]) <=> j = place
    BY BenchmarkFlags
  <1> HIDE DEF place
  <1>3. Behind(argv, FlagNames[field]) = {argv[place + 1][2]}
    BY <1>1, <1>2, OneFlag, Zenon
  <1>4. argv[place + 1][2] = p.runtime[field]
    BY FlagFields DEF IsBenchmarkArgv, BenchmarkPlace, Number, Word, place
  <1>6. QED
    BY <1>3, <1>4

(* So it is in a quick check.                                              *)
LEMMA QuickCheckRuntime ==
    ASSUME NEW p, NEW check, NEW argv, IsQuickCheckArgv(argv, p, check),
           NEW field \in DOMAIN FlagNames
    PROVE  Behind(argv, FlagNames[field]) = {p.runtime[field]}
  <1> DEFINE place == QuickCheckPlace[field]
  <1>1. 39 \in Int /\ 39 = Len(argv) - 1 /\ place \in 1..39
    BY FlagFields DEF IsQuickCheckArgv, QuickCheckPlace
  <1>2. \A j \in 1..39 : ~Apart(argv[j], FlagNames[field]) <=> j = place
    BY QuickCheckFlags
  <1> HIDE DEF place
  <1>3. Behind(argv, FlagNames[field]) = {argv[place + 1][2]}
    BY <1>1, <1>2, OneFlag, Zenon
  <1>4. argv[place + 1][2] = p.runtime[field]
    BY FlagFields DEF IsQuickCheckArgv, QuickCheckPlace, Number, Word, place
  <1>6. QED
    BY <1>3, <1>4

-----------------------------------------------------------------------------
(* The even positions are looked at together.                              *)
LEMMA FlagsOf ==
    ASSUME NEW argv, NEW n \in Nat, NEW names, Len(names) = n, DOMAIN names = 1..n,
           NEW m \in Nat, m \div 2 = n,
           \A i \in 1..n : argv[2 * (i - 1) + 1] = Flag(names[i])
    PROVE  FlagsAt(argv, EvenBelow(m)) = Flags(names)
  BY DEF FlagsAt, EvenBelow, Flags, At

(* The boundary takes the arguments of a benchmark of a supported          *)
(* runtime.                                                                *)
LEMMA BenchmarkIsAccepted ==
    ASSUME NEW p, RuntimeSupported(p.runtime), NEW argv, IsBenchmarkArgv(argv, p)
    PROVE  BenchmarkArgvAccepted(p, argv)
  <1> DEFINE names == <<"-m", "-p", "-n", "-d", "-b", "-ub", "-ctk", "-ctv", "-t", "-ngl", "-fa",
                        "-mmp", "-r", "-o">>
  <1>1. FlagsAt(argv, EvenBelow(28)) = Flags(names)
    <2>1. /\ 28 \in Nat /\ 14 \in Nat /\ 28 \div 2 = 14
          /\ Len(names) = 14 /\ DOMAIN names = 1..14
      OBVIOUS
    <2>2. \A i \in 1..14 : argv[2 * (i - 1) + 1] = Flag(names[i])
      BY DEF IsBenchmarkArgv
    <2> HIDE DEF names
    <2> QED
      BY <2>1, <2>2, FlagsOf
  <1>2. \A i \in {3, 5, 7, 9, 11, 17, 19, 21, 23, 25} : IsNumber(At(argv, i))
    BY DEF IsBenchmarkArgv, IsNumber, At, Number, LayersNumber, ToggleNumber
  <1>3. \A i \in {13, 15} : \E type \in CacheTypes : At(argv, i) = Word(type)
    BY DEF IsBenchmarkArgv, At, RuntimeSupported
  <1> QED
    BY <1>1, <1>2, <1>3 DEF BenchmarkArgvAccepted, IsBenchmarkArgv, At

(* It takes those of a quick check.                                        *)
LEMMA QuickCheckIsAccepted ==
    ASSUME NEW p, NEW check, RuntimeSupported(p.runtime),
           NEW argv, IsQuickCheckArgv(argv, p, check)
    PROVE  QuickCheckArgvAccepted(p, argv)
  <1> DEFINE names == <<"-m", "-p", "-n", "-c", "-ctk", "-ctv", "-ngl", "-b", "-ub", "-t",
                        "--flash-attn">>
             places == <<23, 25, 27, 29, 31, 33, 35, 36, 37, 38>>
             others == <<"--chat-template", "--temp", "--top-p", "--top-k", "--min-p", "--seed",
                         "--single-turn", "--simple-io", "--no-show-timings", "--color">>
  <1>1. FlagsAt(argv, EvenBelow(22)) = Flags(names)
    <2>1. /\ 22 \in Nat /\ 11 \in Nat /\ 22 \div 2 = 11
          /\ Len(names) = 11 /\ DOMAIN names = 1..11
      OBVIOUS
    <2>2. \A i \in 1..11 : argv[2 * (i - 1) + 1] = Flag(names[i])
      BY DEF IsQuickCheckArgv
    <2> HIDE DEF names
    <2> QED
      BY <2>1, <2>2, FlagsOf
  <1>2. FlagsAt(argv, places) = Flags(others)
    <2>1. DOMAIN places = 1..10 /\ DOMAIN others = 1..10
      OBVIOUS
    <2>2. \A i \in 1..10 : argv[places[i] + 1] = Flag(others[i])
      BY DEF IsQuickCheckArgv
    <2> HIDE DEF places, others
    <2> QED
      BY <2>1, <2>2 DEF FlagsAt, Flags, At
  <1>3. At(argv, 22) \in {Flag("--mmap"), Flag("--no-mmap")}
    BY DEF IsQuickCheckArgv, At, MmapFlag
  <1>4. \A i \in {26, 28, 30, 32, 34} : At(argv, i) = Word("sampler")
    BY DEF IsQuickCheckArgv, At
  <1>5. /\ Len(argv) = 40 /\ At(argv, 1) = Path(p.artifact)
        /\ At(argv, 24) = Word("chatml") /\ At(argv, 39) = Word("off")
    BY DEF IsQuickCheckArgv, At
  <1>6. QED
    BY <1>1, <1>2, <1>3, <1>4, <1>5 DEF QuickCheckArgvAccepted

-----------------------------------------------------------------------------
(* The invocations of a benchmark are numbered through, the warmups        *)
(* first.                                                                  *)
LEMMA BenchmarkRuns ==
    ASSUME NEW p \in Plans, p.protocol = "benchmark"
    PROVE  /\ p.warmups \in Nat /\ p.measured \in Nat
           /\ Len(BenchmarkInvocations(p)) = p.warmups + p.measured
           /\ DOMAIN BenchmarkInvocations(p) = 1..(p.warmups + p.measured)
           /\ \A n \in 1..(p.warmups + p.measured) :
                 LET run == BenchmarkInvocations(p)[n] IN
                 /\ run.overall = n /\ run.total = p.warmups + p.measured
                 /\ run.argv = BenchmarkArgv(p)
                 /\ run.count = IF run.phase = "warmup" THEN p.warmups ELSE p.measured
                 /\ run.number \in 1..run.count
  <1> DEFINE w == p.warmups
             m == p.measured
             run(phase, n, count, before) ==
                [phase |-> phase, number |-> n, count |-> count, overall |-> before + n,
                 total |-> w + m, argv |-> BenchmarkArgv(p)]
             warm == [n \in 1..w |-> run("warmup", n, w, 0)]
             meas == [n \in 1..m |-> run("measured", n, m, w)]
             all == BenchmarkInvocations(p)
             S == {warm[n] : n \in 1..w} \cup {meas[n] : n \in 1..m}
  <1>1. w \in Nat /\ m \in Nat
    BY PlansAssumption
  <1>2. all = warm \o meas
    BY DEF BenchmarkInvocations
  <1> HIDE DEF all, w, m, run
  <1>3. warm \in Seq(S) /\ Len(warm) = w
    <2>1. warm \in [1..w -> S]
      OBVIOUS
    <2> HIDE DEF S
    <2>2. QED
      BY <1>1, <2>1
  <1>4. meas \in Seq(S) /\ Len(meas) = m
    <2>1. meas \in [1..m -> S]
      OBVIOUS
    <2> HIDE DEF S
    <2>2. QED
      BY <1>1, <2>1
  <1> HIDE DEF S, warm, meas
  <1>5. /\ all \in Seq(S) /\ Len(all) = w + m
        /\ \A n \in 1..(w + m) : all[n] = IF n <= w THEN warm[n] ELSE meas[n - w]
    BY <1>2, <1>3, <1>4, ConcatProperties
  <1>6. ASSUME NEW n \in 1..(w + m)
        PROVE  all[n] = IF n <= w THEN run("warmup", n, w, 0)
                                             ELSE run("measured", n - w, m, w)
    <2>1. n <= w => n \in 1..w
      BY <1>1
    <2>2. ~(n <= w) => n - w \in 1..m
      BY <1>1
    <2>3. QED
      BY <1>5, <2>1, <2>2 DEF warm, meas
  <1>7. DOMAIN all = 1..(w + m)
    BY <1>1, <1>5
  <1>8. ASSUME NEW n \in 1..(w + m)
        PROVE  LET r == all[n] IN
               /\ r.overall = n /\ r.total = w + m
               /\ r.argv = BenchmarkArgv(p)
               /\ r.count = IF r.phase = "warmup" THEN w ELSE m
               /\ r.number \in 1..r.count
    <2>1. CASE n <= w
      <3>1. all[n] = run("warmup", n, w, 0) /\ n \in 1..w /\ 0 + n = n
        BY <1>1, <1>6, <2>1
      <3>2. QED
        BY <3>1 DEF run
    <2>2. CASE n > w
      <3>1. all[n] = run("measured", n - w, m, w)
        BY <1>1, <1>6, <2>2
      <3>2. n - w \in 1..m /\ w + (n - w) = n
        BY <1>1, <2>2
      <3>3. QED
        BY <3>1, <3>2 DEF run
    <2>3. QED
      BY <1>1, <2>1, <2>2
  <1>9. QED
    BY <1>1, <1>5, <1>7, <1>8 DEF all, w, m

(* Each is the canonical one of its number, with arguments that are        *)
(* taken.                                                                  *)
LEMMA BenchmarkCrosses ==
    ASSUME NEW p \in Plans, p.protocol = "benchmark", BenchmarkResolves(p),
           NEW n \in DOMAIN BenchmarkInvocations(p)
    PROVE  LET all == BenchmarkInvocations(p) IN
           BenchmarkIsCanonical(p, all, all[n]) /\ BenchmarkArgvAccepted(p, all[n].argv)
  <1> DEFINE all == BenchmarkInvocations(p)
             run == all[n]
  <1>1. /\ Len(all) = p.warmups + p.measured
        /\ run.overall = n /\ run.total = p.warmups + p.measured
        /\ run.argv = BenchmarkArgv(p)
        /\ run.count = IF run.phase = "warmup" THEN p.warmups ELSE p.measured
        /\ run.number \in 1..run.count
    BY BenchmarkRuns
  <1>2. IsBenchmarkArgv(run.argv, p)
    BY <1>1, BenchmarkArguments
  <1>3. BenchmarkArgvAccepted(p, run.argv)
    BY <1>2, BenchmarkIsAccepted DEF BenchmarkResolves
  <1>4. /\ At(run.argv, 3) = Number(PromptTokens) /\ At(run.argv, 5) = Number(GenerationTokens)
        /\ At(run.argv, 7) = Number(p.runtime.context)
    BY <1>2 DEF IsBenchmarkArgv, At
  <1> HIDE DEF run, all
  <1>5. run = all[n] /\ n \in DOMAIN all
    BY DEF run, all
  <1>6. BenchmarkIsCanonical(p, all, run)
    BY <1>1, <1>4, <1>5 DEF BenchmarkIsCanonical
  <1>7. QED
    BY <1>3, <1>6 DEF run, all

(* So it is with the checks of a plan that resolves.                       *)
LEMMA QuickCheckCrosses ==
    ASSUME NEW p \in Plans, p.protocol = "quick-check", QuickCheckResolves(p),
           NEW n \in DOMAIN QuickCheckInvocations(p)
    PROVE  LET all == QuickCheckInvocations(p) IN
           /\ IsQuickCheckArgv(all[n].argv, p, all[n].check)
           /\ QuickCheckIsCanonical(all, all[n]) /\ QuickCheckArgvAccepted(p, all[n].argv)
  <1> DEFINE all == QuickCheckInvocations(p)
             invocation == all[n]
  <1>1. /\ n \in DOMAIN p.checks /\ invocation.check = p.checks[n]
        /\ invocation.argv = QuickCheckArgv(p, invocation.check)
    BY DEF QuickCheckInvocations
  <1>2. invocation.check \in DOMAIN FixedChecks
    BY <1>1 DEF QuickCheckResolves
  <1> HIDE DEF invocation
  <1>3. IsQuickCheckArgv(invocation.argv, p, invocation.check)
    BY <1>1, QuickCheckArguments
  <1>4. QuickCheckArgvAccepted(p, invocation.argv)
    BY <1>3, QuickCheckIsAccepted DEF QuickCheckResolves
  <1>5. /\ At(invocation.argv, 3) = Word(invocation.check)
        /\ At(invocation.argv, 5) = Number(FixedChecks[invocation.check])
    BY <1>3 DEF IsQuickCheckArgv, At
  <1>6. QuickCheckIsCanonical(all, invocation)
    BY <1>2, <1>5 DEF QuickCheckIsCanonical, invocation
  <1>7. QED
    BY <1>3, <1>4, <1>6 DEF invocation

(* A plan has one protocol, and is resolved and validated as that asks.    *)
LEMMA Protocols ==
    /\ \A p \in Plans : p.protocol \in {"benchmark", "quick-check", "capture"}
    /\ \A p : p.protocol = "benchmark" =>
          /\ Invocations(p) = BenchmarkInvocations(p)
          /\ Resolves(p) = BenchmarkResolves(p)
          /\ \A all, i : Accepted(p, all, i) =
                (BenchmarkIsCanonical(p, all, i) /\ BenchmarkArgvAccepted(p, i.argv))
    /\ \A p : p.protocol = "quick-check" =>
          /\ Invocations(p) = QuickCheckInvocations(p)
          /\ Resolves(p) = QuickCheckResolves(p)
          /\ \A all, i : Accepted(p, all, i) =
                (QuickCheckIsCanonical(all, i) /\ QuickCheckArgvAccepted(p, i.argv))
    /\ \A p : p.protocol = "capture" =>
          \A all, i : Accepted(p, all, i) = CaptureArgvAccepted(p, i.argv)
  <1>1. "benchmark" # "quick-check" /\ "benchmark" # "capture" /\ "quick-check" # "capture"
    OBVIOUS
  <1>2. \A p \in Plans : p.protocol \in {"benchmark", "quick-check", "capture"}
    BY PlansAssumption
  <1>3. QED
    BY <1>1, <1>2, Zenon DEF Invocations, Resolves, Accepted

(* What crosses is counted from one.                                       *)
LEMMA InvocationsNumbered ==
    ASSUME NEW p \in Plans, p.protocol # "capture"
    PROVE  /\ Len(Invocations(p)) \in Nat
           /\ DOMAIN Invocations(p) = 1..Len(Invocations(p))
  <1>1. CASE p.protocol = "benchmark"
    <2> DEFINE all == BenchmarkInvocations(p)
    <2>1. Len(all) = p.warmups + p.measured /\ p.warmups + p.measured \in Nat
      BY <1>1, BenchmarkRuns
    <2>2. DOMAIN all = 1..(p.warmups + p.measured)
      BY <1>1, BenchmarkRuns
    <2> HIDE DEF all
    <2>3. Len(all) \in Nat /\ DOMAIN all = 1..Len(all)
      BY <2>1, <2>2
    <2>4. QED
      BY <1>1, <2>3, Protocols DEF all
  <1>2. CASE p.protocol = "quick-check"
    <2> DEFINE S == {p.checks[k] : k \in DOMAIN p.checks}
    <2>1. p.checks \in Seq(S)
      BY <1>2, PlansAssumption
    <2> HIDE DEF S
    <2>2. Len(p.checks) \in Nat /\ DOMAIN p.checks = 1..Len(p.checks)
      BY <2>1
    <2>3. DOMAIN QuickCheckInvocations(p) = DOMAIN p.checks
      BY DEF QuickCheckInvocations
    <2>4. Len(QuickCheckInvocations(p)) = Len(p.checks)
      BY <2>2 DEF QuickCheckInvocations
    <2>5. QED
      BY <1>2, <2>2, <2>3, <2>4, Protocols
  <1>3. QED
    BY <1>1, <1>2, Protocols

(* Every invocation of a plan that resolved is accepted, and carries the   *)
(* plan's runtime.                                                         *)
LEMMA ResolvedInvocations ==
    ASSUME NEW p \in Plans, p.protocol # "capture", Resolves(p),
           NEW n \in DOMAIN Invocations(p)
    PROVE  /\ Accepted(p, Invocations(p), Invocations(p)[n])
           /\ \A field \in DOMAIN FlagNames :
                 Behind(Invocations(p)[n].argv, FlagNames[field]) = {p.runtime[field]}
  <1>1. CASE p.protocol = "benchmark"
    <2> DEFINE run == BenchmarkInvocations(p)[n]
    <2>1. BenchmarkResolves(p) /\ n \in DOMAIN BenchmarkInvocations(p)
      BY <1>1, Protocols
    <2>2. Accepted(p, Invocations(p), run)
      <3>1. /\ BenchmarkIsCanonical(p, BenchmarkInvocations(p), run)
            /\ BenchmarkArgvAccepted(p, run.argv)
        BY <1>1, <2>1, BenchmarkCrosses
      <3> HIDE DEF run
      <3>2. QED
        BY <1>1, <3>1, Protocols
    <2>3. IsBenchmarkArgv(run.argv, p)
      BY <1>1, <2>1, BenchmarkRuns, BenchmarkArguments
    <2> HIDE DEF run
    <2>4. \A field \in DOMAIN FlagNames : Behind(run.argv, FlagNames[field]) = {p.runtime[field]}
      BY <2>3, BenchmarkRuntime
    <2>5. Invocations(p)[n] = run
      BY <1>1, Protocols DEF run
    <2>6. QED
      BY <2>2, <2>4, <2>5
  <1>2. CASE p.protocol = "quick-check"
    <2> DEFINE invocation == QuickCheckInvocations(p)[n]
    <2>1. QuickCheckResolves(p) /\ n \in DOMAIN QuickCheckInvocations(p)
      BY <1>2, Protocols
    <2>2. Accepted(p, Invocations(p), invocation)
      <3>1. /\ QuickCheckIsCanonical(QuickCheckInvocations(p), invocation)
            /\ QuickCheckArgvAccepted(p, invocation.argv)
        BY <1>2, <2>1, QuickCheckCrosses
      <3> HIDE DEF invocation
      <3>2. QED
        BY <1>2, <3>1, Protocols
    <2>3. IsQuickCheckArgv(invocation.argv, p, invocation.check)
      BY <1>2, <2>1, QuickCheckCrosses
    <2> HIDE DEF invocation
    <2>4. \A field \in DOMAIN FlagNames :
             Behind(invocation.argv, FlagNames[field]) = {p.runtime[field]}
      BY <2>3, QuickCheckRuntime
    <2>5. Invocations(p)[n] = invocation
      BY <1>2, Protocols DEF invocation
    <2>6. QED
      BY <2>2, <2>4, <2>5
  <1>3. QED
    BY <1>1, <1>2, Protocols

(* Position 19 of a capture cannot be a flag and a number at once.         *)
LEMMA CapturesRefused ==
    ASSUME NEW p, p.protocol = "capture", NEW all, NEW invocation
    PROVE  ~Accepted(p, all, invocation)
  <1>1. \A n : Flag("-fitp") # Number(n)
    BY DEF Flag, Number
  <1>2. ~CaptureArgvAccepted(p, invocation.argv)
    BY <1>1 DEF CaptureArgvAccepted
  <1>3. QED
    BY <1>2, Protocols

-----------------------------------------------------------------------------
(* The types that are needed: what was resolved is known otherwise.        *)
TypeInv ==
    /\ plan \in Plans /\ crossed \in Nat
    /\ status \in {"none", "resolved", "not-resolved", "refused"}

(* What crosses is the plan's own list, and it is refused nothing.         *)
CrossingInv ==
    /\ status \in {"resolved", "refused"} => Resolves(plan) /\ invocations = Invocations(plan)
    /\ status \in {"none", "not-resolved"} => crossed = 0
    /\ ~IsCapture => status # "refused" /\ 1..crossed \subseteq DOMAIN invocations

(* No invocation of a capture is ever accepted.                            *)
NoCaptureCrosses == IsCapture => crossed = 0

(* The inductive invariant.                                                *)
IInv == TypeInv /\ CrossingInv /\ NoCaptureCrosses

(* Nothing has crossed at first.                                           *)
LEMMA Initially == Init => IInv
  BY DEF Init, IInv, TypeInv, CrossingInv, NoCaptureCrosses

(* Resolving and crossing keep it.                                         *)
LEMMA Steps ==
    ASSUME IInv, [Next]_vars
    PROVE  IInv'
  <1>1. CASE Resolve
    BY <1>1 DEF IInv, TypeInv, CrossingInv, NoCaptureCrosses, IsCapture, Resolve
  <1>2. CASE Cross
    <2>1. /\ status = "resolved" /\ Resolves(plan) /\ invocations = Invocations(plan)
          /\ crossed < Len(invocations) /\ plan \in Plans /\ crossed \in Nat
          /\ UNCHANGED <<plan, invocations>>
      BY <1>2 DEF Cross, IInv, TypeInv, CrossingInv
    <2>2. CASE IsCapture
      <3>1. status' = "refused" /\ UNCHANGED crossed
        BY <1>2, <2>2, CapturesRefused DEF Cross, IsCapture
      <3>2. QED
        BY <2>1, <2>2, <3>1 DEF IInv, TypeInv, CrossingInv, NoCaptureCrosses, IsCapture
    <2>3. CASE ~IsCapture
      <3>1. DOMAIN invocations = 1..Len(invocations) /\ Len(invocations) \in Nat
        BY <2>1, <2>3, InvocationsNumbered DEF IsCapture
      <3>2. crossed + 1 \in DOMAIN invocations
        BY <2>1, <3>1
      <3>3. Accepted(plan, invocations, invocations[crossed + 1])
        BY <2>1, <2>3, <3>2, ResolvedInvocations DEF IsCapture
      <3>4. crossed' = crossed + 1 /\ UNCHANGED status
        BY <1>2, <3>3 DEF Cross
      <3>5. 1..crossed' \subseteq DOMAIN invocations
        BY <2>1, <3>1, <3>4
      <3>6. QED
        BY <2>1, <2>3, <3>4, <3>5 DEF IInv, TypeInv, CrossingInv, NoCaptureCrosses, IsCapture
    <2>4. QED
      BY <2>2, <2>3
  <1>3. CASE UNCHANGED vars
    BY <1>3 DEF vars, IInv, TypeInv, CrossingInv, NoCaptureCrosses, IsCapture
  <1>4. QED
    BY <1>1, <1>2, <1>3 DEF Next

(* The invariant holds for every plan.                                     *)
THEOREM CrossingIsSound == Spec => []IInv
  BY Initially, Steps, PTL DEF Spec

(* What execution_protocol.rs resolves, execution_process.rs accepts, for  *)
(* every benchmark and quick-check plan: none fails between them after it  *)
(* was confirmed.                                                          *)
THEOREM ResolvedAlwaysCross == Spec => []ResolvedPlansCross
  <1>1. IInv => ResolvedPlansCross
    BY DEF IInv, CrossingInv, ResolvedPlansCross
  <1>2. QED
    BY <1>1, CrossingIsSound, PTL

(* Behind each flag of an accepted invocation stands the plan's own        *)
(* value, whatever the plan.                                               *)
THEOREM ConfirmedRuntimeRuns == Spec => []TheConfirmedRuntimeRuns
  <1>1. IInv => TheConfirmedRuntimeRuns
    <2> SUFFICES ASSUME IInv, ~IsCapture, NEW n \in Through, NEW field \in DOMAIN FlagNames
                 PROVE  Behind(invocations[n].argv, FlagNames[field]) = {plan.runtime[field]}
      BY DEF TheConfirmedRuntimeRuns
    <2>1. crossed # 0 /\ n \in DOMAIN invocations
      BY DEF IInv, TypeInv, CrossingInv, Through
    <2>2. plan \in Plans /\ Resolves(plan) /\ invocations = Invocations(plan)
      BY <2>1 DEF IInv, TypeInv, CrossingInv
    <2>3. QED
      BY <2>1, <2>2, ResolvedInvocations DEF IsCapture
  <1>2. QED
    BY <1>1, CrossingIsSound, PTL

(* Every prepared capture ends at its first invocation, whatever its       *)
(* plan: its validator asks position 19 for the fit flag and for a         *)
(* number.                                                                 *)
THEOREM NoCaptureRuns == Spec => []NoCaptureCrosses
  <1>1. IInv => NoCaptureCrosses
    BY DEF IInv
  <1>2. QED
    BY <1>1, CrossingIsSound, PTL

(* Writing the line of a child down disturbs no crossing, so that all of   *)
(* this holds of ChildSpec too.                                            *)
THEOREM LinesComeBehind == ChildSpec => Spec
  <1>1. ChildInit => Init
    BY DEF ChildInit
  <1>2. [ChildNext]_<<vars, lineVars>> => [Next]_vars
    BY DEF ChildNext, NextArgument, NextUnit, Build, Writing
  <1>3. QED
    BY <1>1, <1>2, PTL DEF ChildSpec, Spec

-----------------------------------------------------------------------------
(* Induction over the natural numbers, in its first-order form: a set of   *)
(* them has a least element.                                               *)
LEMMA LeastByRelation ==
    ASSUME NEW S \in SUBSET Nat, S # {}, NEW R, R = OpToRel(<, Nat)
    PROVE  \E n \in S : \A m \in S : ~(<<m, n>> \in R)
<1>1. IsWellFoundedOn(R, Nat)
      BY NatLessThanWellFounded, Zenon
<1> HIDE DEF OpToRel
<1> QED
    BY <1>1, WFMin, Zenon

(* Of any numbers, one is the least.                                       *)
LEMMA LeastOf ==
    ASSUME NEW S \in SUBSET Nat, S # {}
    PROVE  \E n \in S : \A m \in S : n <= m
<1>1. \A m, n \in Nat : <<m, n>> \in OpToRel(<, Nat) <=> m < n
      BY DEF OpToRel
<1> DEFINE R == OpToRel(<, Nat)
<1> HIDE DEF R
<1>2. PICK n \in S : \A m \in S : ~(<<m, n>> \in R)
      BY LeastByRelation DEF R
<1>3. \A m \in S : ~(m < n)
      BY <1>1, <1>2, Zenon DEF R
<1> QED
    BY <1>3, SMT

(* What holds of zero and is passed on holds of every number.              *)
LEMMA Inductive ==
    ASSUME NEW S, 0 \in S, \A n \in Nat : n \in S => n + 1 \in S
    PROVE  Nat \subseteq S
<1> SUFFICES ASSUME Nat \ S # {}
             PROVE  FALSE
    OBVIOUS
<1>1. PICK n \in Nat \ S : \A m \in Nat \ S : n <= m
      BY LeastOf, Zenon
<1>2. n # 0
      BY <1>1
<1>3. n - 1 \in Nat /\ n - 1 \notin Nat \ S
      BY <1>1, <1>2
<1>4. n - 1 + 1 \in S
      BY <1>3
<1> QED
    BY <1>1, <1>4

(* f holds what the first k steps from b lead to, for every k up to N.     *)
IsIteration(f, S, b, N, step) ==
    f \in [0..N -> S] /\ f[0] = b /\ \A k \in 1..N : f[k] = step[<<f[k - 1], k>>]

(* A step that is repeated over members of S has results, all in S.        *)
LEMMA Iterated ==
    ASSUME NEW S, NEW b \in S, NEW N \in Nat, NEW step \in [S \X (1..N) -> S]
    PROVE  \E f : IsIteration(f, S, b, N, step)
<1> DEFINE Goes(f, n) ==
              \A k \in 0..n : f[k] = IF k = 0 THEN b ELSE step[<<f[k - 1], k>>]
           Reached == {n \in Nat : n <= N => \E f \in [0..n -> S] : Goes(f, n)}
<1>1. 0 \in Reached
  <2>1. [k \in 0..0 |-> b] \in [0..0 -> S] /\ Goes([k \in 0..0 |-> b], 0)
        OBVIOUS
  <2> QED
      BY <2>1
<1>2. ASSUME NEW n \in Nat, n \in Reached
      PROVE  n + 1 \in Reached
  <2> SUFFICES ASSUME n + 1 <= N
               PROVE  \E f \in [0..(n + 1) -> S] : Goes(f, n + 1)
      OBVIOUS
  <2>1. PICK f \in [0..n -> S] : Goes(f, n)
        BY <1>2
  <2> DEFINE g == [k \in 0..(n + 1) |-> IF k <= n THEN f[k] ELSE step[<<f[n], n + 1>>]]
  <2>2. f[n] \in S /\ n + 1 \in 1..N
        OBVIOUS
  <2>3. step[<<f[n], n + 1>>] \in S
        BY <2>2
  <2>4. g \in [0..(n + 1) -> S]
        BY <2>3
  <2>5. ASSUME NEW k \in 0..(n + 1)
        PROVE  g[k] = IF k = 0 THEN b ELSE step[<<g[k - 1], k>>]
    <3>1. CASE k = 0
      <4>1. g[0] = f[0] /\ 0 \in 0..n
            OBVIOUS
      <4> HIDE DEF g
      <4> QED
          BY <2>1, <3>1, <4>1
    <3>2. CASE k \in 1..n
      <4>1. k - 1 \in 0..n /\ k \in 0..n /\ g[k] = f[k] /\ g[k - 1] = f[k - 1]
            BY <3>2
      <4> QED
          BY <2>1, <3>2, <4>1
    <3>3. CASE k = n + 1
      <4>1. g[k] = step[<<f[n], k>>] /\ g[k - 1] = f[n] /\ k # 0
            BY <3>3
      <4> HIDE DEF g
      <4> QED
          BY <3>3, <4>1
    <3> QED
        BY <3>1, <3>2, <3>3
  <2> HIDE DEF g
  <2> QED
      BY <2>4, <2>5
<1>3. N \in Reached
  <2> HIDE DEF Reached
  <2> QED
      BY <1>1, <1>2, Inductive
<1>4. PICK f \in [0..N -> S] : Goes(f, N)
      BY <1>3
<1>5. f[0] = b /\ \A k \in 1..N : f[k] = step[<<f[k - 1], k>>]
  <2>1. 0 \in 0..N /\ \A k \in 1..N : k \in 0..N /\ k # 0
        OBVIOUS
  <2> QED
      BY <1>4, <2>1
<1> QED
    BY <1>4, <1>5 DEF IsIteration

(* Two loops that go on alike and start alike end alike.                   *)
LEMMA LoopsAgree ==
    ASSUME NEW f, NEW g, NEW n \in Nat, f[0] = g[0],
           \A k \in 1..n : f[k - 1] = g[k - 1] => f[k] = g[k]
    PROVE  f[n] = g[n]
<1> DEFINE Agreeing == {k \in Nat : k <= n => f[k] = g[k]}
<1>1. 0 \in Agreeing
      OBVIOUS
<1>2. ASSUME NEW k \in Nat, k \in Agreeing
      PROVE  k + 1 \in Agreeing
  <2> SUFFICES ASSUME k + 1 <= n PROVE f[k + 1] = g[k + 1]
      OBVIOUS
  <2>1. k + 1 \in 1..n /\ (k + 1) - 1 = k /\ f[k] = g[k]
        BY <1>2
  <2> QED
      BY <2>1
<1>3. n \in Agreeing
  <2> HIDE DEF Agreeing
  <2> QED
      BY <1>1, <1>2, Inductive
<1> QED
    BY <1>3

(* What holds of the empty sequence and is passed on by every element      *)
(* behind it holds of every sequence.                                      *)
LEMMA SequencesGrow ==
    ASSUME NEW U, NEW T, <<>> \in T,
           \A s \in Seq(U) : \A e \in U : s \in T => Append(s, e) \in T
    PROVE  Seq(U) \subseteq T
<1> DEFINE Lengths == {n \in Nat : \A s \in Seq(U) : Len(s) = n => s \in T}
<1>1. 0 \in Lengths
      BY EmptySeq
<1>2. ASSUME NEW n \in Nat, n \in Lengths
      PROVE  n + 1 \in Lengths
  <2> SUFFICES ASSUME NEW s \in Seq(U), Len(s) = n + 1
               PROVE  s \in T
      OBVIOUS
  <2>1. s # <<>>
        OBVIOUS
  <2>2. PICK r \in Seq(U), e \in U : s = Append(r, e)
        BY <2>1, SequenceEmptyOrAppend
  <2>3. Len(r) = n
        BY <2>2, AppendProperties
  <2> QED
      BY <1>2, <2>2, <2>3
<1>3. Nat \subseteq Lengths
  <2> HIDE DEF Lengths
  <2> QED
      BY <1>1, <1>2, Inductive
<1>4. ASSUME NEW s \in Seq(U)
      PROVE  s \in T
  <2>1. Len(s) \in Nat
        OBVIOUS
  <2>2. Len(s) \in Lengths
        BY <1>3, <2>1
  <2> QED
      BY <2>2
<1> QED
    BY <1>4

-----------------------------------------------------------------------------
(* Units.                                                                  *)
LEMMA BackslashesAreUnits ==
    ASSUME NEW n \in Nat
    PROVE  /\ Backslashes(n) \in Seq(Units) /\ Len(Backslashes(n)) = n
           /\ Backslashes(n + 1) = Append(Backslashes(n), "backslash")
<1>1. Backslashes(n) \in Seq(Units) /\ Len(Backslashes(n)) = n
      BY DEF Backslashes, Units
<1>2. Backslashes(n + 1) \in Seq(Units) /\ Len(Backslashes(n + 1)) = n + 1
      BY DEF Backslashes, Units
<1>3. \A i \in 1..(n + 1) : Append(Backslashes(n), "backslash")[i] = Backslashes(n + 1)[i]
      BY DEF Backslashes
<1>4. "backslash" \in Units
      BY DEF Units
<1> QED
    BY <1>1, <1>2, <1>3, <1>4, SeqEqual, AppendProperties

(* None are the empty sequence.                                            *)
LEMMA NoBackslashes == Backslashes(0) = <<>>
BY DEF Backslashes

(* Appending behind a joint.                                               *)
LEMMA AppendBehind ==
    ASSUME NEW U, NEW s \in Seq(U), NEW t \in Seq(U), NEW e \in U
    PROVE  s \o Append(t, e) = Append(s \o t, e)
<1>1. <<e>> \in Seq(U) /\ s \o t \in Seq(U)
      BY ConcatProperties
<1>2. s \o (t \o <<e>>) = (s \o t) \o <<e>>
      BY <1>1, ConcatAssociative
<1> QED
    BY <1>1, <1>2, AppendIsConcat

-----------------------------------------------------------------------------
(* The child's side.                                                       *)
States == [list : Seq(Seq(Units)), current : Seq(Units), slashes : Nat,
           quoted : BOOLEAN, started : BOOLEAN]

(* The states of the child that reads.                                     *)
LEMMA ReadingIsTyped ==
    ASSUME NEW l \in Seq(Seq(Units)), NEW c \in Seq(Units), NEW n \in Nat, NEW q \in BOOLEAN
    PROVE  Reading(l, c, n, q) \in States
BY DEF Reading, States

(* The states of the child between two arguments.                          *)
LEMMA BetweenIsTyped ==
    ASSUME NEW l \in Seq(Seq(Units))
    PROVE  Between(l) \in States
BY DEF Between, States

(* A unit leads from a state to a state.                                   *)
LEMMA ParseUnitIsTyped ==
    ASSUME NEW s \in States, NEW x \in Units
    PROVE  ParseUnit(s, x) \in States
<1> DEFINE n == s.slashes
           halved == s.current \o Backslashes(n \div 2)
           flushed == s.current \o Backslashes(n)
<1>1. /\ s.list \in Seq(Seq(Units)) /\ s.current \in Seq(Units) /\ n \in Nat
      /\ n \div 2 \in Nat /\ s.quoted \in BOOLEAN /\ (~s.quoted) \in BOOLEAN
      BY DEF States
<1>2. /\ Backslashes(n) \in Seq(Units)
      /\ Backslashes(n \div 2) \in Seq(Units)
      BY <1>1, BackslashesAreUnits
<1>3. "quote" \in Units
      BY DEF Units
<1>4. /\ halved \in Seq(Units) /\ Append(halved, "quote") \in Seq(Units)
      /\ flushed \in Seq(Units) /\ Append(flushed, x) \in Seq(Units)
      BY <1>1, <1>2, <1>3, ConcatProperties, AppendProperties
<1>5. Finished(s) \in Seq(Seq(Units))
      BY <1>1, <1>4, AppendProperties DEF Finished
<1>6. n + 1 \in Nat /\ 0 \in Nat
      BY <1>1
<1> HIDE DEF n, halved, flushed
<1>7. /\ Reading(s.list, s.current, n + 1, s.quoted) \in States
      /\ Reading(s.list, halved, 0, ~s.quoted) \in States
      /\ Reading(s.list, Append(halved, "quote"), 0, s.quoted) \in States
      /\ Reading(s.list, Append(flushed, x), 0, s.quoted) \in States
      /\ Between(Finished(s)) \in States
      BY <1>1, <1>6, <1>4, <1>5, ReadingIsTyped, BetweenIsTyped, Zenon
<1>8. \/ ParseUnit(s, x) = Reading(s.list, s.current, n + 1, s.quoted)
      \/ ParseUnit(s, x) = Reading(s.list, halved, 0, ~s.quoted)
      \/ ParseUnit(s, x) = Reading(s.list, Append(halved, "quote"), 0, s.quoted)
      \/ ParseUnit(s, x) = Reading(s.list, Append(flushed, x), 0, s.quoted)
      \/ ParseUnit(s, x) = Between(Finished(s))
      BY DEF ParseUnit, n, halved, flushed
<1> QED
    BY <1>7, <1>8

(* What a unit does inside quotes.                                         *)
LEMMA ParseUnitIs ==
    ASSUME NEW l, NEW c, NEW n \in Nat
    PROVE  /\ ParseUnit(Reading(l, c, n, TRUE), "backslash") = Reading(l, c, n + 1, TRUE)
           /\ ParseUnit(Reading(l, c, 2 * n, TRUE), "quote")
                 = Reading(l, c \o Backslashes(n), 0, FALSE)
           /\ ParseUnit(Reading(l, c, 2 * n + 1, TRUE), "quote")
                 = Reading(l, Append(c \o Backslashes(n), "quote"), 0, TRUE)
<1>1. (2 * n) % 2 = 0 /\ (2 * n) \div 2 = n /\ (2 * n + 1) % 2 = 1 /\ (2 * n + 1) \div 2 = n
      OBVIOUS
<1>2. \A m : LET s == Reading(l, c, m, TRUE)
             IN  s.list = l /\ s.current = c /\ s.slashes = m /\ s.quoted = TRUE
      BY DEF Reading
<1>3. ParseUnit(Reading(l, c, n, TRUE), "backslash") = Reading(l, c, n + 1, TRUE)
  <2> DEFINE s == Reading(l, c, n, TRUE)
  <2>1. s.list = l /\ s.current = c /\ s.slashes = n /\ s.quoted = TRUE
        BY <1>2
  <2> HIDE DEF s
  <2>2. ParseUnit(s, "backslash") = Reading(l, c, n + 1, s.quoted)
        BY <2>1 DEF ParseUnit
  <2> QED
      BY <2>1, <2>2 DEF s
<1>4. ParseUnit(Reading(l, c, 2 * n, TRUE), "quote") = Reading(l, c \o Backslashes(n), 0, FALSE)
  <2> DEFINE s == Reading(l, c, 2 * n, TRUE)
  <2>1. s.list = l /\ s.current = c /\ s.slashes % 2 = 0 /\ s.slashes \div 2 = n /\ (~s.quoted) = FALSE
        BY <1>1, <1>2
  <2> HIDE DEF s
  <2>2. ParseUnit(s, "quote") = Reading(l, c \o Backslashes(n), 0, ~s.quoted)
        BY <2>1 DEF ParseUnit
  <2> QED
      BY <2>1, <2>2 DEF s
<1>5. ParseUnit(Reading(l, c, 2 * n + 1, TRUE), "quote")
         = Reading(l, Append(c \o Backslashes(n), "quote"), 0, TRUE)
  <2> DEFINE s == Reading(l, c, 2 * n + 1, TRUE)
  <2>1. s.list = l /\ s.current = c /\ s.slashes % 2 = 1 /\ s.slashes \div 2 = n /\ s.quoted = TRUE
        BY <1>1, <1>2
  <2> HIDE DEF s
  <2>2. ParseUnit(s, "quote") = Reading(l, Append(c \o Backslashes(n), "quote"), 0, s.quoted)
        BY <2>1 DEF ParseUnit
  <2> QED
      BY <2>1, <2>2 DEF s
<1> QED
    BY <1>3, <1>4, <1>5

(* Any other unit is taken as it is, behind the backslashes that waited.   *)
LEMMA ParseOrdinary ==
    ASSUME NEW l, NEW c, NEW n \in Nat, NEW x \in Units, x # "backslash", x # "quote"
    PROVE  ParseUnit(Reading(l, c, n, TRUE), x) = Reading(l, Append(c \o Backslashes(n), x), 0, TRUE)
<1> DEFINE s == Reading(l, c, n, TRUE)
<1>1. s.list = l /\ s.current = c /\ s.slashes = n /\ s.quoted = TRUE
      BY DEF Reading
<1> HIDE DEF s
<1>2. ParseUnit(s, x) = Reading(l, Append(c \o Backslashes(n), x), 0, s.quoted)
      BY <1>1 DEF ParseUnit
<1> QED
    BY <1>1, <1>2 DEF s

(* The loop over the units has a result, a state, ...                      *)
ParseLoop(s, u, f) ==
    f = [k \in 0..Len(u) |-> IF k = 0 THEN s ELSE ParseUnit(f[k - 1], u[k])]

ParseSteps(s, u, f) == f[0] = s /\ \A k \in 1..Len(u) : f[k] = ParseUnit(f[k - 1], u[k])

(* What its first step is, and every further one.                          *)
LEMMA ParseLoopIs ==
    ASSUME NEW s, NEW u \in Seq(Units), NEW f, ParseLoop(s, u, f)
    PROVE  ParseSteps(s, u, f)
<1>1. Len(u) \in Nat /\ 0 \in 0..Len(u) /\ \A k \in 1..Len(u) : k \in 0..Len(u) /\ k # 0
      OBVIOUS
<1> QED
    BY <1>1 DEF ParseLoop, ParseSteps

(* There is such a loop.                                                   *)
LEMMA ParseLoops ==
    ASSUME NEW s \in States, NEW u \in Seq(Units)
    PROVE  \E f : ParseLoop(s, u, f) /\ f[Len(u)] \in States
<1> DEFINE N == Len(u)
           step == [x \in States \X (1..N) |-> ParseUnit(x[1], u[x[2]])]
<1>1. N \in Nat /\ \A k \in 1..N : u[k] \in Units
      BY ElementOfSeq, LenProperties
<1>2. step \in [States \X (1..N) -> States]
      BY <1>1, ParseUnitIsTyped
<1> HIDE DEF step
<1>3. PICK f : IsIteration(f, States, s, N, step)
      BY <1>1, <1>2, Iterated, Zenon
<1>4. ASSUME NEW k \in 0..N
      PROVE  f[k] = IF k = 0 THEN s ELSE ParseUnit(f[k - 1], u[k])
  <2>1. CASE k = 0
        BY <1>3, <2>1 DEF IsIteration
  <2>2. CASE k \in 1..N
    <3>1. k - 1 \in 0..N /\ k # 0
          BY <1>1, <2>2
    <3>2. f[k - 1] \in States
          BY <1>3, <3>1 DEF IsIteration
    <3>3. f[k] = step[<<f[k - 1], k>>]
          BY <1>3, <2>2 DEF IsIteration
    <3>4. step[<<f[k - 1], k>>] = ParseUnit(f[k - 1], u[k])
          BY <2>2, <3>2 DEF step
    <3> QED
        BY <3>1, <3>3, <3>4
  <2> QED
      BY <1>1, <2>1, <2>2
<1>5. f = [k \in 0..N |-> f[k]] /\ f[N] \in States
      BY <1>1, <1>3 DEF IsIteration
<1>6. ParseLoop(s, u, f)
      BY <1>4, <1>5 DEF ParseLoop
<1> QED
    BY <1>5, <1>6

(* ... which is one loop.                                                  *)
LEMMA ParseFromIs ==
    ASSUME NEW s \in States, NEW u \in Seq(Units), NEW f, ParseLoop(s, u, f)
    PROVE  ParseFrom(s, u) = f[Len(u)]
<1> DEFINE parse == CHOOSE g : ParseLoop(s, u, g)
<1>1. ParseLoop(s, u, parse)
      OBVIOUS
<1>2. ParseFrom(s, u) = parse[Len(u)]
      BY DEF ParseFrom, ParseLoop
<1> HIDE DEF parse
<1>3. Len(u) \in Nat
      OBVIOUS
<1>4. parse[0] = f[0] /\ \A k \in 1..Len(u) : parse[k - 1] = f[k - 1] => parse[k] = f[k]
  <2>1. ParseSteps(s, u, parse) /\ ParseSteps(s, u, f)
        BY <1>1, ParseLoopIs, Zenon
  <2> QED
      BY <2>1 DEF ParseSteps
<1>5. parse[Len(u)] = f[Len(u)]
      BY <1>3, <1>4, LoopsAgree
<1> QED
    BY <1>2, <1>5

(* Units lead from a state to a state.                                     *)
LEMMA ParseFromIsTyped ==
    ASSUME NEW s \in States, NEW u \in Seq(Units)
    PROVE  ParseFrom(s, u) \in States
BY ParseLoops, ParseFromIs

(* No unit leads nowhere.                                                  *)
LEMMA ParseNothing ==
    ASSUME NEW s \in States
    PROVE  ParseFrom(s, <<>>) = s
<1>1. <<>> \in Seq(Units) /\ Len(<<>>) = 0
      OBVIOUS
<1>2. PICK f : ParseLoop(s, <<>>, f)
      BY <1>1, ParseLoops
<1>3. f[0] = s
      BY <1>1, <1>2 DEF ParseLoop
<1> QED
    BY <1>1, <1>2, <1>3, ParseFromIs

(* One more unit is one more step.                                         *)
LEMMA ParseAppended ==
    ASSUME NEW s \in States, NEW u \in Seq(Units), NEW x \in Units
    PROVE  ParseFrom(s, Append(u, x)) = ParseUnit(ParseFrom(s, u), x)
<1> DEFINE v == Append(u, x)
           n == Len(u)
<1>1. /\ v \in Seq(Units) /\ Len(v) = n + 1 /\ n \in Nat
      /\ v[n + 1] = x /\ \A k \in 1..n : v[k] = u[k]
      BY AppendProperties, LenProperties
<1> HIDE DEF v, n
<1>2. PICK f : ParseLoop(s, u, f)
      BY ParseLoops
<1>3. PICK g : ParseLoop(s, v, g)
      BY <1>1, ParseLoops
<1>4. ParseSteps(s, u, f) /\ ParseSteps(s, v, g)
      BY <1>1, <1>2, <1>3, ParseLoopIs, Zenon
<1>5. f[0] = g[0] /\ \A k \in 1..n : f[k - 1] = g[k - 1] => f[k] = g[k]
  <2>1. f[0] = s /\ \A k \in 1..n : f[k] = ParseUnit(f[k - 1], u[k])
        BY <1>4 DEF ParseSteps, n
  <2>2. g[0] = s /\ \A k \in 1..(n + 1) : g[k] = ParseUnit(g[k - 1], v[k])
        BY <1>4, <1>1 DEF ParseSteps
  <2>3. \A k \in 1..n : k \in 1..(n + 1)
        BY <1>1
  <2> QED
      BY <1>1, <2>1, <2>2, <2>3
<1>6. f[n] = g[n]
      BY <1>1, <1>5, LoopsAgree
<1>7. g[n + 1] = ParseUnit(g[n], x)
  <2>1. \A k \in 1..(n + 1) : g[k] = ParseUnit(g[k - 1], v[k])
        BY <1>4, <1>1 DEF ParseSteps
  <2>2. n + 1 \in 1..(n + 1) /\ (n + 1) - 1 = n
        BY <1>1
  <2> QED
      BY <1>1, <2>1, <2>2
<1>8. ParseFrom(s, u) = f[n] /\ ParseFrom(s, v) = g[n + 1]
      BY <1>1, <1>2, <1>3, ParseFromIs DEF n
<1> QED
    BY <1>6, <1>7, <1>8 DEF v

(* Parsing goes on where it stopped.                                       *)
LEMMA ParseConcat ==
    ASSUME NEW s \in States, NEW u \in Seq(Units), NEW v \in Seq(Units)
    PROVE  ParseFrom(s, u \o v) = ParseFrom(ParseFrom(s, u), v)
<1> DEFINE T == {w \in Seq(Units) : ParseFrom(s, u \o w) = ParseFrom(ParseFrom(s, u), w)}
<1>1. <<>> \in T
  <2>1. <<>> \in Seq(Units) /\ u \o <<>> = u
        BY ConcatEmptySeq
  <2> QED
      BY <2>1, ParseFromIsTyped, ParseNothing
<1>2. ASSUME NEW w \in Seq(Units), NEW x \in Units, w \in T
      PROVE  Append(w, x) \in T
  <2>1. u \o Append(w, x) = Append(u \o w, x)
        BY AppendBehind
  <2>2. u \o w \in Seq(Units)
        BY ConcatProperties
  <2>3. ParseFrom(s, Append(u \o w, x)) = ParseUnit(ParseFrom(s, u \o w), x)
        BY <2>2, ParseAppended
  <2>4. ParseFrom(ParseFrom(s, u), Append(w, x)) = ParseUnit(ParseFrom(ParseFrom(s, u), w), x)
        BY ParseFromIsTyped, ParseAppended
  <2>5. Append(w, x) \in Seq(Units)
        BY AppendProperties
  <2> QED
      BY <1>2, <2>1, <2>3, <2>4, <2>5
<1>3. Seq(Units) \subseteq T
  <2> HIDE DEF T
  <2> QED
      BY <1>1, <1>2, SequencesGrow
<1> QED
    BY <1>3

(* Backslashes are counted.                                                *)
LEMMA BackslashesAreCounted ==
    ASSUME NEW l \in Seq(Seq(Units)), NEW c \in Seq(Units), NEW n \in Nat
    PROVE  ParseFrom(Reading(l, c, 0, TRUE), Backslashes(n)) = Reading(l, c, n, TRUE)
<1> DEFINE s == Reading(l, c, 0, TRUE)
           Counted == {k \in Nat : ParseFrom(s, Backslashes(k)) = Reading(l, c, k, TRUE)}
<1>1. s \in States
      BY ReadingIsTyped
<1>2. 0 \in Counted
      BY <1>1, NoBackslashes, ParseNothing
<1>3. ASSUME NEW k \in Nat, k \in Counted
      PROVE  k + 1 \in Counted
  <2> HIDE DEF s
  <2>1. "backslash" \in Units
        BY DEF Units
  <2>2. ParseFrom(s, Append(Backslashes(k), "backslash")) = ParseUnit(ParseFrom(s, Backslashes(k)), "backslash")
        BY <1>1, <2>1, BackslashesAreUnits, ParseAppended
  <2>3. ParseFrom(s, Backslashes(k)) = Reading(l, c, k, TRUE)
        BY <1>3
  <2>4. ParseUnit(Reading(l, c, k, TRUE), "backslash") = Reading(l, c, k + 1, TRUE)
        BY ParseUnitIs
  <2>5. Backslashes(k + 1) = Append(Backslashes(k), "backslash")
        BY BackslashesAreUnits
  <2>6. ParseFrom(s, Backslashes(k + 1)) = Reading(l, c, k + 1, TRUE)
        BY <2>2, <2>3, <2>4, <2>5, Zenon
  <2>7. k + 1 \in Nat
        OBVIOUS
  <2> QED
      BY <2>6, <2>7, Zenon
<1>4. Nat \subseteq Counted
  <2> HIDE DEF Counted
  <2> QED
      BY <1>2, <1>3, Inductive
<1> QED
    BY <1>4

-----------------------------------------------------------------------------
(* The boundary's side.                                                    *)
QuoteStates == [out : Seq(Units), pending : Nat]
Opened == [out |-> <<"quote">>, pending |-> 0]

(* The loop starts with units and keeps to them.                           *)
LEMMA QuoteStepIsTyped ==
    /\ Opened \in QuoteStates
    /\ \A s \in QuoteStates : \A x \in Units : QuoteUnit(s, x) \in QuoteStates
<1>1. Opened \in QuoteStates
      BY DEF Opened, QuoteStates, Units
<1>2. ASSUME NEW s \in QuoteStates, NEW x \in Units
      PROVE  QuoteUnit(s, x) \in QuoteStates
  <2>1. s.out \in Seq(Units) /\ s.pending \in Nat /\ 2 * s.pending + 1 \in Nat /\ s.pending + 1 \in Nat
        BY DEF QuoteStates
  <2>2. Backslashes(s.pending) \in Seq(Units) /\ Backslashes(2 * s.pending + 1) \in Seq(Units)
        BY <2>1, BackslashesAreUnits
  <2>3. "quote" \in Units
        BY DEF Units
  <2>4. /\ Append(s.out \o Backslashes(2 * s.pending + 1), "quote") \in Seq(Units)
        /\ Append(s.out \o Backslashes(s.pending), x) \in Seq(Units)
        BY <2>1, <2>2, <2>3, ConcatProperties, AppendProperties
  <2>5. /\ [s EXCEPT !.pending = @ + 1] \in QuoteStates
        /\ [out |-> Append(s.out \o Backslashes(2 * s.pending + 1), "quote"), pending |-> 0] \in QuoteStates
        /\ [out |-> Append(s.out \o Backslashes(s.pending), x), pending |-> 0] \in QuoteStates
        BY <2>1, <2>4 DEF QuoteStates
  <2>6. \/ QuoteUnit(s, x) = [s EXCEPT !.pending = @ + 1]
        \/ QuoteUnit(s, x) = [out |-> Append(s.out \o Backslashes(2 * s.pending + 1), "quote"), pending |-> 0]
        \/ QuoteUnit(s, x) = [out |-> Append(s.out \o Backslashes(s.pending), x), pending |-> 0]
        BY DEF QuoteUnit
  <2> QED
      BY <2>5, <2>6
<1> QED
    BY <1>1, <1>2

(* Its loop over the units of an argument, ...                             *)
QuoteLoop(u, f) ==
    f = [k \in 0..Len(u) |-> IF k = 0 THEN Opened ELSE QuoteUnit(f[k - 1], u[k])]
QuoteSteps(u, f) ==
    f[0] = Opened /\ \A k \in 1..Len(u) : f[k] = QuoteUnit(f[k - 1], u[k])

(* What its first step is, and every further one.                          *)
LEMMA QuoteLoopIs ==
    ASSUME NEW u \in Seq(Units), NEW f, QuoteLoop(u, f)
    PROVE  QuoteSteps(u, f)
<1>1. Len(u) \in Nat /\ 0 \in 0..Len(u) /\ \A k \in 1..Len(u) : k \in 0..Len(u) /\ k # 0
      OBVIOUS
<1> QED
    BY <1>1 DEF QuoteLoop, QuoteSteps

(* ... which has a result, ...                                             *)
LEMMA QuoteLoops ==
    ASSUME NEW u \in Seq(Units)
    PROVE  \E f : QuoteLoop(u, f) /\ f[Len(u)] \in QuoteStates
<1> DEFINE N == Len(u)
           step == [x \in QuoteStates \X (1..N) |-> QuoteUnit(x[1], u[x[2]])]
           base == Opened
<1>1. N \in Nat /\ \A k \in 1..N : u[k] \in Units
      BY ElementOfSeq, LenProperties
<1>2. step \in [QuoteStates \X (1..N) -> QuoteStates] /\ base \in QuoteStates
      BY <1>1, QuoteStepIsTyped
<1> HIDE DEF step, base
<1>3. PICK f : IsIteration(f, QuoteStates, base, N, step)
      BY <1>1, <1>2, Iterated, Zenon
<1>4. ASSUME NEW k \in 0..N
      PROVE  f[k] = IF k = 0 THEN base ELSE QuoteUnit(f[k - 1], u[k])
  <2>1. CASE k = 0
        BY <1>3, <2>1 DEF IsIteration
  <2>2. CASE k \in 1..N
    <3>1. k - 1 \in 0..N /\ k # 0
          BY <1>1, <2>2
    <3>2. f[k - 1] \in QuoteStates
          BY <1>3, <3>1 DEF IsIteration
    <3>3. f[k] = step[<<f[k - 1], k>>]
          BY <1>3, <2>2 DEF IsIteration
    <3>4. step[<<f[k - 1], k>>] = QuoteUnit(f[k - 1], u[k])
          BY <2>2, <3>2 DEF step
    <3> QED
        BY <3>1, <3>3, <3>4
  <2> QED
      BY <1>1, <2>1, <2>2
<1>5. f = [k \in 0..N |-> f[k]] /\ f[N] \in QuoteStates
      BY <1>1, <1>3 DEF IsIteration
<1>6. QuoteLoop(u, f)
      BY <1>4, <1>5 DEF QuoteLoop, base
<1> QED
    BY <1>5, <1>6

(* ... and one only.                                                       *)
LEMMA QuotingIs ==
    ASSUME NEW u \in Seq(Units), NEW f, QuoteLoop(u, f)
    PROVE  Quoting(u) = f[Len(u)]
<1> DEFINE loop == CHOOSE g : QuoteLoop(u, g)
<1>1. QuoteLoop(u, loop)
      OBVIOUS
<1>2. Quoting(u) = loop[Len(u)]
      BY DEF Quoting, QuoteLoop, Opened
<1> HIDE DEF loop
<1>3. Len(u) \in Nat
      OBVIOUS
<1>4. loop[0] = f[0] /\ \A k \in 1..Len(u) : loop[k - 1] = f[k - 1] => loop[k] = f[k]
  <2>1. QuoteSteps(u, loop) /\ QuoteSteps(u, f)
        BY <1>1, QuoteLoopIs, Zenon
  <2> QED
      BY <2>1 DEF QuoteSteps
<1>5. loop[Len(u)] = f[Len(u)]
      BY <1>3, <1>4, LoopsAgree
<1> QED
    BY <1>2, <1>5

(* What the loop leaves.                                                   *)
LEMMA QuotingIsTyped ==
    ASSUME NEW u \in Seq(Units)
    PROVE  Quoting(u) \in QuoteStates
BY QuoteLoops, QuotingIs

(* Nothing but the opening quote is written of an empty argument.          *)
LEMMA QuotingNothing == Quoting(<<>>) = Opened
<1>1. <<>> \in Seq(Units) /\ Len(<<>>) = 0
      OBVIOUS
<1>2. PICK f : QuoteLoop(<<>>, f)
      BY <1>1, QuoteLoops
<1>3. f[0] = Opened
      BY <1>1, <1>2, QuoteLoopIs DEF QuoteSteps
<1> QED
    BY <1>1, <1>2, <1>3, QuotingIs

(* One more unit is one more step.                                         *)
LEMMA QuotingAppended ==
    ASSUME NEW u \in Seq(Units), NEW x \in Units
    PROVE  Quoting(Append(u, x)) = QuoteUnit(Quoting(u), x)
<1> DEFINE v == Append(u, x)
           n == Len(u)
<1>1. /\ v \in Seq(Units) /\ Len(v) = n + 1 /\ n \in Nat
      /\ v[n + 1] = x /\ \A k \in 1..n : v[k] = u[k]
      BY AppendProperties, LenProperties
<1> HIDE DEF v, n
<1>2. PICK f : QuoteLoop(u, f)
      BY QuoteLoops
<1>3. PICK g : QuoteLoop(v, g)
      BY <1>1, QuoteLoops
<1>4. QuoteSteps(u, f) /\ QuoteSteps(v, g)
      BY <1>1, <1>2, <1>3, QuoteLoopIs, Zenon
<1>5. f[0] = g[0] /\ \A k \in 1..n : f[k - 1] = g[k - 1] => f[k] = g[k]
  <2>1. f[0] = Opened /\ \A k \in 1..n : f[k] = QuoteUnit(f[k - 1], u[k])
        BY <1>4 DEF QuoteSteps, n
  <2>2. g[0] = Opened /\ \A k \in 1..(n + 1) : g[k] = QuoteUnit(g[k - 1], v[k])
        BY <1>1, <1>4 DEF QuoteSteps
  <2>3. \A k \in 1..n : k \in 1..(n + 1)
        BY <1>1
  <2> QED
      BY <1>1, <2>1, <2>2, <2>3
<1>6. f[n] = g[n]
      BY <1>1, <1>5, LoopsAgree
<1>7. g[n + 1] = QuoteUnit(g[n], x)
  <2>1. \A k \in 1..(n + 1) : g[k] = QuoteUnit(g[k - 1], v[k])
        BY <1>1, <1>4 DEF QuoteSteps
  <2>2. n + 1 \in 1..(n + 1) /\ (n + 1) - 1 = n
        BY <1>1
  <2> QED
      BY <1>1, <2>1, <2>2
<1>8. Quoting(u) = f[n] /\ Quoting(v) = g[n + 1]
      BY <1>1, <1>2, <1>3, QuotingIs DEF n
<1> QED
    BY <1>6, <1>7, <1>8 DEF v

(* A quoted argument is a sequence of units.                               *)
LEMMA QuotedIsTyped ==
    ASSUME NEW a \in Seq(Units)
    PROVE  Quoted(a) \in Seq(Units)
<1> DEFINE end == Quoting(a)
<1>1. end.out \in Seq(Units) /\ end.pending \in Nat
      BY QuotingIsTyped DEF QuoteStates
<1>2. 2 * end.pending \in Nat /\ "quote" \in Units
      BY <1>1 DEF Units
<1>3. Backslashes(2 * end.pending) \in Seq(Units)
      BY <1>2, BackslashesAreUnits
<1>4. Append(end.out \o Backslashes(2 * end.pending), "quote") \in Seq(Units)
      BY <1>1, <1>2, <1>3, ConcatProperties, AppendProperties
<1> QED
    BY <1>4 DEF Quoted

(* One more argument.                                                      *)
JoinArgument(joined, a) == Append(joined, "space") \o Quoted(a)
Program == Quoted(Executable)

(* The line starts with units and keeps to them.                           *)
LEMMA JoinStepIsTyped ==
    /\ Program \in Seq(Units)
    /\ \A j \in Seq(Units) : \A a \in Seq(Units) : JoinArgument(j, a) \in Seq(Units)
<1>1. "space" \in Units
      BY DEF Units
<1>2. ASSUME NEW j \in Seq(Units), NEW a \in Seq(Units)
      PROVE  JoinArgument(j, a) \in Seq(Units)
  <2>1. Append(j, "space") \in Seq(Units) /\ Quoted(a) \in Seq(Units)
        BY <1>1, QuotedIsTyped, AppendProperties
  <2> QED
      BY <2>1, ConcatProperties DEF JoinArgument
<1> QED
    BY <1>2, QuotedIsTyped, ExecutableAssumption DEF Program

(* The loop over the arguments, ...                                        *)
JoinLoop(u, f) ==
    f = [k \in 0..Len(u) |-> IF k = 0 THEN Program ELSE JoinArgument(f[k - 1], u[k])]
JoinSteps(u, f) ==
    f[0] = Program /\ \A k \in 1..Len(u) : f[k] = JoinArgument(f[k - 1], u[k])

(* What its first step is, and every further one.                          *)
LEMMA JoinLoopIs ==
    ASSUME NEW u \in Seq(Seq(Units)), NEW f, JoinLoop(u, f)
    PROVE  JoinSteps(u, f)
<1>1. Len(u) \in Nat /\ 0 \in 0..Len(u) /\ \A k \in 1..Len(u) : k \in 0..Len(u) /\ k # 0
      OBVIOUS
<1> QED
    BY <1>1 DEF JoinLoop, JoinSteps

(* ... which has a result, ...                                             *)
LEMMA JoinLoops ==
    ASSUME NEW u \in Seq(Seq(Units))
    PROVE  \E f : JoinLoop(u, f) /\ f[Len(u)] \in Seq(Units)
<1> DEFINE N == Len(u)
           step == [x \in Seq(Units) \X (1..N) |-> JoinArgument(x[1], u[x[2]])]
           base == Program
<1>1. N \in Nat /\ \A k \in 1..N : u[k] \in Seq(Units)
      BY ElementOfSeq, LenProperties
<1>2. step \in [Seq(Units) \X (1..N) -> Seq(Units)] /\ base \in Seq(Units)
      BY <1>1, JoinStepIsTyped
<1> HIDE DEF step, base
<1>3. PICK f : IsIteration(f, Seq(Units), base, N, step)
      BY <1>1, <1>2, Iterated, Zenon
<1>4. ASSUME NEW k \in 0..N
      PROVE  f[k] = IF k = 0 THEN base ELSE JoinArgument(f[k - 1], u[k])
  <2>1. CASE k = 0
        BY <1>3, <2>1 DEF IsIteration
  <2>2. CASE k \in 1..N
    <3>1. k - 1 \in 0..N /\ k # 0
          BY <1>1, <2>2
    <3>2. f[k - 1] \in Seq(Units)
          BY <1>3, <3>1 DEF IsIteration
    <3>3. f[k] = step[<<f[k - 1], k>>]
          BY <1>3, <2>2 DEF IsIteration
    <3>4. step[<<f[k - 1], k>>] = JoinArgument(f[k - 1], u[k])
          BY <2>2, <3>2 DEF step
    <3> QED
        BY <3>1, <3>3, <3>4
  <2> QED
      BY <1>1, <2>1, <2>2
<1>5. f = [k \in 0..N |-> f[k]] /\ f[N] \in Seq(Units)
      BY <1>1, <1>3 DEF IsIteration
<1>6. JoinLoop(u, f)
      BY <1>4, <1>5 DEF JoinLoop, base
<1> QED
    BY <1>5, <1>6

(* ... and one only.                                                       *)
LEMMA JoinedIs ==
    ASSUME NEW u \in Seq(Seq(Units)), NEW f, JoinLoop(u, f)
    PROVE  Joined(u) = f[Len(u)]
<1> DEFINE loop == CHOOSE g : JoinLoop(u, g)
<1>1. JoinLoop(u, loop)
      OBVIOUS
<1>2. Joined(u) = loop[Len(u)]
      BY DEF Joined, JoinLoop, JoinArgument, Program
<1> HIDE DEF loop
<1>3. Len(u) \in Nat
      OBVIOUS
<1>4. loop[0] = f[0] /\ \A k \in 1..Len(u) : loop[k - 1] = f[k - 1] => loop[k] = f[k]
  <2>1. JoinSteps(u, loop) /\ JoinSteps(u, f)
        BY <1>1, JoinLoopIs, Zenon
  <2> QED
      BY <2>1 DEF JoinSteps
<1>5. loop[Len(u)] = f[Len(u)]
      BY <1>3, <1>4, LoopsAgree
<1> QED
    BY <1>2, <1>5

(* A line is a sequence of units.                                          *)
LEMMA JoinedIsTyped ==
    ASSUME NEW u \in Seq(Seq(Units))
    PROVE  Joined(u) \in Seq(Units)
BY JoinLoops, JoinedIs

(* Without arguments it is the program.                                    *)
LEMMA JoinedNothing == Joined(<<>>) = Program
<1>1. <<>> \in Seq(Seq(Units)) /\ Len(<<>>) = 0
      OBVIOUS
<1>2. PICK f : JoinLoop(<<>>, f)
      BY <1>1, JoinLoops
<1>3. f[0] = Program
      BY <1>1, <1>2, JoinLoopIs DEF JoinSteps
<1> QED
    BY <1>1, <1>2, <1>3, JoinedIs

(* One more argument is one more step.                                     *)
LEMMA JoinedAppended ==
    ASSUME NEW u \in Seq(Seq(Units)), NEW x \in Seq(Units)
    PROVE  Joined(Append(u, x)) = JoinArgument(Joined(u), x)
<1> DEFINE v == Append(u, x)
           n == Len(u)
<1>1. /\ v \in Seq(Seq(Units)) /\ Len(v) = n + 1 /\ n \in Nat
      /\ v[n + 1] = x /\ \A k \in 1..n : v[k] = u[k]
      BY AppendProperties, LenProperties
<1> HIDE DEF v, n
<1>2. PICK f : JoinLoop(u, f)
      BY JoinLoops
<1>3. PICK g : JoinLoop(v, g)
      BY <1>1, JoinLoops
<1>4. JoinSteps(u, f) /\ JoinSteps(v, g)
      BY <1>1, <1>2, <1>3, JoinLoopIs, Zenon
<1>5. f[0] = g[0] /\ \A k \in 1..n : f[k - 1] = g[k - 1] => f[k] = g[k]
  <2>1. f[0] = Program /\ \A k \in 1..n : f[k] = JoinArgument(f[k - 1], u[k])
        BY <1>4 DEF JoinSteps, n
  <2>2. g[0] = Program /\ \A k \in 1..(n + 1) : g[k] = JoinArgument(g[k - 1], v[k])
        BY <1>1, <1>4 DEF JoinSteps
  <2>3. \A k \in 1..n : k \in 1..(n + 1)
        BY <1>1
  <2> QED
      BY <1>1, <2>1, <2>2, <2>3
<1>6. f[n] = g[n]
      BY <1>1, <1>5, LoopsAgree
<1>7. g[n + 1] = JoinArgument(g[n], x)
  <2>1. \A k \in 1..(n + 1) : g[k] = JoinArgument(g[k - 1], v[k])
        BY <1>1, <1>4 DEF JoinSteps
  <2>2. n + 1 \in 1..(n + 1) /\ (n + 1) - 1 = n
        BY <1>1
  <2> QED
      BY <1>1, <2>1, <2>2
<1>8. Joined(u) = f[n] /\ Joined(v) = g[n + 1]
      BY <1>1, <1>2, <1>3, JoinedIs DEF n
<1> QED
    BY <1>6, <1>7, <1>8 DEF v

-----------------------------------------------------------------------------
(* The two sides together.                                                 *)
LEMMA QuoteUnitIs ==
    ASSUME NEW s \in QuoteStates
    PROVE  /\ QuoteUnit(s, "backslash") = [out |-> s.out, pending |-> s.pending + 1]
           /\ QuoteUnit(s, "quote")
                 = [out |-> Append(s.out \o Backslashes(2 * s.pending + 1), "quote"), pending |-> 0]
           /\ \A x \in Units \ {"backslash", "quote"} :
                 QuoteUnit(s, x) = [out |-> Append(s.out \o Backslashes(s.pending), x), pending |-> 0]
<1>1. QuoteUnit(s, "backslash") = [s EXCEPT !.pending = @ + 1]
      BY DEF QuoteUnit
<1>2. [s EXCEPT !.pending = @ + 1] = [out |-> s.out, pending |-> s.pending + 1]
      BY DEF QuoteStates
<1>3. QuoteUnit(s, "quote")
         = [out |-> Append(s.out \o Backslashes(2 * s.pending + 1), "quote"), pending |-> 0]
      BY DEF QuoteUnit
<1>4. ASSUME NEW x \in Units \ {"backslash", "quote"}
      PROVE  QuoteUnit(s, x) = [out |-> Append(s.out \o Backslashes(s.pending), x), pending |-> 0]
      BY <1>4 DEF QuoteUnit
<1> QED
    BY <1>1, <1>2, <1>3, <1>4

(* What a unit does between arguments, and the space behind one.           *)
LEMMA BetweenIs ==
    ASSUME NEW l \in Seq(Seq(Units)), NEW a \in Seq(Units)
    PROVE  /\ ParseUnit(Between(l), "quote") = Reading(l, <<>>, 0, TRUE)
           /\ ParseUnit(Between(l), "space") = Between(l)
           /\ ParseUnit(Reading(l, a, 0, FALSE), "space") = Between(Append(l, a))
           /\ Finished(Between(l)) = l
           /\ Finished(Reading(l, a, 0, FALSE)) = Append(l, a)
<1>1. /\ 0 % 2 = 0 /\ 0 \div 2 = 0
      /\ <<>> \o Backslashes(0) = <<>> /\ a \o Backslashes(0) = a
      BY NoBackslashes, ConcatEmptySeq
<1>2. Finished(Between(l)) = l
      BY DEF Finished, Between
<1>3. Finished(Reading(l, a, 0, FALSE)) = Append(l, a)
      BY <1>1 DEF Finished, Reading
<1>4. ParseUnit(Between(l), "quote") = Reading(l, <<>>, 0, TRUE)
  <2> DEFINE s == Between(l)
  <2>1. s.list = l /\ s.current = <<>> /\ s.slashes = 0 /\ (~s.quoted) = TRUE
        BY DEF Between
  <2> HIDE DEF s
  <2>2. ParseUnit(s, "quote") = Reading(l, <<>> \o Backslashes(0 \div 2), 0, ~s.quoted)
        BY <1>1, <2>1 DEF ParseUnit
  <2> QED
      BY <1>1, <2>1, <2>2 DEF s
<1>5. ParseUnit(Between(l), "space") = Between(l)
  <2> DEFINE s == Between(l)
  <2>1. ~s.quoted
        BY DEF Between
  <2> HIDE DEF s
  <2>2. ParseUnit(s, "space") = Between(Finished(s))
        BY <2>1 DEF ParseUnit
  <2> QED
      BY <1>2, <2>2 DEF s
<1>6. ParseUnit(Reading(l, a, 0, FALSE), "space") = Between(Append(l, a))
  <2> DEFINE s == Reading(l, a, 0, FALSE)
  <2>1. ~s.quoted
        BY DEF Reading
  <2> HIDE DEF s
  <2>2. ParseUnit(s, "space") = Between(Finished(s))
        BY <2>1 DEF ParseUnit
  <2> QED
      BY <1>3, <2>2 DEF s
<1> QED
    BY <1>2, <1>3, <1>4, <1>5, <1>6

(* While an argument is quoted, the child has read of it what is written,  *)
(* and only backslashes wait.                                              *)
InStep(l, a, e) ==
    \E c \in Seq(Units) :
       a = c \o Backslashes(e.pending) /\ ParseFrom(Between(l), e.out) = Reading(l, c, 0, TRUE)

(* A unit more keeps the two in step: what was doubled is halved.          *)
LEMMA QuoteKeepsInStep ==
    ASSUME NEW l \in Seq(Seq(Units)), NEW a \in Seq(Units), NEW x \in Units,
           NEW e \in QuoteStates, InStep(l, a, e)
    PROVE  InStep(l, Append(a, x), QuoteUnit(e, x))
<1> DEFINE p == e.pending
           s == Between(l)
<1>1. e.out \in Seq(Units) /\ p \in Nat /\ s \in States
      BY BetweenIsTyped DEF QuoteStates
<1>2. PICK c \in Seq(Units) :
         a = c \o Backslashes(p) /\ ParseFrom(s, e.out) = Reading(l, c, 0, TRUE)
      BY DEF InStep
<1>3. Append(a, x) \in Seq(Units) /\ Append(a, x) \o Backslashes(0) = Append(a, x)
      BY AppendProperties, ConcatEmptySeq, NoBackslashes
<1> HIDE DEF p, s
<1>4. ASSUME NEW n \in Nat, NEW y \in Units
      PROVE  ParseFrom(s, Append(e.out \o Backslashes(n), y))
                = ParseUnit(Reading(l, c, n, TRUE), y)
  <2>1. Backslashes(n) \in Seq(Units)
        BY BackslashesAreUnits
  <2>2. e.out \o Backslashes(n) \in Seq(Units)
        BY <1>1, <2>1, ConcatProperties
  <2>3. ParseFrom(s, Append(e.out \o Backslashes(n), y))
           = ParseUnit(ParseFrom(s, e.out \o Backslashes(n)), y)
        BY <1>1, <2>2, ParseAppended
  <2>4. ParseFrom(s, e.out \o Backslashes(n)) = ParseFrom(Reading(l, c, 0, TRUE), Backslashes(n))
    <3>1. ParseFrom(s, e.out \o Backslashes(n)) = ParseFrom(ParseFrom(s, e.out), Backslashes(n))
          BY <1>1, <2>1, ParseConcat
    <3> QED
        BY <1>2, <3>1, Zenon
  <2>5. ParseFrom(Reading(l, c, 0, TRUE), Backslashes(n)) = Reading(l, c, n, TRUE)
        BY BackslashesAreCounted
  <2> QED
      BY <2>3, <2>4, <2>5
<1>5. CASE x = "backslash"
  <2>1. QuoteUnit(e, x) = [out |-> e.out, pending |-> p + 1]
        BY <1>5, QuoteUnitIs, Zenon DEF p
  <2>2. QuoteUnit(e, x).out = e.out /\ QuoteUnit(e, x).pending = p + 1
        BY <2>1
  <2>3. Append(a, x) = c \o Backslashes(p + 1)
    <3>1. Backslashes(p) \in Seq(Units) /\ Backslashes(p + 1) = Append(Backslashes(p), x)
          BY <1>1, <1>5, BackslashesAreUnits
    <3>2. c \o Append(Backslashes(p), x) = Append(c \o Backslashes(p), x)
          BY <3>1, AppendBehind
    <3> QED
        BY <1>2, <3>1, <3>2, Zenon
  <2> QED
      BY <1>2, <2>2, <2>3 DEF InStep, s
<1>6. CASE x = "quote"
  <2>1. QuoteUnit(e, x) = [out |-> Append(e.out \o Backslashes(2 * p + 1), x), pending |-> 0]
        BY <1>6, QuoteUnitIs, Zenon DEF p
  <2> DEFINE written == Append(e.out \o Backslashes(2 * p + 1), x)
  <2> HIDE DEF written
  <2>2. QuoteUnit(e, x) = [out |-> written, pending |-> 0]
        BY <2>1 DEF written
  <2>3. /\ QuoteUnit(e, x).out = written
        /\ QuoteUnit(e, x).pending = 0
        BY <2>2
  <2>4. ParseUnit(Reading(l, c, 2 * p + 1, TRUE), x) = Reading(l, Append(a, x), 0, TRUE)
        BY <1>1, <1>2, <1>6, ParseUnitIs, Zenon
  <2>5. 2 * p + 1 \in Nat
        BY <1>1
  <2>6. ParseFrom(s, QuoteUnit(e, x).out) = Reading(l, Append(a, x), 0, TRUE)
        BY <1>4, <2>3, <2>4, <2>5, Zenon DEF written
  <2> QED
      BY <1>3, <2>3, <2>6 DEF InStep, s
<1>7. CASE x \notin {"backslash", "quote"}
  <2>1. x \in Units \ {"backslash", "quote"}
        BY <1>7
  <2>2. QuoteUnit(e, x) = [out |-> Append(e.out \o Backslashes(p), x), pending |-> 0]
        BY <2>1, QuoteUnitIs, Zenon DEF p
  <2>3. /\ QuoteUnit(e, x).out = Append(e.out \o Backslashes(p), x)
        /\ QuoteUnit(e, x).pending = 0
        BY <2>2
  <2>4. ParseUnit(Reading(l, c, p, TRUE), x) = Reading(l, Append(c \o Backslashes(p), x), 0, TRUE)
    <3>1. p \in Nat /\ x # "backslash" /\ x # "quote"
          BY <1>1, <1>7
    <3> QED
        BY <3>1, ParseOrdinary
  <2>5. ParseUnit(Reading(l, c, p, TRUE), x) = Reading(l, Append(a, x), 0, TRUE)
        BY <1>2, <2>1, <2>4, Zenon
  <2>6. ParseFrom(s, QuoteUnit(e, x).out) = Reading(l, Append(a, x), 0, TRUE)
        BY <1>1, <1>4, <2>3, <2>5
  <2> QED
      BY <1>3, <2>3, <2>6 DEF InStep, s
<1> QED
    BY <1>5, <1>6, <1>7

(* They are in step for every argument.                                    *)
LEMMA QuotingInStep ==
    ASSUME NEW l \in Seq(Seq(Units)), NEW a \in Seq(Units)
    PROVE  InStep(l, a, Quoting(a))
<1> DEFINE T == {w \in Seq(Units) : InStep(l, w, Quoting(w))}
<1>1. <<>> \in T
  <2>1. /\ Opened.out = Append(<<>>, "quote") /\ Opened.pending = 0
        /\ "quote" \in Units /\ <<>> \in Seq(Units)
        BY DEF Opened, Units
  <2>2. ParseFrom(Between(l), Append(<<>>, "quote")) = ParseUnit(Between(l), "quote")
        BY <2>1, BetweenIsTyped, ParseAppended, ParseNothing
  <2>3. <<>> \o Backslashes(0) = <<>>
        BY NoBackslashes
  <2>4. ParseFrom(Between(l), Opened.out) = Reading(l, <<>>, 0, TRUE)
        BY <2>1, <2>2, BetweenIs
  <2>5. InStep(l, <<>>, Opened)
        BY <2>1, <2>3, <2>4 DEF InStep
  <2> QED
      BY <2>1, <2>5, QuotingNothing
<1>2. ASSUME NEW w \in Seq(Units), NEW x \in Units, w \in T
      PROVE  Append(w, x) \in T
  <2>1. InStep(l, Append(w, x), QuoteUnit(Quoting(w), x))
        BY <1>2, QuotingIsTyped, QuoteKeepsInStep
  <2>2. Append(w, x) \in Seq(Units)
        BY AppendProperties
  <2> QED
      BY <2>1, <2>2, QuotingAppended
<1>3. Seq(Units) \subseteq T
  <2> HIDE DEF T
  <2> QED
      BY <1>1, <1>2, SequencesGrow
<1> QED
    BY <1>3

(* A quoted argument is read as the argument.                              *)
LEMMA QuotedIsRead ==
    ASSUME NEW l \in Seq(Seq(Units)), NEW a \in Seq(Units)
    PROVE  ParseFrom(Between(l), Quoted(a)) = Reading(l, a, 0, FALSE)
<1> DEFINE e == Quoting(a)
           p == e.pending
           s == Between(l)
<1>1. e.out \in Seq(Units) /\ p \in Nat /\ s \in States
      BY QuotingIsTyped, BetweenIsTyped DEF QuoteStates
<1>2. PICK c \in Seq(Units) :
         a = c \o Backslashes(p) /\ ParseFrom(s, e.out) = Reading(l, c, 0, TRUE)
      BY QuotingInStep DEF InStep
<1>3. Quoted(a) = Append(e.out \o Backslashes(2 * p), "quote")
      BY DEF Quoted
<1> HIDE DEF e, p, s
<1>4. 2 * p \in Nat /\ "quote" \in Units
      BY <1>1 DEF Units
<1>5. Backslashes(2 * p) \in Seq(Units)
      BY <1>4, BackslashesAreUnits
<1>6. e.out \o Backslashes(2 * p) \in Seq(Units)
      BY <1>1, <1>5, ConcatProperties
<1>7. ParseFrom(s, Quoted(a)) = ParseUnit(ParseFrom(s, e.out \o Backslashes(2 * p)), "quote")
      BY <1>1, <1>3, <1>4, <1>6, ParseAppended
<1>8. ParseFrom(s, e.out \o Backslashes(2 * p)) = ParseFrom(Reading(l, c, 0, TRUE), Backslashes(2 * p))
  <2>1. ParseFrom(s, e.out \o Backslashes(2 * p)) = ParseFrom(ParseFrom(s, e.out), Backslashes(2 * p))
        BY <1>1, <1>5, ParseConcat
  <2> QED
      BY <1>2, <2>1, Zenon
<1>9. ParseFrom(Reading(l, c, 0, TRUE), Backslashes(2 * p)) = Reading(l, c, 2 * p, TRUE)
      BY <1>4, BackslashesAreCounted
<1>10. ParseUnit(Reading(l, c, 2 * p, TRUE), "quote") = Reading(l, a, 0, FALSE)
      BY <1>1, <1>2, ParseUnitIs, Zenon
<1> QED
    BY <1>7, <1>8, <1>9, <1>10 DEF s

(* What follows a prefix does not depend on it.                            *)
LEMMA JointsMove ==
    ASSUME NEW p \in Seq(Units), NEW r \in Seq(Units), NEW q \in Seq(Units)
    PROVE  Append(p \o r, "space") \o q = p \o (Append(r, "space") \o q)
<1>1. "space" \in Units
      BY DEF Units
<1>2. p \o Append(r, "space") = Append(p \o r, "space")
      BY <1>1, AppendBehind
<1>3. Append(r, "space") \in Seq(Units)
      BY <1>1, AppendProperties
<1> DEFINE spaced == Append(r, "space")
<1>4. spaced \in Seq(Units)
      BY <1>3
<1> HIDE DEF spaced
<1>5. (p \o spaced) \o q = p \o (spaced \o q)
      BY <1>4, ConcatAssociative
<1> QED
    BY <1>2, <1>5 DEF spaced

(* Behind the program, the line is read as the list.                       *)
Spells(units, l) ==
    /\ Finished(ParseFrom(Between(<<>>), units)) = l
    /\ ParseUnit(ParseFrom(Between(<<>>), units), "space") = Between(l)

(* Every line is the program and what spells its list.                     *)
LEMMA JoinedSpells ==
    ASSUME NEW list \in Seq(Seq(Units))
    PROVE  \E r \in Seq(Units) : Joined(list) = Program \o r /\ Spells(r, list)
<1> DEFINE T == {l \in Seq(Seq(Units)) :
                    \E r \in Seq(Units) : Joined(l) = Program \o r /\ Spells(r, l)}
           s == Between(<<>>)
<1>1. <<>> \in Seq(Seq(Units)) /\ <<>> \in Seq(Units)
      OBVIOUS
<1>2. <<>> \in Seq(Seq(Units)) /\ <<>> \in Seq(Units) /\ s \in States
      BY <1>1, BetweenIsTyped, Zenon
<1>3. <<>> \in T
  <2>1. Program \o <<>> = Program
        BY JoinStepIsTyped, ConcatEmptySeq
  <2>2. Spells(<<>>, <<>>)
        BY <1>2, ParseNothing, BetweenIs DEF Spells
  <2> QED
      BY <1>2, <2>1, <2>2, JoinedNothing
<1>4. ASSUME NEW l \in Seq(Seq(Units)), NEW a \in Seq(Units), l \in T
      PROVE  Append(l, a) \in T
  <2>1. PICK r \in Seq(Units) : Joined(l) = Program \o r /\ Spells(r, l)
        BY <1>4
  <2> DEFINE further == Append(r, "space") \o Quoted(a)
  <2>2. "space" \in Units /\ Quoted(a) \in Seq(Units) /\ Program \in Seq(Units)
        BY QuotedIsTyped, JoinStepIsTyped DEF Units
  <2>3. Append(r, "space") \in Seq(Units) /\ further \in Seq(Units)
        BY <2>2, AppendProperties, ConcatProperties
  <2>4. Joined(Append(l, a)) = Append(Program \o r, "space") \o Quoted(a)
        BY <2>1, JoinedAppended DEF JoinArgument
  <2>5. Append(Program \o r, "space") \o Quoted(a) = Program \o further
        BY <2>2, JointsMove, Zenon
  <2>6. ParseFrom(s, further) = ParseFrom(ParseFrom(s, Append(r, "space")), Quoted(a))
        BY <1>2, <2>2, <2>3, ParseConcat
  <2>7. ParseFrom(s, Append(r, "space")) = Between(l)
        BY <1>2, <2>1, <2>2, ParseAppended DEF Spells
  <2>8. ParseFrom(s, further) = Reading(l, a, 0, FALSE)
        BY <2>6, <2>7, QuotedIsRead
  <2>9. Spells(further, Append(l, a))
        BY <2>8, BetweenIs DEF Spells
  <2>10. Append(l, a) \in Seq(Seq(Units))
        BY AppendProperties
  <2> HIDE DEF further
  <2> QED
      BY <2>3, <2>4, <2>5, <2>9, <2>10
<1>5. Seq(Seq(Units)) \subseteq T
  <2> HIDE DEF T
  <2> QED
      BY <1>3, <1>4, SequencesGrow
<1> QED
    BY <1>5

-----------------------------------------------------------------------------
(* The program's name: without a quote in it, and without a backslash at   *)
(* its end, it stands on the line as it is, between two quotes.            *)
Straight == Units \ {"quote"}

Verbatim(a, out, pending) ==
    /\ out \o Backslashes(pending) = <<"quote">> \o a
    /\ pending = 0 \/ (a # <<>> /\ a[Len(a)] = "backslash")

(* A unit more, no quote, is written as it is.                             *)
LEMMA QuoteKeepsVerbatim ==
    ASSUME NEW a \in Seq(Units), NEW x \in Straight, NEW e \in QuoteStates,
           Verbatim(a, e.out, e.pending)
    PROVE  Verbatim(Append(a, x), QuoteUnit(e, x).out, QuoteUnit(e, x).pending)
<1> DEFINE p == e.pending
           written == Append(e.out \o Backslashes(p), x)
           longer == Append(a, x)
<1>1. e.out \in Seq(Units) /\ p \in Nat /\ x \in Units /\ <<"quote">> \in Seq(Units)
      BY DEF QuoteStates, Straight, Units
<1>2. Backslashes(p) \in Seq(Units)
      BY <1>1, BackslashesAreUnits
<1>3. written = <<"quote">> \o longer
  <2>1. <<"quote">> \o Append(a, x) = Append(<<"quote">> \o a, x)
        BY <1>1, AppendBehind
  <2>2. e.out \o Backslashes(p) = <<"quote">> \o a
        BY DEF Verbatim
  <2> QED
      BY <2>1, <2>2, Zenon
<1>4. longer # <<>> /\ longer[Len(longer)] = x
      BY <1>1, AppendProperties
<1>5. written \in Seq(Units)
  <2>1. e.out \o Backslashes(p) \in Seq(Units)
        BY <1>1, <1>2, ConcatProperties
  <2> QED
      BY <1>1, <2>1, AppendProperties
<1>6. CASE x = "backslash"
  <2>1. QuoteUnit(e, x) = [out |-> e.out, pending |-> p + 1]
        BY <1>6, QuoteUnitIs, Zenon
  <2>2. QuoteUnit(e, x).out = e.out /\ QuoteUnit(e, x).pending = p + 1
        BY <2>1
  <2>3. Backslashes(p + 1) = Append(Backslashes(p), x)
        BY <1>1, <1>6, BackslashesAreUnits
  <2> DEFINE waiting == Backslashes(p)
             out == e.out
  <2>4. out \o Append(waiting, x) = Append(out \o waiting, x)
    <3>1. out \in Seq(Units) /\ waiting \in Seq(Units) /\ x \in Units
          BY <1>1, <1>2
    <3> HIDE DEF out, waiting
    <3> QED
        BY <3>1, AppendBehind
  <2>5. Append(out \o waiting, x) = written
        OBVIOUS
  <2> HIDE DEF p, written, longer
  <2>6. e.out \o Backslashes(p + 1) = <<"quote">> \o longer
        BY <1>3, <2>3, <2>4, <2>5, Zenon
  <2> QED
      BY <1>4, <1>6, <2>2, <2>6, Zenon DEF Verbatim, longer
<1>7. CASE x # "backslash"
  <2>1. x \in Units \ {"backslash", "quote"}
        BY <1>7 DEF Straight
  <2>2. QuoteUnit(e, x) = [out |-> written, pending |-> 0]
        BY <2>1, QuoteUnitIs, Zenon
  <2> HIDE DEF p, written, longer
  <2>3. QuoteUnit(e, x).out = written /\ QuoteUnit(e, x).pending = 0
        BY <2>2
  <2>4. written \o Backslashes(0) = written
        BY <1>5, NoBackslashes, ConcatEmptySeq
  <2>5. written \o Backslashes(0) = <<"quote">> \o longer
        BY <1>3, <2>4, Zenon
  <2>6. Verbatim(longer, written, 0)
        BY <2>5 DEF Verbatim
  <2> QED
      BY <2>3, <2>6, Zenon DEF longer
<1> QED
    BY <1>6, <1>7

(* So is an argument without a quote.                                      *)
LEMMA QuotingStraight ==
    ASSUME NEW a \in Seq(Straight)
    PROVE  a \in Seq(Units) /\ Verbatim(a, Quoting(a).out, Quoting(a).pending)
<1> DEFINE T == {w \in Seq(Units) : Verbatim(w, Quoting(w).out, Quoting(w).pending)}
<1>1. <<>> \in T
  <2>1. <<>> \in Seq(Units) /\ <<"quote">> \in Seq(Units)
        BY DEF Units
  <2>2. <<"quote">> \o Backslashes(0) = <<"quote">> \o <<>>
        BY NoBackslashes, Zenon
  <2>3. Opened.out = <<"quote">> /\ Opened.pending = 0
        BY DEF Opened
  <2>4. Verbatim(<<>>, <<"quote">>, 0)
        BY <2>2 DEF Verbatim
  <2>5. Verbatim(<<>>, Opened.out, Opened.pending)
        BY <2>3, <2>4, Zenon
  <2> QED
      BY <2>1, <2>5, QuotingNothing
<1>2. ASSUME NEW w \in Seq(Straight), NEW x \in Straight, w \in T
      PROVE  Append(w, x) \in T
  <2>1. w \in Seq(Units) /\ Verbatim(w, Quoting(w).out, Quoting(w).pending) /\ x \in Units
        BY <1>2 DEF Straight
  <2>2. Verbatim(Append(w, x), QuoteUnit(Quoting(w), x).out, QuoteUnit(Quoting(w), x).pending)
        BY <2>1, QuotingIsTyped, QuoteKeepsVerbatim
  <2>3. Append(w, x) \in Seq(Units)
        BY <2>1, AppendProperties
  <2> QED
      BY <2>1, <2>2, <2>3, QuotingAppended
<1>3. Seq(Straight) \subseteq T
  <2> HIDE DEF T
  <2> QED
      BY <1>1, <1>2, SequencesGrow
<1> QED
    BY <1>3

(* The program on the line.                                                *)
LEMMA ProgramIs == Program = Append(<<"quote">> \o Executable, "quote")
<1> DEFINE e == Quoting(Executable)
<1>1. Executable \in Seq(Straight)
  <2>1. Executable \in Seq(Units) /\ \A i \in 1..Len(Executable) : Executable[i] # "quote"
        BY ExecutableAssumption DEF Contains
  <2>2. \A i \in 1..Len(Executable) : Executable[i] \in Straight
        BY <2>1, ElementOfSeq DEF Straight
  <2> QED
      BY <2>1, <2>2
<1>2. e.out \in Seq(Units) /\ e.pending \in Nat
      BY <1>1, QuotingStraight, QuotingIsTyped DEF QuoteStates
<1>3. Verbatim(Executable, e.out, e.pending)
      BY <1>1, QuotingStraight
<1>4. e.pending = 0
      BY <1>3, ExecutableAssumption DEF Verbatim, Last
<1>5. e.out \o Backslashes(0) = e.out /\ 2 * 0 = 0
      BY <1>2, NoBackslashes, ConcatEmptySeq
<1>6. e.out = <<"quote">> \o Executable
      BY <1>3, <1>4, <1>5, Zenon DEF Verbatim
<1>7. Quoted(Executable) = Append(e.out \o Backslashes(2 * e.pending), "quote")
      BY DEF Quoted
<1> HIDE DEF e
<1>8. Quoted(Executable) = Append(e.out, "quote")
      BY <1>4, <1>5, <1>7, Zenon
<1> QED
    BY <1>6, <1>8, Zenon DEF Program

(* Behind the name stands its closing quote, and the rest is what the      *)
(* arguments are read from.                                                *)
LEMMA NameIsRead ==
    ASSUME NEW r \in Seq(Units)
    PROVE  Parsed(Program \o r)
              = [name |-> Executable, list |-> Finished(ParseFrom(Between(<<>>), r))]
<1> DEFINE whole == Program \o r
           n == Len(Executable)
           quotes == {k \in 2..Len(whole) : whole[k] = "quote"}
<1>1. Executable \in Seq(Units) /\ n \in Nat /\ "quote" \in Units /\ <<"quote">> \in Seq(Units)
      BY ExecutableAssumption, LenProperties DEF Units
<1>2. /\ Program \in Seq(Units) /\ Len(Program) = n + 2
      /\ Program[n + 2] = "quote"
      /\ \A i \in 1..n : Program[i + 1] = Executable[i]
  <2> DEFINE start == <<"quote">> \o Executable
  <2>1. /\ start \in Seq(Units) /\ Len(start) = n + 1
        /\ \A i \in 1..n : start[i + 1] = Executable[i]
        BY <1>1
  <2> HIDE DEF start
  <2>2. /\ Append(start, "quote") \in Seq(Units) /\ Len(Append(start, "quote")) = n + 2
        /\ Append(start, "quote")[n + 2] = "quote"
        /\ \A i \in 1..(n + 1) : Append(start, "quote")[i] = start[i]
        BY <1>1, <2>1
  <2>3. Program = Append(start, "quote")
        BY ProgramIs DEF start
  <2> QED
      BY <1>1, <2>1, <2>2, <2>3
<1>3. /\ whole \in Seq(Units) /\ Len(whole) = Len(Program) + Len(r)
      /\ \A i \in 1..(Len(Program) + Len(r)) :
            whole[i] = IF i <= Len(Program) THEN Program[i] ELSE r[i - Len(Program)]
      BY <1>2, ConcatProperties
<1>4. /\ whole \in Seq(Units) /\ Len(r) \in Nat /\ Len(whole) = n + 2 + Len(r)
      /\ \A i \in 1..(n + 2) : whole[i] = Program[i]
      /\ \A i \in 1..Len(r) : whole[n + 2 + i] = r[i]
  <2>1. Len(r) \in Nat
        BY LenProperties
  <2> HIDE DEF whole, n
  <2> QED
      BY <1>1, <1>2, <1>3, <2>1
<1> HIDE DEF whole
<1>5. n + 2 \in quotes
      BY <1>1, <1>2, <1>4
<1>6. \A k \in quotes : n + 2 <= k
  <2> SUFFICES ASSUME NEW k \in quotes, k < n + 2
               PROVE  FALSE
      BY <1>1
  <2>1. k - 1 \in 1..n /\ (k - 1) + 1 = k /\ k \in 1..(n + 2) /\ whole[k] = "quote"
        BY <1>1
  <2>2. Executable[k - 1] = "quote"
        BY <1>2, <1>4, <2>1
  <2> QED
      BY <2>1, <2>2, ExecutableAssumption DEF Contains
<1>7. (CHOOSE k \in quotes : \A j \in quotes : k <= j) = n + 2
  <2> DEFINE least == CHOOSE k \in quotes : \A j \in quotes : k <= j
  <2>1. least \in quotes /\ \A j \in quotes : least <= j
        BY <1>5, <1>6
  <2>2. least \in Int
        BY <2>1
  <2> HIDE DEF least, quotes
  <2>3. least <= n + 2 /\ n + 2 <= least
        BY <1>5, <1>6, <2>1
  <2>4. least = n + 2
        BY <1>1, <2>2, <2>3
  <2> QED
      BY <2>4 DEF least
<1>8. SubSeq(whole, 2, (n + 2) - 1) = Executable
  <2> DEFINE name == SubSeq(whole, 2, n + 1)
  <2>1. /\ name \in Seq(Units) /\ Len(name) = n
        /\ \A i \in 1..n : name[i] = whole[i + 1]
        BY <1>1, <1>4
  <2> HIDE DEF name
  <2>2. \A i \in 1..n : name[i] = Executable[i]
    <3>1. \A i \in 1..n : i + 1 \in 1..(n + 2)
          BY <1>1
    <3> QED
        BY <1>2, <1>4, <2>1, <3>1
  <2>3. name = Executable
        BY <1>1, <2>1, <2>2, SeqEqual
  <2>4. (n + 2) - 1 = n + 1
        BY <1>1
  <2> QED
      BY <2>3, <2>4, Zenon DEF name
<1>9. SubSeq(whole, n + 2 + 1, Len(whole)) = r
  <2> DEFINE rest == SubSeq(whole, n + 3, Len(whole))
  <2>1. /\ rest \in Seq(Units) /\ Len(rest) = Len(r)
        /\ \A i \in 1..Len(r) : rest[i] = whole[n + 2 + i]
        BY <1>1, <1>4
  <2> HIDE DEF rest
  <2>2. \A i \in 1..Len(r) : rest[i] = r[i]
        BY <1>4, <2>1
  <2>3. rest = r
        BY <2>1, <2>2, SeqEqual
  <2>4. n + 2 + 1 = n + 3
        BY <1>1
  <2> QED
      BY <2>3, <2>4, Zenon DEF rest
<1> DEFINE Halves(name, units) == [name |-> name, list |-> Finished(ParseFrom(Between(<<>>), units))]
           Split(k) == Halves(SubSeq(whole, 2, k - 1), SubSeq(whole, k + 1, Len(whole)))
<1>10. Parsed(whole) = Split(n + 2)
  <2>1. Parsed(whole) = Split(CHOOSE k \in quotes : \A j \in quotes : k <= j)
        BY DEF Parsed
  <2> HIDE DEF Split, quotes
  <2> QED
      BY <1>7, <2>1, Zenon
<1> HIDE DEF Halves, n
<1>11. Split(n + 2) = Halves(Executable, r)
      BY <1>8, <1>9, Zenon
<1> HIDE DEF Split
<1>12. Parsed(whole) = Halves(Executable, r)
      BY <1>10, <1>11, Zenon
<1> QED
    BY <1>12 DEF whole, Halves

(* The line that is built is taken apart into what it was built of.        *)
LEMMA LineIsRead ==
    ASSUME NEW list \in Seq(Seq(Units))
    PROVE  Parsed(Joined(list)) = [name |-> Executable, list |-> list]
<1>1. PICK r \in Seq(Units) : Joined(list) = Program \o r /\ Spells(r, list)
      BY JoinedSpells
<1>2. Parsed(Program \o r)
         = [name |-> Executable, list |-> Finished(ParseFrom(Between(<<>>), r))]
      BY NameIsRead
<1> QED
    BY <1>1, <1>2, Zenon DEF Spells

-----------------------------------------------------------------------------
(* A line has a NUL only from what it is built of.                         *)
Plain == Units \ {"nul"}

(* Sequences without a NUL.                                                *)
LEMMA PlainSequences ==
    /\ \A u \in Seq(Units) : ~Contains(u, "nul") <=> u \in Seq(Plain)
    /\ Seq(Plain) \subseteq Seq(Units)
    /\ \A n \in Nat : Backslashes(n) \in Seq(Plain)
    /\ {"quote", "space"} \subseteq Plain
<1>1. Plain \subseteq Units /\ {"quote", "space"} \subseteq Plain /\ "nul" \notin Plain
      BY DEF Plain, Units
<1>2. ASSUME NEW u \in Seq(Plain)
      PROVE  u \in Seq(Units) /\ ~Contains(u, "nul")
  <2>1. Len(u) \in Nat /\ \A i \in 1..Len(u) : u[i] \in Plain
        BY ElementOfSeq, LenProperties
  <2>2. \A i \in 1..Len(u) : u[i] \in Units /\ u[i] # "nul"
        BY <1>1, <2>1
  <2>3. u \in Seq(Units)
        BY <2>2
  <2> QED
      BY <2>2, <2>3 DEF Contains
<1>3. ASSUME NEW u \in Seq(Units), ~Contains(u, "nul")
      PROVE  u \in Seq(Plain)
  <2>1. \A i \in 1..Len(u) : u[i] \in Units /\ u[i] # "nul"
        BY <1>3, ElementOfSeq DEF Contains
  <2>2. \A i \in 1..Len(u) : u[i] \in Plain
        BY <2>1 DEF Plain
  <2> QED
      BY <2>2
<1>4. ASSUME NEW n \in Nat
      PROVE  Backslashes(n) \in Seq(Plain)
      BY DEF Backslashes, Plain, Units
<1> QED
    BY <1>1, <1>2, <1>3, <1>4

(* Quoting adds none, ...                                                  *)
LEMMA QuotedIsPlain ==
    ASSUME NEW a \in Seq(Plain)
    PROVE  Quoted(a) \in Seq(Plain)
<1> DEFINE T == {w \in Seq(Units) : Quoting(w).out \in Seq(Plain)}
<1>1. <<>> \in T
  <2>1. <<>> \in Seq(Units) /\ Opened.out \in Seq(Plain)
        BY PlainSequences DEF Opened
  <2> QED
      BY <2>1, QuotingNothing
<1>2. ASSUME NEW w \in Seq(Plain), NEW x \in Plain, w \in T
      PROVE  Append(w, x) \in T
  <2> DEFINE e == Quoting(w)
             out == e.out
             p == e.pending
             escaped == Backslashes(2 * p + 1)
             waiting == Backslashes(p)
  <2>1. out \in Seq(Plain) /\ e \in QuoteStates /\ x \in Units /\ w \in Seq(Units)
        BY <1>2, QuotingIsTyped DEF Plain
  <2>2. p \in Nat /\ 2 * p + 1 \in Nat
        BY <2>1 DEF QuoteStates
  <2>3. escaped \in Seq(Plain) /\ waiting \in Seq(Plain)
        BY <2>2, PlainSequences
  <2>4. /\ Append(out \o escaped, "quote") \in Seq(Plain)
        /\ Append(out \o waiting, x) \in Seq(Plain)
    <3> HIDE DEF out, escaped, waiting
    <3>1. out \o escaped \in Seq(Plain) /\ out \o waiting \in Seq(Plain) /\ "quote" \in Plain
          BY <2>1, <2>3, PlainSequences, ConcatProperties
    <3> QED
        BY <3>1, AppendProperties
  <2>5. Append(w, x) \in Seq(Units)
        BY <2>1, AppendProperties
  <2>6. \/ QuoteUnit(e, x) = [out |-> out, pending |-> p + 1]
        \/ QuoteUnit(e, x) = [out |-> Append(out \o escaped, "quote"), pending |-> 0]
        \/ QuoteUnit(e, x) = [out |-> Append(out \o waiting, x), pending |-> 0]
    <3>1. x = "backslash" \/ x = "quote" \/ x \in Units \ {"backslash", "quote"}
          BY <2>1
    <3> QED
        BY <2>1, <3>1, QuoteUnitIs, Zenon
  <2> DEFINE behindQuote == Append(out \o escaped, "quote")
             behindOther == Append(out \o waiting, x)
  <2> HIDE DEF out, p, escaped, waiting, behindQuote, behindOther, e
  <2>7. QuoteUnit(e, x).out \in {out, behindQuote, behindOther}
        BY <2>6 DEF behindQuote, behindOther
  <2>8. QuoteUnit(e, x).out \in Seq(Plain)
        BY <2>1, <2>4, <2>7 DEF behindQuote, behindOther
  <2>9. Quoting(Append(w, x)) = QuoteUnit(e, x)
        BY <2>1, QuotingAppended DEF e
  <2> QED
      BY <2>5, <2>8, <2>9
<1>3. Seq(Plain) \subseteq T
  <2> HIDE DEF T
  <2> QED
      BY <1>1, <1>2, SequencesGrow
<1> DEFINE end == Quoting(a)
           waits == Backslashes(2 * end.pending)
<1>4. a \in Seq(Units) /\ end.out \in Seq(Plain)
      BY <1>3
<1>5. end.pending \in Nat /\ 2 * end.pending \in Nat
      BY <1>4, QuotingIsTyped DEF QuoteStates
<1>6. waits \in Seq(Plain) /\ "quote" \in Plain
      BY <1>5, PlainSequences
<1> HIDE DEF end, waits
<1>7. end.out \o waits \in Seq(Plain)
      BY <1>4, <1>6, ConcatProperties
<1>8. Append(end.out \o waits, "quote") \in Seq(Plain)
      BY <1>6, <1>7, AppendProperties
<1> QED
    BY <1>8 DEF Quoted, end, waits

(* ... nor does joining.                                                   *)
LEMMA JoinedIsPlain ==
    ASSUME NEW list \in Seq(Seq(Plain))
    PROVE  Joined(list) \in Seq(Plain)
<1> DEFINE T == {l \in Seq(Seq(Units)) : Joined(l) \in Seq(Plain)}
<1>1. <<>> \in T
  <2>1. <<>> \in Seq(Seq(Units)) /\ Executable \in Seq(Plain)
        BY ExecutableAssumption, PlainSequences
  <2> QED
      BY <2>1, QuotedIsPlain, JoinedNothing DEF Program
<1>2. ASSUME NEW l \in Seq(Seq(Plain)), NEW a \in Seq(Plain), l \in T
      PROVE  Append(l, a) \in T
  <2>1. l \in Seq(Seq(Units)) /\ a \in Seq(Units) /\ Joined(l) \in Seq(Plain)
        BY <1>2, PlainSequences
  <2> DEFINE joined == Joined(l)
             quoted == Quoted(a)
  <2>2. joined \in Seq(Plain) /\ quoted \in Seq(Plain) /\ "space" \in Plain
        BY <2>1, QuotedIsPlain, PlainSequences
  <2>3. Append(joined, "space") \o quoted \in Seq(Plain)
    <3> HIDE DEF joined, quoted
    <3>1. Append(joined, "space") \in Seq(Plain)
          BY <2>2, AppendProperties
    <3> QED
        BY <2>2, <3>1, ConcatProperties
  <2>4. Joined(Append(l, a)) \in Seq(Plain)
        BY <2>1, <2>3, JoinedAppended DEF JoinArgument
  <2>5. Append(l, a) \in Seq(Seq(Units))
        BY <2>1, AppendProperties
  <2> QED
      BY <2>4, <2>5
<1>3. Seq(Seq(Plain)) \subseteq T
  <2> HIDE DEF T
  <2> QED
      BY <1>1, <1>2, SequencesGrow
<1> QED
    BY <1>3

(* What is not refused has no NUL on its line, and fits.                   *)
LEMMA NotRefused ==
    ASSUME NEW list \in Seq(Seq(Units)), ~Refused(list)
    PROVE  Len(Joined(list)) + 1 <= MaxLine /\ ~Contains(Joined(list), "nul")
<1>1. \A i \in 1..Len(list) : list[i] \in Seq(Plain)
  <2>1. \A i \in 1..Len(list) : list[i] \in Seq(Units) /\ ~Contains(list[i], "nul")
        BY ElementOfSeq DEF Refused
  <2> QED
      BY <2>1, PlainSequences
<1>2. list \in Seq(Seq(Plain))
      BY <1>1
<1>3. Joined(list) \in Seq(Plain)
      BY <1>2, JoinedIsPlain
<1>4. ~Contains(Joined(list), "nul") /\ Joined(list) \in Seq(Units)
      BY <1>3, PlainSequences
<1>5. Len(Joined(list)) \in Nat /\ ~(Len(Joined(list)) >= MaxLine)
      BY <1>4, LenProperties DEF Refused
<1> QED
    BY <1>4, <1>5, MaxLineAssumption

-----------------------------------------------------------------------------
(* The arguments are sequences of units, and the line that is built is     *)
(* theirs: nothing writes a unit behind it.                                *)
LineInv ==
    /\ arguments \in Seq(Seq(Units))
    /\ built = "built" => line = Joined(arguments) /\ ~Refused(arguments)

(* Each step of ChildSpec keeps it.                                        *)
LEMMA LineInductive == ChildSpec => []LineInv
<1>1. ChildInit => LineInv
      BY DEF ChildInit, LineInv
<1>2. LineInv /\ [ChildNext]_<<vars, lineVars>> => LineInv'
  <2> SUFFICES ASSUME LineInv, [ChildNext]_<<vars, lineVars>>
               PROVE  LineInv'
      OBVIOUS
  <2>1. CASE UNCHANGED lineVars
        BY <2>1 DEF LineInv, lineVars
  <2>2. CASE NextArgument
    <3>1. arguments' = Append(arguments, <<>>) /\ built' = "asked"
          BY <2>2 DEF NextArgument, Writing
    <3>2. <<>> \in Seq(Units)
          OBVIOUS
    <3>3. arguments' \in Seq(Seq(Units))
          BY <3>1, <3>2, AppendProperties DEF LineInv
    <3> QED
        BY <3>1, <3>3 DEF LineInv
  <2>3. CASE NextUnit
    <3>1. PICK unit \in Units :
             arguments' = Append(Front(arguments), Append(Last(arguments), unit))
          BY <2>3 DEF NextUnit
    <3>2. arguments # <<>> /\ built' = "asked"
          BY <2>3 DEF NextUnit, Writing
    <3>3. Front(arguments) \in Seq(Seq(Units)) /\ Last(arguments) \in Seq(Units)
          BY <3>2 DEF LineInv, Front, Last
    <3>4. arguments' \in Seq(Seq(Units))
          BY <3>1, <3>3, AppendProperties
    <3> QED
        BY <3>2, <3>4 DEF LineInv
  <2>4. CASE Build
        BY <2>4 DEF Build, LineInv
  <2> QED
      BY <2>1, <2>2, <2>3, <2>4 DEF ChildNext, lineVars
<1> QED
    BY <1>1, <1>2, PTL DEF ChildSpec

(* The list a child is started with is the list its runtime takes off the  *)
(* line: no argument is lost, empty, split or joined with the next, for    *)
(* every list and every argument.                                          *)
THEOREM ArgumentsAlwaysArrive == ChildSpec => []ArgumentsArrive
<1>1. LineInv => ArgumentsArrive
      BY LineIsRead DEF LineInv, ArgumentsArrive
<1> QED
    BY <1>1, LineInductive, PTL

(* A line that CreateProcessW is given is shorter than its maximum and     *)
(* ends where it was meant to.                                             *)
THEOREM LinesAlwaysFit == ChildSpec => []LinesFit
<1>1. LineInv => LinesFit
      BY NotRefused DEF LineInv, LinesFit
<1> QED
    BY <1>1, LineInductive, PTL
=============================================================================
