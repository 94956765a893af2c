---------------------------- MODULE DriverProofs ----------------------------
(***************************************************************************)
(* Whatever options are given, in whatever order and number, and however   *)
(* often the program is started: no encoder is asked for a type that it    *)
(* rejects, and files are read as they were written.                       *)
(***************************************************************************)
EXTENDS Driver, TLAPS

Flags ==
    [ viewMode : BOOLEAN, stats : BOOLEAN, benchmark : BOOLEAN, benchMt : BOOLEAN,
      mipmap : BOOLEAN, dither : BOOLEAN, etc2 : BOOLEAN, rgba : BOOLEAN, dxtc : BOOLEAN,
      linearize : BOOLEAN, useHeuristics : BOOLEAN, useBetsy : BOOLEAN, alpha : BOOLEAN,
      modeBest : BOOLEAN, modeNormal : BOOLEAN, modeFast : BOOLEAN ]
Ended == {"exit", "usage", "abort", "directory"}
Modes == {"cpu", "betsy", "benchmark", "view"}

\* The option variables that decide on a type, against the options given.  The
\* options are taken one by one: --etc1 and --dxtc take etc2 back, --rgba sets
\* it again, so the variables alone do not tell the options.
FlagsInv ==
    /\ f \in Flags
    /\ f.dxtc <=> "dxtc" \in given
    /\ f.rgba <=> "rgba" \in given
    /\ f.etc2 /\ f.dxtc => f.rgba

\* What an invocation has left before it comes to its end.
ControlInv ==
    /\ pc \in {"options"} \union Modes \union Ended
    /\ pc \in Modes => pc = Mode
    /\ pc # "exit" => order = "none" /\ viewed = NoFile /\ compared = <<>>
    /\ input = "output" => file["output"] # NoFile

\* A file once written: its header, and blocks of that format.
Written(r) ==
    /\ r = [type |-> r.type, code |-> PvrCode(r.type), content |-> r.content]
    /\ r.type \in Types
    /\ r.content # Fails
FilesInv ==
    /\ file \in [Files -> {file[x] : x \in Files}]
    /\ \A x \in Files : file[x] = NoFile \/ Written(file[x])
    /\ file["output"] # NoFile /\ file["output"].content.from # "alpha" =>
         file["output"].content.code = file["output"].type
    /\ file["alpha"] # NoFile => file["alpha"].content.code \in {file["alpha"].type, Empty.code}

DriverInv ==
    /\ FlagsInv /\ ControlInv /\ FilesInv
    /\ FormatTold /\ OrderFits /\ ReadAsWritten
-----------------------------------------------------------------------------
(* The operators of Formats                                                *)

LEMMA TypesChosen ==
    ASSUME NEW g, NEW a
    PROVE  PlainType(g, a) \in Types /\ BenchType(g, a) \in Types
  BY DEF PlainType, BenchType, Types

\* The reader finds the type that the writer had.
LEMMA CodesInvert ==
    ASSUME NEW ty \in Types
    PROVE  TypeOfCode(PvrCode(ty)) = ty
  BY DEF Types, PvrCode, TypeOfCode

LEMMA RgbaContent ==
    ASSUME NEW ty \in {"Etc2_RGBA", "Dxt5"}
    PROVE  ProcessRGBA(ty) = Content(ty, "both")
  BY DEF ProcessRGBA

LEMMA RgbContent ==
    ASSUME NEW ty \in {"Etc1", "Etc2_RGB", "Dxt1"}
    PROVE  Process(ty, "RGB") = Content(ty, "colour")
  BY DEF Process

LEMMA AlphaContent ==
    ASSUME NEW ty
    PROVE  Process(ty, "Alpha") = Content(IF ty # "Etc1" THEN "Etc2_RGB" ELSE "Etc1", "alpha")
  BY DEF Process

LEMMA OpenedIsWritten ==
    ASSUME NEW ty \in Types, NEW c, c # Fails
    PROVE  Written(Opened(ty, c)) /\ Opened(ty, c) # NoFile
           /\ Opened(ty, c).type = ty /\ Opened(ty, c).content = c
  BY DEF Written, Opened, NoFile, Types

\* The pairs of tests of the modes fit: the type and the function that is called.
LEMMA CpuContentFits ==
    ASSUME NEW ty \in Types
    PROVE  CpuContent(ty).code = ty /\ CpuContent(ty) # Fails
  <1>1. CASE ty \in {"Etc2_RGBA", "Dxt5"}
    BY <1>1, RgbaContent DEF CpuContent, Content, Fails
  <1>2. CASE ty \in {"Etc1", "Etc2_RGB", "Dxt1"}
    BY <1>2, RgbContent DEF CpuContent, Content, Fails
  <1>3. QED
    BY <1>1, <1>2 DEF Types

LEMMA BenchContentFits ==
    ASSUME FlagsInv, NEW a, NEW ty, ty = BenchType(f, a)
    PROVE  /\ BenchContent(ty) # Fails
           /\ ~f.alpha \/ ty # "Dxt1" \/ BenchContent(ty).from # "alpha" => BenchContent(ty).code = ty
  <1>1. CASE f.rgba \/ ty = "Dxt5"
    <2>1. ty \in {"Etc2_RGBA", "Dxt5"}
      BY <1>1 DEF BenchType
    <2>2. QED
      BY <1>1, <2>1, RgbaContent DEF BenchContent, Content, Fails
  <1>2. CASE ~(f.rgba \/ ty = "Dxt5")
    <2>1. ty \in {"Etc1", "Etc2_RGB", "Dxt1"} /\ BenchContent(ty) = Process(ty, Channel)
      BY <1>2 DEF BenchType, BenchContent
    <2>2. CASE f.alpha
      BY <2>1, <2>2, AlphaContent DEF Channel, Content, Fails
    <2>3. CASE ~f.alpha
      BY <2>1, <2>3, RgbContent DEF Channel, Content, Fails
    <2>4. QED
      BY <2>2, <2>3
  <1>3. QED
    BY <1>1, <1>2
-----------------------------------------------------------------------------
LEMMA DriverInit == Init => DriverInv
  <1> SUFFICES ASSUME Init PROVE DriverInv
    OBVIOUS
  <1>1. FlagsInv
    <2>1. f = Defaults /\ given = {}
      BY DEF Init
    <2>2. Defaults \in Flags
      BY DEF Flags, Defaults
    <2>3. ~Defaults.dxtc /\ ~Defaults.rgba
      BY DEF Defaults
    <2>4. QED
      BY <2>1, <2>2, <2>3 DEF FlagsInv
  <1>2. ControlInv
    BY DEF Init, ControlInv, Modes, Ended
  <1>3. FilesInv
    BY DEF Init, FilesInv, Files
  <1>4. FormatTold /\ OrderFits /\ ReadAsWritten
    BY DEF Init, FormatTold, OrderFits, ReadAsWritten
  <1>5. QED
    BY <1>1, <1>2, <1>3, <1>4 DEF DriverInv

\* The properties speak of an invocation that has come to its end.
LEMMA OnlyAtExit ==
    ASSUME ControlInv, pc # "exit"
    PROVE  FormatTold /\ OrderFits /\ ReadAsWritten
  BY DEF ControlInv, FormatTold, OrderFits, ReadAsWritten

LEMMA OptionStep ==
    ASSUME DriverInv, NEW o \in Options, Option(o)
    PROVE  DriverInv'
  <1>1. /\ pc = "options" /\ pc' \in {"options", "usage"} /\ f' = After(o) /\ given' = given \union {o}
        /\ UNCHANGED <<runs, input, names, file, order, quality, viewed, compared>>
    BY DEF Option
  <1>2. FlagsInv'
    <2>1. FlagsInv
      BY DEF DriverInv
    <2>2. CASE o = "rgba"
      BY <1>1, <2>1, <2>2 DEF FlagsInv, Flags, After, OptRgba
    <2>3. CASE o = "dxtc"
      BY <1>1, <2>1, <2>3 DEF FlagsInv, Flags, After
    <2>4. CASE o = "etc1"
      BY <1>1, <2>1, <2>4 DEF FlagsInv, Flags, After
    <2>5. CASE o \in Options \ {"rgba", "dxtc", "etc1"}
      <3>1. f' \in Flags /\ f'.dxtc = f.dxtc /\ f'.rgba = f.rgba /\ f'.etc2 = f.etc2
        <4>1. CASE o \in {"v", "o", "a", "s", "b", "M"}
          BY <1>1, <2>1, <4>1 DEF FlagsInv, Flags, After
        <4>2. CASE o \in {"m", "d", "linear"}
          BY <1>1, <2>1, <4>2, ZenonT(60) DEF FlagsInv, Flags, After
        <4>3. CASE o = "disable-heuristics"
          BY <1>1, <2>1, <4>3 DEF FlagsInv, Flags, After, OptNoHeuristics
        <4>4. CASE o = "betsy-mode"
          BY <1>1, <2>1, <4>4 DEF FlagsInv, Flags, After
        <4>5. CASE o = "fast"
          BY <1>1, <2>1, <4>5, ZenonT(60) DEF FlagsInv, Flags, After
        <4>6. CASE o = "best"
          BY <1>1, <2>1, <4>6, ZenonT(60) DEF FlagsInv, Flags, After
        <4>7. CASE o \in {"normal", "unknown"}
          BY <1>1, <2>1, <4>7 DEF FlagsInv, Flags, After
        <4>8. QED
          BY <2>5, <4>1, <4>2, <4>3, <4>4, <4>5, <4>6, <4>7 DEF Options
      <3>2. QED
        BY <1>1, <2>1, <2>5, <3>1 DEF FlagsInv
    <2>6. QED
      BY <2>2, <2>3, <2>4, <2>5
  <1>3. ControlInv'
    BY <1>1 DEF DriverInv, ControlInv, Modes, Ended
  <1>4. FilesInv'
    BY <1>1 DEF DriverInv, FilesInv, Written
  <1>5. QED
    BY <1>1, <1>2, <1>3, <1>4, OnlyAtExit DEF DriverInv, ControlInv, FormatTold, OrderFits, ReadAsWritten

LEMMA EndOptionsStep == DriverInv /\ EndOptions => DriverInv'
  <1> SUFFICES ASSUME DriverInv, EndOptions PROVE DriverInv'
    OBVIOUS
  <1>1. /\ pc = "options" /\ f' = [f EXCEPT !.dither = @ /\ ~f.etc2]
        /\ pc' = CASE TooFewNames -> "usage" [] ~TooFewNames /\ input = "missing" -> "exit" [] OTHER -> Mode
        /\ UNCHANGED <<runs, input, names, given, file, order, viewed, compared>>
    BY DEF EndOptions
  <1>2. FlagsInv /\ order = "none" /\ viewed = NoFile /\ compared = <<>>
    BY <1>1 DEF DriverInv, ControlInv
  <1>3. FlagsInv' /\ Mode' = Mode
    BY <1>1, <1>2, ZenonT(60) DEF FlagsInv, Flags, Mode
  <1>4. Mode \in Modes \union {"directory"} /\ pc' \in {"usage", "exit", Mode}
    BY <1>1 DEF Mode, Modes
  <1>5. ControlInv'
    BY <1>1, <1>2, <1>3, <1>4 DEF DriverInv, ControlInv, Modes, Ended
  <1>6. FilesInv'
    BY <1>1 DEF DriverInv, FilesInv, Written
  <1>7. FormatTold' /\ OrderFits' /\ ReadAsWritten'
    BY <1>1, <1>2 DEF FormatTold, AlphaInDxt1, OrderFits, ReadAsWritten
  <1>8. QED
    BY <1>3, <1>5, <1>6, <1>7 DEF DriverInv

LEMMA AbortStep == DriverInv /\ pc \in Modes /\ Abort => DriverInv'
  <1> SUFFICES ASSUME DriverInv, pc \in Modes, Abort PROVE DriverInv'
    OBVIOUS
  <1>1. pc' = "abort" /\ UNCHANGED <<runs, input, names, given, f, file, order, quality, viewed, compared>>
    BY DEF Abort
  <1>2. FlagsInv' /\ FilesInv'
    BY <1>1 DEF DriverInv, FlagsInv, FilesInv, Written
  <1>3. pc # "exit"
    BY DEF Modes
  <1>4. ControlInv'
    BY <1>1, <1>3 DEF DriverInv, ControlInv, Modes, Ended
  <1>5. FormatTold' /\ OrderFits' /\ ReadAsWritten'
    BY <1>1, <1>4 DEF ControlInv, FormatTold, OrderFits, ReadAsWritten
  <1>6. QED
    BY <1>2, <1>4, <1>5 DEF DriverInv

\* Which order the image was loaded in, against the type: what --rgba and
\* --dxtc together may break.
Fits(o, type) ==
    o = OrderFor(type) \/ (type \notin {"Dxt1", "Dxt5"} /\ {"rgba", "dxtc"} \subseteq given)

LEMMA OrderOfType ==
    ASSUME FlagsInv, NEW a
    PROVE  LoadImage # "stored" => Fits(LoadImage, PlainType(f, a)) /\ Fits(LoadImage, BenchType(f, a))
  <1>1. f.etc2 \in BOOLEAN /\ f.dxtc \in BOOLEAN /\ f.rgba \in BOOLEAN
    BY DEF FlagsInv, Flags
  <1>2. /\ OrderFor(PlainType(f, a)) = IF ~f.etc2 /\ f.dxtc THEN "RGB" ELSE "BGR"
        /\ OrderFor(BenchType(f, a)) = IF ~f.rgba /\ ~f.etc2 /\ f.dxtc THEN "RGB" ELSE "BGR"
    BY <1>1 DEF OrderFor, PlainType, BenchType
  <1>3. LoadImage = "stored" \/ LoadImage = IF f.dxtc THEN "RGB" ELSE "BGR"
    BY <1>1 DEF LoadImage
  <1>4. \A ty : OrderFor(ty) = "RGB" <=> ty \in {"Dxt1", "Dxt5"}
    BY DEF OrderFor
  <1>5. QED
    BY <1>1, <1>2, <1>3, <1>4 DEF Fits, FlagsInv

LEMMA CpuStep == DriverInv /\ Cpu => DriverInv'
  <1> SUFFICES ASSUME DriverInv, Cpu PROVE DriverInv'
    OBVIOUS
  <1>1. CASE Abort
    BY <1>1, AbortStep DEF Cpu, Modes
  <1>2. CASE IsImage
    <2> DEFINE ty == PlainType(f, HasAlpha)
               out == Opened(ty, CpuContent(ty))
               own == f.alpha /\ HasAlpha /\ ~f.rgba
               c == IF ty \in {"Etc2_RGBA", "Dxt5"} THEN Empty ELSE Process(ty, "Alpha")
               alpha == IF own THEN Opened(ty, c) ELSE file["alpha"]
    <2>1. /\ pc = "cpu" /\ pc' = "exit" /\ order' = LoadImage
          /\ file' = [file EXCEPT !["output"] = out, !["alpha"] = alpha]
          /\ compared' = IF f.stats THEN <<order', "RGB">> ELSE compared
          /\ UNCHANGED <<runs, input, names, given, f, quality, viewed>>
      BY <1>2 DEF Cpu, CpuAlphaFile
    <2>2. FlagsInv /\ FilesInv /\ Mode = "cpu" /\ ~f.benchmark /\ compared = <<>> /\ viewed = NoFile
      <3>1. FlagsInv /\ FilesInv /\ Mode = "cpu" /\ compared = <<>> /\ viewed = NoFile
        BY <2>1 DEF DriverInv, ControlInv, Modes
      <3>2. QED
        BY <3>1 DEF Mode
    <2>3. ty \in Types
      BY TypesChosen
    <2>4. /\ Written(out) /\ out # NoFile /\ out.type = ty /\ out.content.code = ty
      BY <2>3, CpuContentFits, OpenedIsWritten
    <2>5. own => c # Fails /\ c.code \in {ty, Empty.code}
      <3>1. c = Empty \/ (c = Process(ty, "Alpha") /\ ty \notin {"Etc2_RGBA", "Dxt5"})
        OBVIOUS
      <3>2. Empty # Fails
        BY DEF Empty, Fails, Content
      <3>3. own /\ ty \notin {"Etc2_RGBA", "Dxt5"} => ty \in {"Etc1", "Etc2_RGB"}
        BY DEF PlainType
      <3> HIDE DEF ty, c
      <3>4. QED
        BY <3>1, <3>2, <3>3, AlphaContent DEF Content, Fails
    <2>6. /\ alpha = NoFile \/ Written(alpha)
          /\ alpha # NoFile => alpha.content.code \in {alpha.type, Empty.code}
      <3>1. CASE own
        <4> HIDE DEF ty, c
        <4> QED BY <3>1, <2>3, <2>5, OpenedIsWritten
      <3>2. CASE ~own
        BY <3>2, <2>2 DEF FilesInv, Files
      <3>3. QED
        BY <3>1, <3>2
    <2>7. order' # "stored" => Fits(order', ty)
      BY <2>1, <2>2, OrderOfType
    <2> HIDE DEF ty, out, own, c, alpha
    <2>8. /\ file'["output"] = out /\ file'["alpha"] = alpha /\ file'["memory"] = file["memory"]
          /\ file' \in [Files -> {file'[x] : x \in Files}]
      BY <2>1, <2>2 DEF FilesInv, Files
    <2>9. FlagsInv' /\ Mode' = Mode
      BY <2>1, <2>2 DEF FlagsInv, Mode
    <2>10. FilesInv'
      BY <2>2, <2>4, <2>6, <2>8 DEF FilesInv, Files, Written
    <2>11. ControlInv'
      BY <2>1, <2>4, <2>8 DEF ControlInv, Modes, Ended
    <2>12. FormatTold'
      BY <2>4, <2>6, <2>8 DEF FormatTold, AlphaInDxt1
    <2>13. OrderFits'
      <3>1. compared' = <<>> \/ compared' = <<order', "RGB">>
        BY <2>1, <2>2
      <3>2. out.type \in {"Dxt1", "Dxt5"} /\ order' # "stored" => order' = "RGB"
        BY <2>4, <2>7 DEF OrderFor, Fits
      <3>3. ~f'.benchmark /\ given' = given
        BY <2>1, <2>2
      <3>4. file'["output"].type \in {"Dxt1", "Dxt5"} /\ compared' # <<>> /\ order' # "stored"
                => compared'[1] = compared'[2]
        BY <2>4, <2>8, <3>1, <3>2
      <3>5. ~("memory" = "output") /\ file'["output"].type = ty
        BY <2>4, <2>8
      <3>6. QED
        BY <2>7, <3>3, <3>4, <3>5 DEF OrderFits, Fits
    <2>14. ReadAsWritten'
      BY <2>1, <2>2 DEF ReadAsWritten
    <2>15. QED
      BY <2>9, <2>10, <2>11, <2>12, <2>13, <2>14 DEF DriverInv
  <1>3. QED
    BY <1>1, <1>2 DEF Cpu

LEMMA BetsyStep == DriverInv /\ Betsy => DriverInv'
  <1> SUFFICES ASSUME DriverInv, Betsy PROVE DriverInv'
    OBVIOUS
  <1>1. CASE Abort
    BY <1>1, AbortStep DEF Betsy, Modes
  <1>2. CASE IsImage
    <2> DEFINE ty == BenchType(f, HasAlpha)
               out == Opened(ty, BenchContent(ty))
    <2>1. /\ pc = "betsy" /\ pc' = "exit" /\ order' = LoadImage
          /\ file' = [file EXCEPT !["output"] = out]
          /\ UNCHANGED <<runs, input, names, given, f, quality, viewed, compared>>
      BY <1>2 DEF Betsy
    <2>2. FlagsInv /\ FilesInv /\ ~f.benchmark /\ compared = <<>> /\ viewed = NoFile
      <3>1. FlagsInv /\ FilesInv /\ Mode = "betsy" /\ compared = <<>> /\ viewed = NoFile
        BY <2>1 DEF DriverInv, ControlInv, Modes
      <3>2. QED
        BY <3>1 DEF Mode
    <2>3. ty \in Types
      BY TypesChosen
    <2>4. /\ Written(out) /\ out # NoFile /\ out.type = ty
          /\ (~f.alpha \/ ty # "Dxt1" \/ out.content.from # "alpha") => out.content.code = ty
      BY <2>2, <2>3, BenchContentFits, OpenedIsWritten
    <2>5. order' # "stored" => Fits(order', ty)
      BY <2>1, <2>2, OrderOfType
    <2> HIDE DEF ty, out
    <2>6. /\ file'["output"] = out /\ file'["alpha"] = file["alpha"] /\ file'["memory"] = file["memory"]
          /\ file' \in [Files -> {file'[x] : x \in Files}]
      BY <2>1, <2>2 DEF FilesInv, Files
    <2>7. FlagsInv' /\ Mode' = Mode
      BY <2>1, <2>2 DEF FlagsInv, Mode
    <2>8. FilesInv'
      BY <2>2, <2>4, <2>6 DEF FilesInv, Files, Written
    <2>9. ControlInv'
      BY <2>1, <2>4, <2>6 DEF ControlInv, Modes, Ended
    <2>10. FormatTold'
      <3>1. f' = f /\ pc = "betsy" /\ Mode = "betsy"
        BY <2>1 DEF DriverInv, ControlInv, Modes
      <3>2. file'["alpha"] # NoFile => file'["alpha"].content.code \in {file'["alpha"].type, Empty.code}
        BY <2>8 DEF FilesInv
      <3>3. QED
        BY <2>4, <2>6, <2>7, <3>1, <3>2 DEF FormatTold, AlphaInDxt1
    <2>11. OrderFits'
      BY <2>1, <2>2, <2>4, <2>5, <2>6 DEF OrderFits, Fits, FlagsInv, Flags
    <2>12. ReadAsWritten'
      BY <2>1, <2>2 DEF ReadAsWritten
    <2>13. QED
      BY <2>7, <2>8, <2>9, <2>10, <2>11, <2>12 DEF DriverInv
  <1>3. QED
    BY <1>1, <1>2 DEF Betsy

\* -v decodes the output as what it is: the header tells the type.
LEMMA DecodedIsWritten ==
    ASSUME FilesInv, file["output"] # NoFile
    PROVE  LET v == Decoded(file["output"])
           IN  v.type = file["output"].type /\ (v.content.from # "alpha" => v.type = v.content.code)
  <1>1. Written(file["output"]) /\ file["output"].code = PvrCode(file["output"].type)
    BY DEF FilesInv, Written, Files
  <1>2. TypeOfCode(file["output"].code) = file["output"].type
    BY <1>1, CodesInvert DEF Written
  <1>3. QED
    BY <1>2 DEF Decoded, FilesInv

LEMMA BenchmarkStep == DriverInv /\ Benchmark => DriverInv'
  <1> SUFFICES ASSUME DriverInv, Benchmark PROVE DriverInv'
    OBVIOUS
  <1>1. CASE Abort
    BY <1>1, AbortStep DEF Benchmark, Modes
  <1>2. CASE ~(f.viewMode # (input = "output") \/ input = "directory")
    <2>1. /\ pc = "benchmark" /\ pc' = "exit"
          /\ UNCHANGED <<runs, input, names, given, f, quality, compared>>
      BY <1>2 DEF Benchmark
    <2>2. /\ FlagsInv /\ FilesInv /\ Mode = "benchmark" /\ compared = <<>> /\ viewed = NoFile
          /\ order = "none"
      BY <2>1 DEF DriverInv, ControlInv, Modes
    <2>3. f.benchmark
      BY <2>2 DEF Mode
    <2>4. FlagsInv' /\ Mode' = Mode
      BY <2>1, <2>2 DEF FlagsInv, Mode
    <2>5. FormatTold'
      BY <2>2, <2>4 DEF FormatTold, AlphaInDxt1
    <2>6. CASE f.viewMode
      <3>1. viewed' = Decoded(file["output"]) /\ UNCHANGED <<order, file>> /\ input = "output"
        BY <1>2, <2>6 DEF Benchmark
      <3>2. FilesInv'
        BY <2>2, <3>1 DEF FilesInv, Written
      <3>3. ControlInv'
        BY <2>1, <3>1 DEF DriverInv, ControlInv, Modes, Ended
      <3>4. file["output"] # NoFile
        BY <3>1 DEF DriverInv, ControlInv
      <3>5. ReadAsWritten'
        BY <2>2, <3>1, <3>4, DecodedIsWritten DEF ReadAsWritten
      <3>6. OrderFits'
        BY <2>1, <2>2, <3>1 DEF OrderFits
      <3>7. QED
        BY <2>4, <2>5, <3>2, <3>3, <3>5, <3>6 DEF DriverInv
    <2>7. CASE ~f.viewMode
      <3> DEFINE ty == BenchType(f, HasAlpha)
                 mem == Opened(ty, BenchContent(ty))
      <3>1. order' = LoadImage /\ file' = [file EXCEPT !["memory"] = mem] /\ UNCHANGED viewed
        BY <1>2, <2>7 DEF Benchmark
      <3>2. Written(mem) /\ mem.type = ty
        BY <2>2, TypesChosen, BenchContentFits, OpenedIsWritten
      <3>3. order' # "stored" => Fits(order', ty)
        BY <2>2, <3>1, OrderOfType
      <3> HIDE DEF ty, mem
      <3>4. /\ file'["output"] = file["output"] /\ file'["alpha"] = file["alpha"] /\ file'["memory"] = mem
            /\ file' \in [Files -> {file'[x] : x \in Files}]
        BY <2>2, <3>1 DEF FilesInv, Files
      <3>5. FilesInv'
        BY <2>2, <3>2, <3>4 DEF FilesInv, Files, Written
      <3>6. ControlInv'
        BY <2>1, <3>4 DEF DriverInv, ControlInv, Modes, Ended
      <3>7. OrderFits'
        BY <2>1, <2>2, <2>3, <3>2, <3>3, <3>4 DEF OrderFits, Fits
      <3>8. ReadAsWritten'
        BY <2>2, <3>1 DEF ReadAsWritten
      <3>9. QED
        BY <2>4, <2>5, <3>5, <3>6, <3>7, <3>8 DEF DriverInv
    <2>8. QED
      BY <2>6, <2>7
  <1>3. QED
    BY <1>1, <1>2 DEF Benchmark

LEMMA ViewStep == DriverInv /\ View => DriverInv'
  <1> SUFFICES ASSUME DriverInv, View PROVE DriverInv'
    OBVIOUS
  <1>1. CASE Abort
    BY <1>1, AbortStep DEF View, Modes
  <1>2. CASE input \in {"output", "directory"}
    <2>1. /\ pc = "view" /\ pc' = "exit"
          /\ viewed' = IF input = "output" THEN Decoded(file["output"]) ELSE viewed
          /\ UNCHANGED <<runs, input, names, given, f, file, order, quality, compared>>
      BY <1>2 DEF View
    <2>2. /\ FlagsInv /\ FilesInv /\ order = "none" /\ compared = <<>> /\ viewed = NoFile
          /\ input = "output" => file["output"] # NoFile
      BY <2>1 DEF DriverInv, ControlInv, Modes
    <2>3. FlagsInv' /\ FilesInv'
      BY <2>1, <2>2 DEF FlagsInv, FilesInv, Written
    <2>4. ControlInv'
      BY <2>1, <2>2 DEF ControlInv, Modes, Ended
    <2>5. FormatTold' /\ OrderFits'
      BY <2>1, <2>2 DEF FormatTold, AlphaInDxt1, OrderFits
    <2>6. ReadAsWritten'
      BY <2>1, <2>2, DecodedIsWritten DEF ReadAsWritten
    <2>7. QED
      BY <2>3, <2>4, <2>5, <2>6 DEF DriverInv
  <1>3. QED
    BY <1>1, <1>2 DEF View

LEMMA AgainStep == DriverInv /\ Again => DriverInv'
  <1> SUFFICES ASSUME DriverInv, Again PROVE DriverInv'
    OBVIOUS
  <1>1. /\ pc' = "options" /\ given' = {} /\ f' = Defaults /\ order' = "none"
        /\ viewed' = NoFile /\ compared' = <<>>
        /\ input' = "output" => file["output"] # NoFile
        /\ file' = [file EXCEPT !["memory"] = NoFile]
    BY DEF Again
  <1>2. FilesInv
    BY DEF DriverInv
  <1>3. /\ file'["output"] = file["output"] /\ file'["alpha"] = file["alpha"] /\ file'["memory"] = NoFile
        /\ file' \in [Files -> {file'[x] : x \in Files}]
    BY <1>1, <1>2 DEF FilesInv, Files
  <1>4. FilesInv'
    BY <1>2, <1>3 DEF FilesInv, Files, Written
  <1>5. FlagsInv'
    BY <1>1 DEF FlagsInv, Flags, Defaults
  <1>6. ControlInv'
    BY <1>1, <1>3 DEF ControlInv, Modes
  <1>7. FormatTold' /\ OrderFits' /\ ReadAsWritten'
    BY <1>1 DEF FormatTold, AlphaInDxt1, OrderFits, ReadAsWritten
  <1>8. QED
    BY <1>4, <1>5, <1>6, <1>7 DEF DriverInv

LEMMA DriverStep == DriverInv /\ [Next]_vars => DriverInv'
  <1> SUFFICES ASSUME DriverInv, [Next]_vars PROVE DriverInv'
    OBVIOUS
  <1>1. CASE \E o \in Options : Option(o)
    BY <1>1, OptionStep
  <1>2. CASE EndOptions
    BY <1>2, EndOptionsStep
  <1>3. CASE Cpu \/ Betsy \/ Benchmark \/ View
    BY <1>3, CpuStep, BetsyStep, BenchmarkStep, ViewStep
  <1>4. CASE Again
    BY <1>4, AgainStep
  <1>5. CASE UNCHANGED vars
    BY <1>5 DEF vars, DriverInv, FlagsInv, ControlInv, FilesInv, Written, Mode, FormatTold, AlphaInDxt1, OrderFits,
                ReadAsWritten
  <1>6. QED
    BY <1>1, <1>2, <1>3, <1>4, <1>5 DEF Next, Done

LEMMA DriverInvariance == Spec => []DriverInv
  <1>1. QED
    BY DriverInit, DriverStep, PTL DEF Spec
-----------------------------------------------------------------------------
\* Process and ProcessRGBA never get a type that they answer with
\* assert( false ), for any sequence of options and invocations.
THEOREM NeverRejects == Spec => []NoTypeRejected
  <1>1. DriverInv => NoTypeRejected
    BY DEF DriverInv, FilesInv, NoTypeRejected, Written
  <1>2. QED
    BY <1>1, DriverInvariance, PTL

\* What the header of a written file announces is what its blocks are, with
\* the alpha file left from an earlier invocation included; the one exception is
\* a DXT1 file that the betsy mode writes with -a.
THEOREM HeaderTells == Spec => []FormatTold
  <1>1. DriverInv => FormatTold
    BY DEF DriverInv
  <1>2. QED
    BY <1>1, DriverInvariance, PTL

\* Encoders get the colours of a PNG image in their order, DXT encoders always,
\* ETC encoders unless --rgba and --dxtc are both given.
THEOREM ColoursInOrder == Spec => []OrderFits
  <1>1. DriverInv => OrderFits
    BY DEF DriverInv
  <1>2. QED
    BY <1>1, DriverInvariance, PTL

\* A later invocation reads the type that an earlier one wrote.
THEOREM WrittenIsRead == Spec => []ReadAsWritten
  <1>1. DriverInv => ReadAsWritten
    BY DEF DriverInv
  <1>2. QED
    BY <1>1, DriverInvariance, PTL
=============================================================================
