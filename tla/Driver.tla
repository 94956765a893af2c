------------------------------- MODULE Driver -------------------------------
(***************************************************************************)
(* main: the options of one invocation, what they make of the option       *)
(* variables, the mode that runs, and what ends up in which file.          *)
(*                                                                         *)
(* The loops over the parts of an image are in DataProvider and            *)
(* HybridPipeline, the directory mode is in DirectoryMode; here all blocks *)
(* of a file are written by one step.  A second invocation may read the    *)
(* file that the first one wrote.                                          *)
(***************************************************************************)
EXTENDS Formats, FiniteSets

CONSTANTS
    MaxOptions,     \* options given in one invocation
    MaxRuns         \* invocations

ASSUME DriverAssumption == MaxOptions \in Nat /\ MaxRuns \in Nat \ {0}

Options ==
    { "v", "o", "a", "s", "b", "M", "m", "d", "etc1", "rgba", "dxtc", "linear",
      "disable-heuristics", "betsy-mode", "fast", "normal", "best", "unknown" }

\* PNG images, with and without alpha, and the like in the format "raw4"
Inputs == {"opaque", "translucent", "raw", "rawAlpha", "directory", "missing", "output"}
Files  == {"output", "alpha", "memory"}

VARIABLES
    pc,
    runs,       \* invocations started
    input,      \* what the first argument names; "output" is a file written before
    names,      \* arguments that are not options
    given,      \* options given in this invocation
    f,          \* the option variables
    file,       \* Files -> code, type and content of the file or NoFile
    order,      \* order of the colours in the loaded image: "BGR", "RGB", "stored"
    quality,    \* percent of the reported blocks that the GPU does again
    viewed,     \* type that the reader found and content that it decoded
    compared    \* orders of the two images that -s compares

vars == <<pc, runs, input, names, given, f, file, order, quality, viewed, compared>>

NoFile == [type |-> "none"]

\* main's initialisers
Defaults ==
    [ viewMode |-> FALSE, stats |-> FALSE, benchmark |-> FALSE, benchMt |-> FALSE,
      mipmap |-> FALSE, dither |-> FALSE, etc2 |-> TRUE, rgba |-> FALSE, dxtc |-> FALSE,
      linearize |-> TRUE, useHeuristics |-> TRUE, useBetsy |-> FALSE, alpha |-> FALSE,
      modeBest |-> FALSE, modeNormal |-> TRUE, modeFast |-> FALSE ]

Init ==
    /\ pc = "options" /\ runs = 1
    /\ input \in Inputs \ {"output"} /\ names \in 0..2
    /\ given = {} /\ f = Defaults
    /\ order = "none" /\ quality = 40
    /\ viewed = NoFile /\ compared = <<>>
    /\ file = [x \in Files |-> NoFile]

----------------------------------------------------------------------------
(* Options                                                                 *)

\* without a break, on to the case of --betsy-mode
OptNoHeuristics == [f EXCEPT !.useHeuristics = FALSE, !.useBetsy = TRUE]

OptRgba == [f EXCEPT !.rgba = TRUE, !.etc2 = TRUE]

After(o) ==
    CASE o = "v"                  -> [f EXCEPT !.viewMode = TRUE]
      [] o = "a"                  -> [f EXCEPT !.alpha = TRUE]
      [] o = "s"                  -> [f EXCEPT !.stats = TRUE]
      [] o = "b"                  -> [f EXCEPT !.benchmark = TRUE]
      [] o = "M"                  -> [f EXCEPT !.benchMt = TRUE]
      [] o = "m"                  -> [f EXCEPT !.mipmap = TRUE]
      [] o = "d"                  -> [f EXCEPT !.dither = TRUE]
      [] o = "etc1"               -> [f EXCEPT !.etc2 = FALSE]
      [] o = "rgba"               -> OptRgba
      [] o = "dxtc"               -> [f EXCEPT !.etc2 = FALSE, !.dxtc = TRUE]
      [] o = "linear"             -> [f EXCEPT !.linearize = FALSE]
      [] o = "disable-heuristics" -> OptNoHeuristics
      [] o = "betsy-mode"         -> [f EXCEPT !.useBetsy = TRUE]
      [] o = "fast"               -> [f EXCEPT !.modeFast = TRUE, !.modeNormal = FALSE]
      [] o = "normal"             -> [f EXCEPT !.modeNormal = TRUE]
      [] o = "best"               -> [f EXCEPT !.modeBest = TRUE, !.modeNormal = FALSE]
      [] OTHER                    -> f

Option(o) ==
    /\ pc = "options" /\ Cardinality(given) < MaxOptions
    /\ f' = After(o)
    /\ given' = given \union {o}
    /\ pc' = IF o = "unknown" THEN "usage" ELSE pc
    /\ UNCHANGED <<runs, input, names, file, order, quality, viewed, compared>>

\* "if (modeFast) ... else if (modeNormal) ... else"
QualityRatio == CASE f.modeFast -> 10 [] ~f.modeFast /\ f.modeNormal -> 40 [] OTHER -> 100

TooFewNames == names + Cardinality(given) < 2 \/ names < (IF f.benchmark THEN 1 ELSE 2)

Mode ==
    CASE f.benchmark                               -> "benchmark"
      [] ~f.benchmark /\ f.viewMode                -> "view"
      [] ~f.benchmark /\ ~f.viewMode /\ f.useBetsy -> IF input = "directory" THEN "directory" ELSE "betsy"
      [] OTHER                                     -> "cpu"

\* Dithering is switched off, the arguments are counted, the input is looked up.
EndOptions ==
    /\ pc = "options"
    /\ f' = [f EXCEPT !.dither = @ /\ ~f.etc2]
    /\ quality' = QualityRatio
    /\ pc' = CASE TooFewNames                           -> "usage"
               [] ~TooFewNames /\ input = "missing"     -> "exit"
               [] OTHER                                 -> Mode
    /\ UNCHANGED <<runs, input, names, given, file, order, viewed, compared>>

----------------------------------------------------------------------------
(* Modes                                                                   *)

IsRaw    == input \in {"raw", "rawAlpha"}
IsImage  == input \in {"opaque", "translucent"} \/ IsRaw
HasAlpha == input \in {"translucent", "rawAlpha"}

\* Bitmap( fn, lines, bgr ) with bgr = !dxtc; what is no image fails there.  A
\* raw4 file is taken as it is stored, whatever bgr says.
LoadImage_AlwaysBGR == "BGR"
LoadImage == CASE IsRaw -> "stored" [] ~IsRaw /\ f.dxtc -> "RGB" [] OTHER -> "BGR"

Opened(type, content) == [type |-> type, code |-> PvrCode(type), content |-> content]

\* the decoders write red first
Decoded(x) == [type |-> TypeOfCode(x.code), content |-> x.content]

Abort ==
    /\ pc' = "abort"
    /\ UNCHANGED <<runs, input, names, given, f, file, order, quality, viewed, compared>>

\* Whether ProcessRGBA or Process is called differs from mode to mode.
CpuContent(type) == IF type \in {"Etc2_RGBA", "Dxt5"} THEN ProcessRGBA(type) ELSE Process(type, "RGB")
Channel == IF f.alpha THEN "Alpha" ELSE "RGB"
BenchContent_ByType(type) == IF type = "Dxt5" THEN ProcessRGBA(type) ELSE Process(type, Channel)
BenchContent(type) ==
    IF f.rgba \/ type = "Dxt5" THEN ProcessRGBA(type) ELSE Process(type, Channel)

\* The file for the alpha channel is opened in one place and filled in another.
CpuAlphaFile_AnyImage(type) ==
    IF f.alpha /\ ~f.rgba
      THEN Opened(type, IF type \in {"Etc2_RGBA", "Dxt5"} THEN Empty ELSE Process(type, "Alpha"))
      ELSE file["alpha"]
CpuAlphaFile(type) ==
    IF f.alpha /\ HasAlpha /\ ~f.rgba
      THEN Opened(type, IF type \in {"Etc2_RGBA", "Dxt5"} THEN Empty ELSE Process(type, "Alpha"))
      ELSE file["alpha"]

Cpu ==
    /\ pc = "cpu"
    /\ IF ~IsImage THEN Abort
       ELSE LET type == PlainType(f, HasAlpha)
            IN  /\ order' = LoadImage
                /\ file' = [file EXCEPT !["output"] = Opened(type, CpuContent(type)),
                                        !["alpha"]  = CpuAlphaFile(type)]
                /\ compared' = IF f.stats THEN <<order', "RGB">> ELSE compared
                /\ pc' = "exit"
                /\ UNCHANGED <<runs, input, names, given, f, quality, viewed>>

\* one file; the GPU then does some of the blocks again
Betsy ==
    /\ pc = "betsy"
    /\ IF ~IsImage THEN Abort
       ELSE LET type == BenchType(f, HasAlpha)
            IN  /\ order' = LoadImage
                /\ file' = [file EXCEPT !["output"] = Opened(type, BenchContent(type))]
                /\ pc' = "exit"
                /\ UNCHANGED <<runs, input, names, given, f, quality, viewed, compared>>

Benchmark ==
    /\ pc = "benchmark"
    /\ IF f.viewMode # (input = "output") \/ input = "directory" THEN Abort
       ELSE /\ pc' = "exit"
            /\ UNCHANGED <<runs, input, names, given, f, quality, compared>>
            /\ \/ /\ f.viewMode
                  /\ viewed' = Decoded(file["output"])
                  /\ UNCHANGED <<order, file>>
               \/ /\ ~f.viewMode
                  /\ order' = LoadImage
                  /\ LET type == BenchType(f, HasAlpha)
                     IN  file' = [file EXCEPT !["memory"] = Opened(type, BenchContent(type))]
                  /\ UNCHANGED viewed

View ==
    /\ pc = "view"
    /\ IF input \notin {"output", "directory"} THEN Abort
       ELSE /\ viewed' = IF input = "output" THEN Decoded(file["output"]) ELSE viewed
            /\ pc' = "exit"
            /\ UNCHANGED <<runs, input, names, given, f, file, order, quality, compared>>

\* The program is started again; its file from before may be the input.
Again ==
    /\ pc \in {"exit", "usage", "abort"} /\ runs < MaxRuns
    /\ runs' = runs + 1
    /\ \E in \in Inputs, n \in 0..2 :
         /\ in = "output" => file["output"] # NoFile
         /\ pc' = "options" /\ input' = in /\ names' = n
         /\ given' = {} /\ f' = Defaults
         /\ order' = "none" /\ quality' = 40
         /\ viewed' = NoFile /\ compared' = <<>>
    /\ file' = [file EXCEPT !["memory"] = NoFile]

Done == pc \in {"exit", "usage", "abort", "directory"} /\ UNCHANGED vars

Next ==
    \/ \E o \in Options : Option(o)
    \/ EndOptions \/ Cpu \/ Betsy \/ Benchmark \/ View \/ Again \/ Done

Spec == Init /\ [][Next]_vars

----------------------------------------------------------------------------
(* Properties                                                              *)

\* No order of the options leads to a type that the called function rejects
\* with assert( false ): the choice of the type and the choice between Process
\* and ProcessRGBA are separate tests, and each mode has its own pair.
NoTypeRejected == \A x \in Files : file[x] # NoFile => file[x].content # Fails

\* A file that is written holds blocks of the format that its header announces,
\* or none (a file for the alpha channel beside DXT5).  The channel Alpha is
\* encoded as ETC2 whatever the type is, if it is not Etc1: that no such file is
\* opened with the type Dxt1 rests on the two tests of dp.Alpha() in the CPU
\* mode.  In the betsy mode, which puts the channel into the output, nothing
\* prevents it: a DXT1 file made with -a is the one exception.
AlphaInDxt1(x) == Mode = "betsy" /\ f.alpha /\ x = "output" /\ file[x].type = "Dxt1"
FormatTold ==
    (pc = "exit" /\ order # "none" /\ Mode \in {"cpu", "betsy"}) =>
        \A x \in {"output", "alpha"} :
            (file[x] # NoFile /\ ~AlphaInDxt1(x)) =>
                file[x].content.code \in {file[x].type, Empty.code}

\* A PNG image goes to a DXT encoder with red first, always, and to an ETC
\* encoder with blue first, unless --rgba and --dxtc are both given.  -s then
\* measures a DXT file against the image channel by channel (for ETC files it
\* takes the red of the one for the blue of the other).  A raw4 image has the
\* order it was stored in, and nothing checks that.
OrderFor(type) == IF type \in {"Dxt1", "Dxt5"} THEN "RGB" ELSE "BGR"
OrderFits ==
    order # "stored" =>
        /\ \A x \in {"output", "memory"} :
             (pc = "exit" /\ order # "none" /\ file[x] # NoFile /\ (x = "memory") = f.benchmark) =>
                \/ order = OrderFor(file[x].type)
                \/ file[x].type \notin {"Dxt1", "Dxt5"} /\ {"rgba", "dxtc"} \subseteq given
        /\ (compared # <<>> /\ file["output"].type \in {"Dxt1", "Dxt5"}) => compared[1] = compared[2]

\* A file that the program wrote is read with the type it was written with, and
\* -v decodes its blocks as what they are, unless the betsy mode was told -a.
ReadAsWritten ==
    viewed # NoFile =>
        /\ viewed.type = file["output"].type
        /\ viewed.content.from # "alpha" => viewed.type = viewed.content.code
=============================================================================
