------------------------------ MODULE Formats ------------------------------
(***************************************************************************)
(* The formats of an output file: how the modes of the program choose one, *)
(* which encoder BlockData runs for it, and how the file's header tells it *)
(* to the reader.  f stands for main's option variables.                   *)
(***************************************************************************)
EXTENDS Naturals

Types == {"Etc1", "Etc2_RGB", "Etc2_RGBA", "Dxt1", "Dxt5"}

\* The choice of the CPU mode and of the directory mode.
PlainType(f, hasAlpha) ==
    CASE f.etc2            -> IF f.rgba /\ hasAlpha THEN "Etc2_RGBA" ELSE "Etc2_RGB"
      [] ~f.etc2 /\ f.dxtc -> IF hasAlpha THEN "Dxt5" ELSE "Dxt1"
      [] OTHER             -> "Etc1"

\* The choice of the benchmark and of the betsy mode on one file.
BenchType(f, hasAlpha) ==
    CASE f.rgba                        -> "Etc2_RGBA"
      [] ~f.rgba /\ f.etc2             -> "Etc2_RGB"
      [] ~f.rgba /\ ~f.etc2 /\ f.dxtc  -> IF hasAlpha THEN "Dxt5" ELSE "Dxt1"
      [] OTHER                         -> "Etc1"

\* What the blocks of a file hold: an encoding and the channels it was made from.
Content(code, from) == [code |-> code, from |-> from]
Empty == Content("zeros", "none")
\* assert( false )
Fails == Content("assert", "none")

\* BlockData::Process
Process(type, channel) ==
    CASE channel = "Alpha" -> Content(IF type # "Etc1" THEN "Etc2_RGB" ELSE "Etc1", "alpha")
      [] channel = "RGB" /\ type \in {"Etc1", "Etc2_RGB", "Dxt1"} -> Content(type, "colour")
      [] OTHER -> Fails

\* BlockData::ProcessRGBA
ProcessRGBA(type) ==
    IF type \in {"Etc2_RGBA", "Dxt5"} THEN Content(type, "both") ELSE Fails

\* pixelformat[0] of the PVR header, as OpenForWriting writes it and the
\* reading constructor takes it.
PvrCode_RgbaAsRgb(type) ==
    CASE type = "Etc1" -> 6 [] type \in {"Etc2_RGB", "Etc2_RGBA"} -> 22
      [] type = "Dxt1" -> 7 [] type = "Dxt5" -> 11
PvrCode(type) ==
    CASE type = "Etc1" -> 6 [] type = "Etc2_RGB" -> 22 [] type = "Etc2_RGBA" -> 23
      [] type = "Dxt1" -> 7 [] type = "Dxt5" -> 11

TypeOfCode(code) ==
    CASE code = 6 -> "Etc1" [] code = 7 -> "Dxt1" [] code = 11 -> "Dxt5"
      [] code = 22 -> "Etc2_RGB" [] code = 23 -> "Etc2_RGBA"
=============================================================================
