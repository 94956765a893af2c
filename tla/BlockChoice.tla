---------------------------- MODULE BlockChoice ----------------------------
(***************************************************************************)
(* How ProcessRGB_ETC2 chooses the word of one block, in the variant of    *)
(* the CPU mode and in the one of the hybrid mode, which also reports      *)
(* blocks with a high error so that the GPU can do them again.             *)
(*                                                                         *)
(* The candidates (ETC1, T or H, planar) have two errors each: the one by  *)
(* which the encoder compares them (cmp) and the one that the hybrid       *)
(* variant computes again for its report (own).  Both come from searches   *)
(* that are not modelled and are chosen freely in ChoiceInit, as are the   *)
(* luma range and the positions of its extremes.  The search for a T or H  *)
(* word starts from MaxError and may find nothing better (colourful noise  *)
(* does that): its index bits and the colours for its report then stay     *)
(* uninitialised.  The ETC1 search counts luma only and stays below half   *)
(* of MaxError.  The branches are those of a build with AVX2; without it   *)
(* the hybrid variant does not compile.                                    *)
(***************************************************************************)
EXTENDS Integers

CONSTANTS
    Ranges,         \* luma ranges of a block, in steps of 1/255
    Extremes,       \* positions of the darkest and of the brightest pixel
    CmpErrors,      \* values of cmp, all less than MaxError; TH may have MaxError
    OwnErrors,      \* values of own
    MaxError,
    errorThreshold

ASSUME ErrorsAssumption ==
    /\ MaxError \in Nat /\ errorThreshold \in Nat
    /\ CmpErrors \subseteq 0..(MaxError - 1)
    /\ OwnErrors \subseteq Nat
    /\ Ranges \subseteq 0..255 /\ Extremes \subseteq 0..15

Candidates == {"ETC1", "TH", "planar"}

VARIABLES
    hybrid,         \* which variant runs
    useHeuristics,
    block,          \* range, minIdx, maxIdx, solid, cmp and own of a candidate
    pc,
    mode,
    plane,          \* Plane: a word and its error; "junk" is an uninitialised one
    isHighError, errorValue,
    word            \* what is returned

choiceVars == <<hybrid, useHeuristics, block, pc, mode, plane, isHighError, errorValue, word>>
input == <<hybrid, useHeuristics, block>>

Blocks ==
    [ range : Ranges, minIdx : Extremes, maxIdx : Extremes, solid : BOOLEAN,
      cmp : [Candidates -> CmpErrors \union {MaxError}], own : [Candidates -> OwnErrors] ]

ChoiceInit ==
    /\ hybrid \in BOOLEAN /\ useHeuristics \in BOOLEAN
    /\ block \in Blocks
    /\ block.solid => block.range = 0
    /\ MaxError \notin {block.cmp["ETC1"], block.cmp["planar"]}
    /\ pc = "CheckSolid" /\ mode = "Undecided"
    /\ plane = [plane |-> "junk", error |-> 0]
    /\ isHighError = FALSE /\ errorValue = 0
    /\ word = "none"

\* The hybrid variant has this test commented out.
CheckSolid ==
    /\ pc = "CheckSolid"
    /\ IF block.solid /\ ~hybrid
         THEN word' = "solid" /\ pc' = "done"
         ELSE word' = word /\ pc' = "SelectMode"
    /\ UNCHANGED <<input, mode, plane, isHighError, errorValue>>

CornerPair == <<block.minIdx, block.maxIdx>> \in {<<0, 15>>, <<15, 0>>, <<3, 12>>, <<12, 3>>}

\* ecmd_threshold is 0.03, 0.09 and 0.38
SelectModeETC2 ==
    CASE block.range <= 7                       -> "Planar"
      [] block.range \in 8..22 /\ CornerPair    -> "Planar"
      [] block.range >= 97                      -> "TH"
      [] OTHER                                  -> "Undecided"

SelectMode ==
    /\ pc = "SelectMode"
    /\ mode' = IF useHeuristics THEN SelectModeETC2 ELSE mode
    /\ pc' = "Planar"
    /\ UNCHANGED <<input, plane, isHighError, errorValue, word>>

\* "if (x > errorThreshold) { errorValue = x; isHighError = true; }"
Report_Overwrites(high, e) ==
    /\ isHighError' = high
    /\ errorValue' = IF high THEN e ELSE errorValue
Report_AnyError(high, e) ==
    /\ isHighError' = (isHighError \/ high)
    /\ errorValue' = e
Report(high, e) ==
    /\ isHighError' = (isHighError \/ high)
    /\ errorValue' = IF high THEN e ELSE errorValue

\* Planar_AVX2.  The sum that would be the planar error of the hybrid variant
\* is commented out; the one of the CPU variant is not.
PlanarError_NeverSummed == 0
PlanarError == IF useHeuristics \/ hybrid THEN 0 ELSE block.cmp["planar"]

Planar ==
    /\ pc = "Planar"
    /\ IF useHeuristics /\ mode # "Planar"
         THEN UNCHANGED <<mode, plane, isHighError, errorValue>>
         ELSE /\ plane' = [plane |-> "planar", error |-> PlanarError]
              /\ mode' = IF useHeuristics THEN "Planar" ELSE mode
              /\ Report(hybrid /\ block.own["planar"] > errorThreshold, block.own["planar"])
    /\ IF useHeuristics /\ mode = "Planar"
         THEN word' = "planar" /\ pc' = "done"
         ELSE word' = word /\ pc' = "TryTH"
    /\ UNCHANGED input

\* compressBlockTH, or no candidate besides ETC1
FoundTH == block.cmp["TH"] < MaxError
THPlane == [plane |-> IF FoundTH THEN "TH" ELSE "junk", error |-> block.cmp["TH"]]

TryTH_NoReset ==
    /\ pc = "TryTH"
    /\ IF useHeuristics /\ mode = "TH"
         THEN plane' = THPlane
         ELSE UNCHANGED plane
    /\ Report(hybrid /\ useHeuristics /\ mode = "TH" /\ block.own["TH"] > errorThreshold, block.own["TH"])
    /\ pc' = "EncodeSelectors"
    /\ UNCHANGED <<input, mode, word>>

TryTH ==
    /\ pc = "TryTH"
    /\ \/ /\ useHeuristics /\ mode = "TH"
          /\ plane' = THPlane
          /\ Report(hybrid /\ block.own["TH"] > errorThreshold, block.own["TH"])
       \/ /\ useHeuristics /\ mode # "TH"
          /\ plane' = [plane |-> "zero", error |-> MaxError]
          /\ UNCHANGED <<isHighError, errorValue>>
       \/ /\ ~useHeuristics
          /\ UNCHANGED <<plane, isHighError, errorValue>>
    /\ pc' = "EncodeSelectors"
    /\ UNCHANGED <<input, mode, word>>

\* RecalculateError reports the ETC1 candidate, then the better word is returned.
Etc1High == block.own["ETC1"] >= errorThreshold

EncodeSelectors ==
    /\ pc = "EncodeSelectors"
    /\ Report(hybrid /\ Etc1High, block.own["ETC1"])
    /\ word' = IF block.cmp["ETC1"] >= plane.error THEN plane.plane ELSE "ETC1"
    /\ pc' = "done"
    /\ UNCHANGED <<input, mode, plane>>

ChoiceDone == pc = "done" /\ UNCHANGED choiceVars

ChoiceNext == CheckSolid \/ SelectMode \/ Planar \/ TryTH \/ EncodeSelectors \/ ChoiceDone

ChoiceSpec == ChoiceInit /\ [][ChoiceNext]_choiceVars

----------------------------------------------------------------------------
(* Properties                                                              *)

\* What is returned is a word that was made for this block: never the Plane
\* that Planar_AVX2 returns uninitialised for blocks that are not planar, nor
\* one with the uninitialised indices of a T or H search without a result, nor
\* the 0 that stands for "no second candidate".
ReturnsACandidate == pc = "done" => word \in Candidates \union {"solid"}

\* The hybrid variant reports every block whose returned word has an error
\* over the threshold (it may report others: the error of a candidate that was
\* then not chosen counts too).  A block missed here is never done by the GPU.
NoBadBlockMissed ==
    (pc = "done" /\ hybrid /\ word \in Candidates /\ block.own[word] > errorThreshold) => isHighError

\* A reported block comes with an error that reaches the threshold and that was
\* computed for one of its candidates: the sort in ProcessWithGPU relies on it.
\* (Of a T or H search without a result it is computed from uninitialised colours.)
ReportedErrorIsHigh ==
    (pc = "done" /\ isHighError) =>
        errorValue >= errorThreshold /\ \E c \in Candidates : errorValue = block.own[c]

\* What the hybrid mode knows of a block is what it needs to pick the worst ones.
ReportsAreRight == NoBadBlockMissed /\ ReportedErrorIsHigh

\* Without the heuristic selector both planar and ETC1 are tried and the one
\* with the smaller error is returned (EncodeSelectors_AVX2).
BetterOf(w) == block.cmp[w] <= block.cmp["ETC1"] /\ block.cmp[w] <= block.cmp["planar"]
BestWithoutHeuristicsIn(variant) ==
    (pc = "done" /\ hybrid = variant /\ ~useHeuristics /\ word # "solid") => BetterOf(word)

BestWithoutHeuristics == BestWithoutHeuristicsIn(FALSE)

\* The same for the variant of the hybrid mode.
HybridBestWithoutHeuristics == BestWithoutHeuristicsIn(TRUE)
=============================================================================
