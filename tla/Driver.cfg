CONSTANTS
    MaxOptions = 5
    MaxRuns = 2
SPECIFICATION Spec
INVARIANTS NoTypeRejected FormatTold OrderFits ReadAsWritten
