CONSTANT MaxImages = 1
SPECIFICATION Spec
INVARIANT FetchesAreWritten
