CONSTANT MaxImages = 3
SPECIFICATION Spec
INVARIANTS RightTexture LoadsAreWritten SavedIsDownload TeardownIsSafe
