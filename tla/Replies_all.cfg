CONSTANTS
    StructSize = 7
    Mirror <- MCMirror
    Narrow <- MCNarrow
    CallSignMax = 2
    TextMax = 6
    FramSize = 3
    BufferSizes = {6, 40}
    Failures <- MCFailures
    DeviceLengths = {0, 2, 6, 255}
    Top = 20
SPECIFICATION Spec
INVARIANTS NothingLeftOver ValuesArrive StatusTellsFailure SettingsFromRequest ByteOrderHostFree SentReplyFits
