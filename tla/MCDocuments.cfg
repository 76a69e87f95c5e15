\* Files of up to six units in seven formats; four configurations.
CONSTANTS
    LineText <- MCLineText
    Source <- MCSource
    DocxSource <- MCDocxSource
    HtmlSource <- MCHtmlSource
    PptxSource <- MCPptxSource
    RecordSource <- MCRecordSource
    PdfSource <- MCPdfSource
    CodeSource <- MCCodeSource
    WindowSize = 2
    Config <- MCConfig
    RawGap = 3
SPECIFICATION Spec
\* A file is through when it is chunked.
CHECK_DEADLOCK FALSE
INVARIANTS
    TypeOK
    EveryUnitOnce
    OutlineKept
    IdsDistinct
    SplitsCleanly
    ParentsShowTheirLeaves
