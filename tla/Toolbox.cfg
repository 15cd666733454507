\* Each component by itself, on inputs in which its cases happen.
SPECIFICATION Spec
CONSTANTS
    f1 = f1
    f2 = f2
    f3 = f3
    d1 = d1
    d2 = d2
    r1 = r1
    r2 = r2
    n1 = n1
    n2 = n2
    u1 = u1
    u2 = u2
    fa = fa
    fb = fb
    out = out
    \* containers
    HeapValues = {1, 2, 3}
    HeapSize = 5
    UnionSize = 4
    GraphSize = 3
    Keys = {1, 2, 3}
    Vals = {u, v}
    MaxLevel = 3
    Pushers = {p1, p2}
    TopValues = {1, 2, 3}
    Cap = 2
    MaxPushes = 4
    Idle = Idle
    MaxNodes = 3
    Weights = {1}
    ListSize = 5
    MaxTree = 4
    \* coroutines and events
    Owners = {o1, o2}
    Frames = {c1, c2}
    MaxYields = 2
    NoFrame = NoFrame
    Threads = {s1, s2}
    Handlers = {h1, h2, h3}
    MaxPublish = 2
    \* texts
    Letters <- SomeLetters
    MaxText = 3
    Delims <- SomeDelims
    FormatLetters = {"{", "}", "a"}
    MaxFormat = 4
    Strings <- SomeStrings
    MaxItems = 2
    Executables <- SomeExecutables
    Symbols <- SomeSymbols
    MaxFrames = 2
    ArgvItems <- SomeArgvItems
    MaxArgs = 3
    Drawn = 3
    Bounds <- SomeBounds
    MaxDrawn = 2
    MaxContent = 3
    MaxReads = 4
    MaxRewrites = 1
    Writers = {t1, t2}
    MaxWrites = 3
    \* programs
    DuFiles = {f1, f2, f3}
    DuEntry <- TwoEntries
    DuSizes = {1, 2}
    Gone = Gone
    Fifos = {f1}
    Odd = Odd
    Main = Main
    DuWorkers = 2
    DuOptions = {0, 1}
    MaxChanges = 1
    Repos = {r1, r2}
    Names = {n1, n2}
    Name <- SameName
    Defaults <- OneDefault
    Links <- LinkOfEach
    FileName <- NameOfEach
    OneFile = out
    Blocks = 2
    MaxNew = 1
    TextFiles <- ThreeFiles
    Lines <- LinesOfEach
    Output = out
    Buffer = 3
    MaxFile = 12
    Talkers = 3
    TalkThreads = 2
    Naps = 2
    MaxMessages = 3
    \* examples
    MaxLate = 3
    MaxImages = 4
    MaxThreads = 3
    Message = 3
    Points = {l1, l2}
    MaxShapes = 2
    MaxCurve = 2
CHECK_DEADLOCK FALSE
INVARIANTS OrderCorrect UnionCorrect TopCorrect TextCorrect GeneratorCorrect CallsInv ArgParserCorrect LoggerCorrect DucppCorrect DownloaderCorrect ToolsCorrect ExamplesCorrect
