SPECIFICATION ToolsSpec
CHECK_DEADLOCK FALSE
CONSTANTS
    Seeds = {1, 2}
    Traces <- TestTraces
    Logs <- TestLogs
    Configs <- TestConfigs
    Baselines <- TestBaselines
    MaxEntries = 1
    MaxExpectTicks = 3
    Fixtures = {"sprite_iso_1000", "ui_smoke"}
INVARIANTS
    DocumentsReadRight
    ListedWithItsBlock
    ReplayTellsTheRuns
    ExitTellsWhatHappened
    VerdictCountsEveryFixture
