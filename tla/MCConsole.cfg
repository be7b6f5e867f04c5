\* Two jobs and two reports; clicks in the dialog, on the page or in the report, then none: it may stop.
SPECIFICATION Spec
CONSTANTS
    None = None
    Jobs <- MCJobs
    Budgets <- MCBudgets
    Pages <- MCPages
    Found <- MCFound
    Recent = 1
    Loaded = 5
    MaxHistory = 1
INVARIANTS TypeOK ShownIsSelected PollsWhenNeeded SettledListsAreCurrent TimelineShowsChoice 
CHECK_DEADLOCK FALSE
