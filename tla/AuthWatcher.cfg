CONSTANTS
    f1 = f1 s1 = s1 old = old new = new marked = marked untyped = untyped junk = junk start = start again = again
    None = None Partial = Partial Handler = Handler
    File = {f1}
    Session = {s1}
    Content = {old, new, marked, untyped, junk}
    Parsable = {old, new, untyped}
    Yielding = {old, new, marked}
    Reload = {start, again}
    Startup = start
    ConfigChange <- OneAtATime
    MaxChanges = 2
SPECIFICATION Spec
SYMMETRY EitherContent
INVARIANTS TypeOK ServiceWillAgree CacheTellsTheTruth
CHECK_DEADLOCK FALSE
