CONSTANTS
    Clients = {c1, c2}
    Listeners = {l1, l2}
    Stoppers = {t}
    Pnps = {}
    Main = main
    Sessions = {s1}
    Spoolers = {h1, h2, h3}
    None = None
    conf <- Mei
    Machines <- OneFault
SPECIFICATION Spec
INVARIANT CommandsHavePlugin
INVARIANT StateMatchesPlugin
INVARIANT SomeoneWillReset
SYMMETRY Symmetry
CHECK_DEADLOCK FALSE
